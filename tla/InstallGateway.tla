--------------------------- MODULE InstallGateway ---------------------------
(***************************************************************************)
(* Linking a GitHub App installation from two environments, the hosted one *)
(* and a developer's, of which only the hosted one is known to GitHub: it  *)
(* sends browsers that come back from GitHub on to the environment they    *)
(* started from, and forwards webhooks to the environment that registered  *)
(* itself.  What removing an installation does to sources is in            *)
(* GithubIntegration.                                                      *)
(***************************************************************************)
EXTENDS Naturals, Sequences

CONSTANTS
  Owners,     \* people; each owns a workspace in each environment
  Callbacks,  \* calls of the link route that may be under way at once
  MaxInstalls \* bound: intents created

Environments == {"hosted", "local"}

VARIABLES
  shares,  \* what the environments share: "nothing", their "database", the signing secret too
  intents, \* rows of GithubInstallIntent, with the step the browser has come to
  grant,   \* the installation at GitHub: "none", "installed", "deleted"
  linked,  \* GithubInstallation of each database: the workspace's owner, or "none"
  linking, \* calls of the link route
  target,  \* GithubWebhookTarget of the local environment: "none", "active", "old"
  hooks,   \* environments a "deleted" webhook is on its way to
  missed,  \* history: databases whose environment the webhook did not get to
  late     \* history: databases with a link call under way when GitHub deleted it

gatewayVars == <<shares, intents, grant, linked, linking, target, hooks, missed, late>>

NotLinking == [at |-> "none"]

GatewayType ==
  /\ shares \in {"nothing", "database", "both"}
  /\ \A i \in DOMAIN intents :
       /\ intents[i].env \in Environments /\ intents[i].who \in Owners
       /\ intents[i].browser \in {"github", "gateway", "app", "refused"}
       /\ intents[i].row \in {"open", "expired", "consumed"}
  /\ grant \in {"none", "installed", "deleted"}
  /\ linked \in [Environments -> Owners \union {"none"}]
  /\ \A c \in Callbacks : linking[c].at \in {"none", "consume", "update", "upsert"}
  /\ target \in {"none", "active", "old"}
  /\ hooks \subseteq Environments /\ missed \subseteq Environments /\ late \subseteq Environments

GatewayInit ==
  /\ shares \in {"nothing", "database", "both"}
  /\ intents = <<>>
  /\ grant = "none"
  /\ linked = [e \in Environments |-> "none"]
  /\ linking = [c \in Callbacks |-> NotLinking]
  /\ target = "none"
  /\ hooks = {} /\ missed = {} /\ late = {}

\* The database an environment writes to.
Db(e) == IF shares # "nothing" THEN "hosted" ELSE e

\* The databases that only these environments can remove the installation from.
DbsOf(envs) == {e \in envs : Db(e) = e}

historyVars == <<missed, late>>

-----------------------------------------------------------------------------
(* Install intents and the way back from GitHub *)

\* GET /api/integrations/github/install, by the owner of a workspace.
BeginInstall(e, who) ==
  /\ Len(intents) < MaxInstalls
  /\ intents' = Append(intents, [env |-> e, who |-> who, browser |-> "github",
                                 row |-> "open"])
  /\ UNCHANGED <<shares, grant, linked, linking, target, hooks, historyVars>>

\* Ten minutes pass.
ExpireIntent(i) ==
  /\ intents[i].row = "open"
  /\ intents' = [intents EXCEPT ![i].row = "expired"]
  /\ UNCHANGED <<shares, grant, linked, linking, target, hooks, historyVars>>

\* The app is installed, or is configured again where it is.
ReturnFromGithub(i) ==
  /\ intents[i].browser = "github" /\ grant # "deleted"
  /\ grant' = "installed"
  /\ intents' = [intents EXCEPT ![i].browser = "gateway"]
  /\ UNCHANGED <<shares, linked, linking, target, hooks, historyVars>>

\* The gateway reads a state only if the hosted secret signed it, and finds an intent only
\* in the hosted database.
GatewayKnows(i) ==
  \/ intents[i].env = "hosted"
  \/ shares = "both"

\* GET /auth/github/callback: on to the environment the intent is of.
RedirectToApp(i) ==
  /\ intents[i].browser = "gateway"
  /\ intents' = [intents EXCEPT ![i].browser =
       IF GatewayKnows(i) /\ intents[i].row = "open"
       THEN "app" ELSE "refused"]
  /\ UNCHANGED <<shares, grant, linked, linking, target, hooks, historyVars>>

-----------------------------------------------------------------------------
(* The link route *)

LinkGoes(c, at) == linking' = [linking EXCEPT ![c].at = at]

\* Mutant: GitHub is not asked.
NobodyAsked == TRUE

\* getGithubInstallation answers.
InstallationExists == grant = "installed"

\* The callback page of the portal calls the route as whoever is signed in; it may be
\* loaded again.  The intent must be that person's; GitHub is asked for the installation,
\* which must exist.
BeginLink(c, i, who) ==
  /\ linking[c] = NotLinking /\ intents[i].browser = "app"
  /\ intents[i].who = who /\ InstallationExists
  /\ linking' = [linking EXCEPT ![c] = [at |-> "consume", of |-> i]]
  /\ UNCHANGED <<shares, intents, grant, linked, target, hooks, historyVars>>

\* consumeGithubInstallIntent reads the row and updates it without a condition, so that
\* two calls may both take an intent.
ReadIntent(c) ==
  /\ linking[c].at = "consume"
  /\ IF intents[linking[c].of].row # "open"
     THEN linking' = [linking EXCEPT ![c] = NotLinking]
     ELSE LinkGoes(c, "update")
  /\ UNCHANGED <<shares, intents, grant, linked, target, hooks, historyVars>>

ConsumeIntent(c) ==
  /\ linking[c].at = "update"
  /\ intents' = [intents EXCEPT ![linking[c].of].row = "consumed"]
  /\ LinkGoes(c, "upsert")
  /\ UNCHANGED <<shares, grant, linked, target, hooks, historyVars>>

\* The installation goes to the workspace of the intent, whoever had it.
UpsertInstallation(c) ==
  /\ linking[c].at = "upsert"
  /\ LET i == intents[linking[c].of] IN linked' = [linked EXCEPT ![Db(i.env)] = i.who]
  /\ linking' = [linking EXCEPT ![c] = NotLinking]
  /\ UNCHANGED <<shares, intents, grant, target, hooks, historyVars>>

\* The process of a call dies, or a statement of it fails.
LoseLink(c) ==
  /\ linking[c].at \in {"consume", "update", "upsert"}
  /\ linking' = [linking EXCEPT ![c] = NotLinking]
  /\ UNCHANGED <<shares, intents, grant, linked, target, hooks, historyVars>>

\* An owner removes the installation from the workspace.
Unlink(e) ==
  /\ linked[e] # "none"
  /\ linked' = [linked EXCEPT ![e] = "none"]
  /\ UNCHANGED <<shares, intents, grant, linking, target, hooks, historyVars>>

-----------------------------------------------------------------------------
(* Webhooks *)

\* The local listener registers its address, at its start and then in intervals.
RegisterTarget ==
  /\ target # "active" /\ target' = "active"
  /\ UNCHANGED <<shares, intents, grant, linked, linking, hooks, historyVars>>

\* GITHUB_WEBHOOK_TARGET_TTL_SECONDS pass without it.
AgeTarget ==
  /\ target = "active" /\ target' = "old"
  /\ UNCHANGED <<shares, intents, grant, linked, linking, hooks, historyVars>>

\* The app is uninstalled; GitHub tells the gateway.
DeleteGrant ==
  /\ grant = "installed" /\ grant' = "deleted"
  /\ hooks' = {"hosted"}
  /\ late' = {Db(intents[linking[c].of].env) : c \in {d \in Callbacks : linking[d] # NotLinking}}
  /\ UNCHANGED <<shares, intents, linked, linking, target, missed>>

\* listActiveGithubWebhookTargets
ActiveTargets == IF target = "active" THEN {"local"} ELSE {}

\* The installation is removed from the hosted database; then the event is forwarded to the
\* targets that are active.
ReceiveAtGateway ==
  /\ "hosted" \in hooks
  /\ linked' = [linked EXCEPT !["hosted"] = "none"]
  /\ hooks' = (hooks \ {"hosted"}) \union ActiveTargets
  /\ missed' = missed \union DbsOf({"local"} \ ActiveTargets)
  /\ UNCHANGED <<shares, intents, grant, linking, target, late>>

\* Another environment's API removes it from its database and forwards nothing.
ReceiveAtLocal ==
  /\ "local" \in hooks
  /\ linked' = [linked EXCEPT ![Db("local")] = "none"]
  /\ hooks' = hooks \ {"local"}
  /\ UNCHANGED <<shares, intents, grant, linking, target, historyVars>>

\* A webhook is not answered, or fails, or a forwarded one finds nobody within the timeout;
\* it is not sent again, and what the gateway misses nobody gets.
LoseWebhook(e) ==
  /\ e \in hooks
  /\ hooks' = hooks \ {e}
  /\ missed' = missed \union DbsOf(IF e = "hosted" THEN Environments ELSE {e})
  /\ UNCHANGED <<shares, intents, grant, linked, linking, target, late>>

GatewayNext ==
  \/ \E e \in Environments, who \in Owners : BeginInstall(e, who)
  \/ \E i \in DOMAIN intents : ExpireIntent(i) \/ ReturnFromGithub(i) \/ RedirectToApp(i)
  \/ \E c \in Callbacks, i \in DOMAIN intents, who \in Owners : BeginLink(c, i, who)
  \/ \E c \in Callbacks : \/ ReadIntent(c) \/ ConsumeIntent(c)
                          \/ UpsertInstallation(c) \/ LoseLink(c)
  \/ \E e \in Environments : Unlink(e) \/ LoseWebhook(e)
  \/ RegisterTarget \/ AgeTarget \/ DeleteGrant \/ ReceiveAtGateway \/ ReceiveAtLocal

-----------------------------------------------------------------------------

\* An installation is linked to a workspace only by its owner, through an intent of that
\* environment that was consumed; and once GitHub has deleted it, no database keeps it but
\* one whose environment the webhook missed, or one that a link call may have written which
\* had asked GitHub before.
InstallationIsAccountedFor ==
  /\ \A e \in Environments :
       linked[e] # "none" =>
         \E i \in DOMAIN intents : /\ Db(intents[i].env) = e /\ intents[i].row = "consumed"
                                   /\ intents[i].who = linked[e]
  /\ grant = "deleted" /\ hooks = {} =>
       \A e \in Environments : linked[e] # "none" => e \in missed \union late
=============================================================================
