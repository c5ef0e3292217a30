------------------------------ MODULE CodexAuth ------------------------------
(***************************************************************************)
(* Codex auth profiles (AiAuth rows: one per user, one of the workspace,   *)
(* one global) and the jobs that borrow their tokens.  A job is bound to a *)
(* profile when it is created, its worker copies the profile's tokens to a *)
(* file, Codex renews them in the sandbox, which spends the old ones, and  *)
(* the worker stores the file's tokens when it collects the result.        *)
(***************************************************************************)
EXTENDS Naturals

CONSTANTS
  Users,
  Audit, Fix,  \* a job, and the remediation of its report
  LocalFile,   \* the machine has an auth file of its own
  MaxIssues,   \* bound on the times an account's tokens are issued
  MaxRequests  \* bound on the routes called on profiles

ASSUME CodexAssumption ==
  /\ Audit # Fix /\ LocalFile \in BOOLEAN /\ MaxIssues \in Nat /\ MaxRequests \in Nat
  /\ Users \intersect {"workspace", "global", "file", "none"} = {}

VARIABLES
  profile,    \* AiAuth rows
  verifying,  \* profiles for which verifyScopedCodexAuth awaits the provider
  disabling,  \* setGlobalCodexAuthDisabled has read the global row
  run,        \* of each job: its binding, and the tokens in its file
  latest,     \* tokens the provider issued last for each account
  requests,
  strayed     \* history: accounts whose latest tokens may be nowhere

authVars == <<profile, verifying, disabling, run, latest, requests, strayed>>

Jobs     == {Audit, Fix}
Profiles == Users \union {"workspace", "global"}
\* Tokens are of the account that signed in for a profile, or of the local file.
Accounts == Profiles \union {"file"}
Tokens   == [account : Accounts, issue : 0 .. MaxIssues]
NoTokens == [account |-> "none", issue |-> 0]
NoRun    == [at |-> "new", binding |-> "none", tokens |-> NoTokens, renewed |-> FALSE]

AuthType ==
  /\ profile \in [Profiles -> [status : {"missing", "unauthenticated", "pending", "ready", "error"},
                               tokens : Tokens \union {NoTokens}, disabled : BOOLEAN]]
  /\ verifying \subseteq Profiles
  /\ disabling \in {"no", "found", "missing"}
  /\ run \in [Jobs -> [at : {"new", "bound", "running", "ended"},
                       binding : Profiles \union {"none"},
                       tokens : Tokens \union {NoTokens}, renewed : BOOLEAN]]
  /\ latest \in [Accounts -> 0 .. MaxIssues]
  /\ requests \in 0 .. MaxRequests
  /\ strayed \subseteq Accounts

AuthInit ==
  /\ profile = [p \in Profiles |-> [status |-> "missing", tokens |-> NoTokens, disabled |-> FALSE]]
  /\ verifying = {}
  /\ disabling = "no"
  /\ run = [j \in Jobs |-> NoRun]
  /\ latest = [a \in Accounts |-> 0]
  /\ requests = 0
  /\ strayed = {}

\* Jobs whose file has tokens of the account.
Borrowers(a) == {j \in Jobs : run[j].at = "running" /\ run[j].tokens.account = a}

Requested == requests < MaxRequests /\ requests' = requests + 1

\* storeCodexTokensForTarget
Store(p, tokens) ==
  profile' = [profile EXCEPT ![p].status = "ready", ![p].tokens = tokens]

-----------------------------------------------------------------------------
(* The routes on a profile *)

\* The row's tokens stay, out of use while it is pending.
StartDeviceFlow(p) ==
  /\ profile' = [profile EXCEPT ![p].status = "pending"]
  /\ Requested
  /\ UNCHANGED <<verifying, disabling, run, latest, strayed>>

Verify(p) ==
  /\ p \notin verifying
  /\ profile[p].status = "pending"
  /\ verifying' = verifying \union {p}
  /\ UNCHANGED <<profile, disabling, run, latest, strayed, requests>>

\* Not confirmed yet, refused, or exchanged for tokens: written whatever has become of
\* the row since.
VerifyAnswer(p) ==
  /\ p \in verifying
  /\ verifying' = verifying \ {p}
  /\ \/ UNCHANGED <<profile, latest, strayed>>
     \/ /\ profile' = [profile EXCEPT ![p].status = "error"]
        /\ UNCHANGED <<latest, strayed>>
     \/ /\ latest[p] < MaxIssues
        /\ latest' = [latest EXCEPT ![p] = @ + 1]
        /\ Store(p, [account |-> p, issue |-> latest'[p]])
        /\ strayed' = IF Borrowers(p) = {} THEN strayed \ {p} ELSE strayed \union {p}
  /\ UNCHANGED <<disabling, run, requests>>

\* import-local: the file keeps the tokens it has.
ImportLocal(p) ==
  /\ LocalFile
  /\ Store(p, [account |-> "file", issue |-> 0])
  /\ Requested
  /\ UNCHANGED <<verifying, disabling, run, latest, strayed>>

LogOut(p) ==
  /\ profile' = [profile EXCEPT ![p].status = "unauthenticated", ![p].tokens = NoTokens]
  /\ Requested
  /\ UNCHANGED <<verifying, disabling, run, latest, strayed>>

\* setGlobalCodexAuthDisabled: is there a row ...
ReadGlobal ==
  /\ disabling = "no"
  /\ disabling' = IF profile["global"].status = "missing" THEN "missing" ELSE "found"
  /\ Requested
  /\ UNCHANGED <<profile, verifying, run, latest, strayed>>

\* ... and the flag, with a status if there was none.
WriteDisabled(flag) ==
  /\ disabling # "no"
  /\ profile' = [profile EXCEPT !["global"].disabled = flag,
       !["global"].status = IF disabling = "missing" THEN "unauthenticated" ELSE @]
  /\ disabling' = "no"
  /\ UNCHANGED <<verifying, run, latest, strayed, requests>>

-----------------------------------------------------------------------------
(* Bindings *)

\* getCodexAuthStatusForTarget: ready, and not disabled.
Available(p) ==
  /\ ~ profile[p].disabled
  /\ \/ profile[p].status = "ready"
     \/ p = "global" /\ profile[p].status = "missing" /\ LocalFile

\* resolveDefaultCodexAuthBinding: the user's own, the workspace's, the global one.
DefaultBinding(u) ==
  IF Available(u) THEN u
  ELSE IF Available("workspace") THEN "workspace"
  ELSE IF Available("global") THEN "global" ELSE "none"

\* resolveFollowOnCodexAuthBinding
FollowOn(inherited, u) ==
  IF inherited = "none" \/ (inherited \in Users /\ inherited # u) THEN DefaultBinding(u)
  ELSE inherited

Bind(j, p) ==
  /\ run[j].at = "new"
  /\ run' = [run EXCEPT ![j].at = "bound", ![j].binding = p]
  /\ UNCHANGED <<profile, verifying, disabling, latest, strayed, requests>>

\* A job of user u, on the profile it asks for or the default one.
CreateAudit(u) ==
  \/ \E p \in {u, "workspace", "global"} : Available(p) /\ Bind(Audit, p)
  \/ Bind(Audit, DefaultBinding(u))

CreateFix(u) ==
  /\ run[Audit].at = "ended"
  /\ Bind(Fix, FollowOn(run[Audit].binding, u))

-----------------------------------------------------------------------------
(* The worker *)

\* A job without a binding uses the global profile.
Bound(j) == IF run[j].binding = "none" THEN "global" ELSE run[j].binding

\* getCodexTokensForTarget.  Of the stored tokens and the file's those that expire
\* later are taken.
TokensFor(p) ==
  LET stored == IF profile[p].status = "ready" THEN {profile[p].tokens} ELSE {}
      file   == IF p = "global" /\ LocalFile /\ profile[p].status \in {"ready", "missing"}
                THEN {[account |-> "file", issue |-> 0]} ELSE {}
  IN  IF profile[p].disabled \/ stored \union file = {} THEN {NoTokens} ELSE stored \union file

\* stageCodexAuth
Stage(j) ==
  /\ run[j].at = "bound"
  /\ \E tokens \in TokensFor(Bound(j)) :
       /\ run' = [run EXCEPT ![j].at = "running", ![j].tokens = tokens]
       /\ strayed' = IF Borrowers(tokens.account) = {} THEN strayed
                     ELSE strayed \union {tokens.account}
  /\ UNCHANGED <<profile, verifying, disabling, latest, requests>>

\* Codex renews the tokens of its file, unless they have been spent already.
Renew(j) ==
  /\ run[j].at = "running" /\ run[j].tokens # NoTokens
  /\ LET a == run[j].tokens.account
     IN  /\ run[j].tokens.issue = latest[a] /\ latest[a] < MaxIssues
         /\ latest' = [latest EXCEPT ![a] = @ + 1]
         /\ run' = [run EXCEPT ![j].tokens.issue = @ + 1, ![j].renewed = TRUE]
  /\ UNCHANGED <<profile, verifying, disabling, strayed, requests>>

Over(j) == run' = [run EXCEPT ![j] = [NoRun EXCEPT !.at = "ended", !.binding = run[j].binding]]

\* Mutant: only the tokens of a sandbox whose job succeeded are stored.
CollectSuccess(j) ==
  /\ run[j].at = "running"
  /\ Over(j)
  /\ \/ run[j].tokens # NoTokens /\ Store(Bound(j), run[j].tokens)
     \/ UNCHANGED profile
  /\ UNCHANGED <<verifying, disabling, latest, strayed, requests>>

\* There is a result, of success or of failure: syncCodexAuth.
Collect(j) ==
  /\ run[j].at = "running"
  /\ Over(j)
  /\ IF run[j].tokens = NoTokens THEN UNCHANGED profile ELSE Store(Bound(j), run[j].tokens)
  /\ UNCHANGED <<verifying, disabling, latest, strayed, requests>>

\* The sandbox was cancelled or timed out, left no result, or the worker died: the
\* file goes with what was renewed.
Abandon(j) ==
  /\ run[j].at \in {"bound", "running"}
  /\ Over(j)
  /\ strayed' = IF run[j].renewed THEN strayed \union {run[j].tokens.account} ELSE strayed
  /\ UNCHANGED <<profile, verifying, disabling, latest, requests>>

AuthNext ==
  \/ \E p \in Profiles :
       StartDeviceFlow(p) \/ Verify(p) \/ VerifyAnswer(p) \/ ImportLocal(p) \/ LogOut(p)
  \/ ReadGlobal \/ \E flag \in BOOLEAN : WriteDisabled(flag)
  \/ \E u \in Users : CreateAudit(u) \/ CreateFix(u)
  \/ \E j \in Jobs : Stage(j) \/ Renew(j) \/ Collect(j) \/ Abandon(j)

-----------------------------------------------------------------------------
(* Properties *)

\* A job's tokens come back to the profile they were taken from, whatever happened to
\* bindings and profiles meanwhile: no profile gets those of another account; one that
\* is ready has tokens; and its tokens are not spent, unless a run was abandoned after
\* it renewed them, two runs had them at once, or somebody signed in during a run.
TokensComeBack ==
  \A p \in Profiles :
    LET tokens == profile[p].tokens
    IN  /\ tokens.account \in {p, "file", "none"}
        /\ profile[p].status = "ready" => tokens # NoTokens
        /\ profile[p].status = "ready" /\ tokens.account = p /\ p \notin strayed
             => \/ tokens.issue = latest[p]
                \/ \E j \in Borrowers(p) : run[j].tokens.issue = latest[p]
=============================================================================
