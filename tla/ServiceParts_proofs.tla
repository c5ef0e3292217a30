------------------------- MODULE ServiceParts_proofs -------------------------
(***************************************************************************)
(* Proofs about the parts of the product that people and other services    *)
(* call: those that talk to GitHub, Stripe, OpenAI and Keycloak, the page of*)
(* a job, the import of the first version's snapshot, the catalog of roles *)
(* and agents, and who may do what in a workspace.  Each part has a        *)
(* specification of its own, an inductive invariant for every value of its *)
(* constants, and the property that the invariant implies.  What holds of  *)
(* all parts together is in ProductParts_proofs.                           *)
(***************************************************************************)
EXTENDS SourceLifecycle, Billing, InstallGateway, CodexAuth, PortalSession, JobConsole,
        LegacyImport, AiCatalog, WorkspaceAccess,
        TLAPS, SequenceTheorems, FiniteSetTheorems, WellFoundedInduction

-----------------------------------------------------------------------------
(* Sources and the installation of their workspace *)

\* One source, the installation, and any number of verifications.
SourceSpec == SourceInit /\ [][SourceNext]_sourceVars

\* A private source that is verified, although its installation is elsewhere or is about to
\* be removed from this workspace, is excused.
SourceInv ==
  /\ GithubType
  /\ check \in [Processes -> Checks]
  /\ creating \in BOOLEAN /\ jobs \in BOOLEAN /\ submitting \in BOOLEAN /\ deleting \in BOOLEAN
  /\ failures \in 0 .. MaxFailures
  /\ jobs => Exists
  /\ source.type = "github-private" /\ source.status = "verified" /\ Uncertain => excused

\* At first there is no source.
LEMMA InitSourceInv == SourceInit => SourceInv
<1> SUFFICES ASSUME SourceInit PROVE SourceInv
  OBVIOUS
<1>1. /\ source.status = "none" /\ source.type \in SourceTypes
      /\ source \in [type : SourceTypes, status : {"none", "pending", "verified", "failed"}]
  BY DEF SourceInit, GithubInit
<1>2. creating \in BOOLEAN /\ jobs \in BOOLEAN /\ submitting \in BOOLEAN /\ deleting \in BOOLEAN
  BY DEF SourceInit
<1>3. /\ excused \in BOOLEAN /\ link \in Workspaces \union {"none"}
      /\ removal \in [of : Workspaces, byRow : BOOLEAN] \union {NoRemoval}
  BY DEF SourceInit, GithubInit
<1>4. check \in [Processes -> Checks] /\ failures \in 0 .. MaxFailures
  BY SourceAssumption DEF SourceInit, Checks
<1>5. jobs => Exists
  BY DEF SourceInit
<1> QED BY <1>1, <1>2, <1>3, <1>4, <1>5 DEF SourceInv, GithubType

\* What an update of the status makes of the row.
LEMMA StatusUpdate ==
  ASSUME GithubType, NEW status \in {"none", "pending", "verified", "failed"}
  PROVE  /\ [source EXCEPT !.status = status] \in
              [type : SourceTypes, status : {"none", "pending", "verified", "failed"}]
         /\ [source EXCEPT !.status = status].type = source.type
         /\ [source EXCEPT !.status = status].status = status
BY DEF GithubType

\* Links and removals: a removal marks the source before it deletes the installation.
LEMMA GithubStepKeeps ==
  SourceInv /\ (GithubStep \/ AbandonRemoval) /\ UNCHANGED <<check, requestVars>>
    /\ failures' \in 0 .. MaxFailures => SourceInv'
<1> SUFFICES ASSUME SourceInv, GithubStep \/ AbandonRemoval, UNCHANGED <<check, requestVars>>,
                    failures' \in 0 .. MaxFailures
             PROVE  SourceInv'
  OBVIOUS
<1> USE DEF SourceInv, GithubType, requestVars, Exists, Uncertain, NoRemoval
<1>1. ASSUME NEW w \in Workspaces, Link(w) PROVE SourceInv'
  BY <1>1 DEF Link, Workspaces
<1>2. ASSUME NEW w \in Workspaces, NEW byRow \in BOOLEAN, MarkSources(w, byRow) PROVE SourceInv'
  BY <1>2 DEF MarkSources, Workspaces
<1>3. CASE DeleteInstallation
  BY <1>3 DEF DeleteInstallation, Workspaces
<1>4. CASE AbandonRemoval
  BY <1>4 DEF AbandonRemoval, Workspaces
<1> QED BY <1>1, <1>2, <1>3, <1>4 DEF GithubStep

\* Verifications: one that writes "verified" late says why it may.
LEMMA ChecksKeep ==
  ASSUME SourceInv, NEW p \in Processes,
         ListSources(p) \/ RequestCheck(p) \/ CheckStep(p) \/ Crash(p)
  PROVE  SourceInv'
<1> USE SourceAssumption DEF SourceInv, GithubType, githubVars, requestVars, Exists, SetStatus, Checks
<1>1. CASE StartCheck(p)
  BY <1>1, StatusUpdate DEF StartCheck, Uncertain
<1>2. CASE FindInstallation(p)
  BY <1>2 DEF FindInstallation, Uncertain
<1>3. CASE AskRemote(p)
  BY <1>3 DEF AskRemote, Uncertain
<1>4. CASE WriteResult(p)
  <2>1. GithubType'
    BY <1>4, StatusUpdate DEF WriteResult, Uncertain, Fails
  <2>2. /\ check' \in [Processes -> Checks] /\ failures' \in 0 .. MaxFailures
        /\ creating' \in BOOLEAN /\ jobs' \in BOOLEAN /\ submitting' \in BOOLEAN /\ deleting' \in BOOLEAN
    BY <1>4 DEF WriteResult, Uncertain, Fails
  <2>3. (jobs => Exists)'
    BY <1>4, StatusUpdate DEF WriteResult, Uncertain, Fails
  <2>4. (source.type = "github-private" /\ source.status = "verified" /\ Uncertain => excused)'
    <3>1. \/ excused' = Uncertain
          \/ source'.status = "failed"
          \/ UNCHANGED <<source, excused>>
      BY <1>4, StatusUpdate DEF WriteResult
    <3>2. Uncertain' <=> Uncertain
      BY <1>4 DEF WriteResult, Uncertain
    <3> HIDE DEF Uncertain
    <3> QED BY <3>1, <3>2
  <2> QED BY <2>1, <2>2, <2>3, <2>4
<1>5. CASE Crash(p)
  BY <1>5 DEF Crash, Fails, Uncertain
<1> QED BY <1>1, <1>2, <1>3, <1>4, <1>5 DEF ListSources, RequestCheck, CheckStep

\* Creation, deletion and submission of jobs.
LEMMA RequestsKeep == SourceInv /\ RequestStep => SourceInv'
<1> SUFFICES ASSUME SourceInv, RequestStep PROVE SourceInv'
  OBVIOUS
<1> USE DEF SourceInv, GithubType, githubVars, requestVars, Exists, Uncertain
<1>1. CASE FindForCreation \/ FindReady \/ CountJobs
  <2>1. /\ UNCHANGED <<githubVars, check, jobs, failures>>
        /\ creating' \in {creating, TRUE} /\ submitting' \in {submitting, TRUE} /\ deleting' \in {deleting, TRUE}
    BY <1>1 DEF FindForCreation, FindReady, CountJobs
  <2>2. creating' \in BOOLEAN /\ submitting' \in BOOLEAN /\ deleting' \in BOOLEAN
    BY <2>1
  <2> QED BY <2>1, <2>2
<1>2. CASE InsertPrivate
  <2>1. GithubType'
    BY <1>2, StatusUpdate DEF InsertPrivate
  <2>2. /\ check' \in [Processes -> Checks] /\ failures' \in 0 .. MaxFailures
        /\ creating' \in BOOLEAN /\ jobs' \in BOOLEAN /\ submitting' \in BOOLEAN /\ deleting' \in BOOLEAN
    BY <1>2 DEF InsertPrivate
  <2>3. (jobs => Exists)'
    BY <1>2, StatusUpdate DEF InsertPrivate
  <2>4. (source.type = "github-private" /\ source.status = "verified" /\ Uncertain => excused)'
    <3>1. excused' = Uncertain \/ UNCHANGED <<source, excused>>
      BY <1>2, Zenon DEF InsertPrivate
    <3>2. Uncertain' <=> Uncertain
      BY <1>2 DEF InsertPrivate
    <3> QED BY <3>1, <3>2 DEF SourceInv
  <2> QED BY <2>1, <2>2, <2>3, <2>4
<1>3. CASE InsertSource
  <2>1. GithubType'
    BY <1>3, StatusUpdate DEF InsertSource
  <2>2. /\ check' \in [Processes -> Checks] /\ failures' \in 0 .. MaxFailures
        /\ creating' \in BOOLEAN /\ jobs' \in BOOLEAN /\ submitting' \in BOOLEAN /\ deleting' \in BOOLEAN
    BY <1>3 DEF InsertSource
  <2>3. (jobs => Exists)'
    BY <1>3, StatusUpdate DEF InsertSource
  <2>4. (source.type = "github-private" /\ source.status = "verified" /\ Uncertain => excused)'
    BY <1>3, StatusUpdate DEF InsertSource
  <2> QED BY <2>1, <2>2, <2>3, <2>4
<1>4. CASE InsertJob
  BY <1>4 DEF InsertJob
<1>5. CASE DeleteSource
  <2>1. GithubType'
    BY <1>5, StatusUpdate DEF DeleteSource
  <2>2. /\ check' \in [Processes -> Checks] /\ failures' \in 0 .. MaxFailures
        /\ creating' \in BOOLEAN /\ jobs' \in BOOLEAN /\ submitting' \in BOOLEAN /\ deleting' \in BOOLEAN
    BY <1>5 DEF DeleteSource
  <2>3. (jobs => Exists)'
    BY <1>5, StatusUpdate DEF DeleteSource
  <2>4. (source.type = "github-private" /\ source.status = "verified" /\ Uncertain => excused)'
    BY <1>5, StatusUpdate DEF DeleteSource
  <2> QED BY <2>1, <2>2, <2>3, <2>4
<1> QED BY <1>1, <1>2, <1>3, <1>4, <1>5 DEF RequestStep

\* Every step of sources and installations keeps the invariant.
LEMMA NextSourceInv == SourceInv /\ [SourceNext]_sourceVars => SourceInv'
<1> SUFFICES ASSUME SourceInv, [SourceNext]_sourceVars PROVE SourceInv'
  OBVIOUS
<1>1. CASE GithubStep /\ UNCHANGED <<check, requestVars, failures>>
  BY <1>1, GithubStepKeeps DEF SourceInv
<1>2. CASE AbandonRemoval /\ Fails /\ UNCHANGED <<check, requestVars>>
  <2>1. failures' \in 0 .. MaxFailures
    BY <1>2, SourceAssumption DEF SourceInv, Fails
  <2> QED BY <1>2, <2>1, GithubStepKeeps
<1>3. CASE \E p \in Processes : ListSources(p) \/ RequestCheck(p) \/ CheckStep(p) \/ Crash(p)
  BY <1>3, ChecksKeep
<1>4. CASE RequestStep
  BY <1>4, RequestsKeep
<1>5. CASE UNCHANGED sourceVars
  BY <1>5 DEF SourceInv, GithubType, sourceVars, githubVars, Exists, Uncertain
<1> QED BY <1>1, <1>2, <1>3, <1>4, <1>5 DEF SourceNext

\* Sources keep their inductive invariant, for every set of processes and bound on failures.
THEOREM SourceInvariant == SourceSpec => []SourceInv
BY InitSourceInv, NextSourceInv, PTL DEF SourceSpec

\* A source with jobs has its row, whatever verifications and removals did meanwhile.
THEOREM SourceTypesHold == SourceSpec => []SourceType
<1>1. SourceInv => SourceType
  BY DEF SourceInv, SourceType
<1> QED BY <1>1, SourceInvariant, PTL

\* UnlinkedSourceNeedsRepair: removeGithubInstallation marks the private sources before the
\* installation goes, so that one stays verified only where a verification overlapped the
\* removal, or where a link took the installation to another workspace.
THEOREM RemovalsMarkSources == SourceSpec => []UnlinkedSourceNeedsRepair
<1>1. SourceInv => UnlinkedSourceNeedsRepair
  BY DEF SourceInv, UnlinkedSourceNeedsRepair, Uncertain
<1> QED BY <1>1, SourceInvariant, PTL

-----------------------------------------------------------------------------
(* Billing *)

\* One user, its events and the requests that handle them.
BillingSpec == BillingInit /\ [][BillingNext]_billingVars

\* An event's entitlement is written by the one request that has recorded the event.
BillingInv ==
  /\ BillingType
  /\ \A e \in Events : applied[e] <= 1 /\ (applied[e] > 0 => e \in recorded)
  /\ \A h \in Handlers : handler[h].at = "recorded" =>
       /\ handler[h].event \in recorded
       /\ applied[handler[h].event] = 0
  /\ \A h, g \in Handlers :
       /\ handler[h].at = "recorded" /\ handler[g].at = "recorded"
       /\ handler[h].event = handler[g].event
       => h = g

\* What a handler is at, and its event.
LEMMA HandlerTypes ==
  ASSUME BillingType, NEW h \in Handlers
  PROVE  \/ handler[h] = Idle /\ handler[h].at = "idle"
         \/ /\ handler[h] # Idle
            /\ handler[h].at \in {"found", "updated", "recorded"} /\ handler[h].event \in Events
            /\ handler[h] = At(handler[h].at, handler[h].event)
<1>1. CASE handler[h] = Idle
  BY <1>1 DEF Idle
<1>2. CASE handler[h] # Idle
  <2>1. handler[h] \in [at : {"found", "updated", "recorded"}, event : Events]
    BY <1>2 DEF BillingType
  <2> QED BY <1>2, <2>1 DEF At
<1> QED BY <1>1, <1>2

\* A handler's event stays when its place changes.
LEMMA HandlerGoes ==
  ASSUME BillingType, NEW h \in Handlers, handler[h] # Idle, NEW at
  PROVE  [handler EXCEPT ![h].at = at] = [handler EXCEPT ![h] = At(at, handler[h].event)]
<1>1. handler[h] \in [at : {"found", "updated", "recorded"}, event : Events]
  BY DEF BillingType
<1>2. [handler[h] EXCEPT !.at = at] = At(at, handler[h].event)
  BY <1>1 DEF At
<1> QED BY <1>2

\* At first no event is recorded and nobody handles one.
LEMMA InitBillingInv == BillingInit => BillingInv
BY DEF BillingInit, BillingInv, BillingType, Idle, Entitlements

\* A request records an event only where nobody has, and writes an entitlement only once
\* it has recorded the event: its own step is the only one after that record.
LEMMA WebhookStepKeeps ==
  ASSUME BillingInv, NEW h \in Handlers, WebhookStep(h)
  PROVE  BillingInv'
<1> USE DEF BillingInv, workspaceVars
<1>h. \A g \in Handlers :
         \/ handler[g] = Idle /\ handler[g].at = "idle"
         \/ /\ handler[g] # Idle
            /\ handler[g].at \in {"found", "updated", "recorded"} /\ handler[g].event \in Events
            /\ handler[g] = At(handler[g].at, handler[g].event)
  BY HandlerTypes
<1>1. ASSUME NEW e \in Events, ReceiveEvent(h, e) PROVE BillingInv'
  <2>1. handler' \in [Handlers -> [at : {"found", "updated", "recorded"}, event : Events] \union {Idle}]
    BY <1>1 DEF ReceiveEvent, BillingType, At
  <2>2. \A g \in Handlers : handler'[g].at = "recorded" => handler'[g] = handler[g]
    BY <1>1, <1>h DEF ReceiveEvent, BillingType, At
  <2>3. BillingType'
    BY <1>1, <2>1 DEF ReceiveEvent, BillingType
  <2> QED BY <1>1, <2>2, <2>3 DEF ReceiveEvent
<1>2. ASSUME InsertEvent(h), handler[h].at \in {"found", "updated"},
             subscription' \in [Subs -> {"none", "active", "lapsed", "cancelled"}],
             session' \in {"none", "open", "completed"},
             UNCHANGED <<entitlement, workspaceVars, applied, acknowledged>>
      PROVE  BillingInv'
  <2> DEFINE e == handler[h].event
  <2>1. /\ handler[h] = At(handler[h].at, e) /\ e \in Events /\ e \notin recorded
        /\ recorded' = recorded \union {e}
        /\ handler' = [handler EXCEPT ![h] = At("recorded", e)]
    BY <1>2, <1>h, HandlerGoes DEF InsertEvent
  <2>2. BillingType'
    BY <1>2, <2>1 DEF BillingType, At
  <2>3. applied[e] = 0
    BY <2>1 DEF BillingType
  <2>4. \A g \in Handlers : handler'[g] = IF g = h THEN At("recorded", e) ELSE handler[g]
    BY <2>1 DEF BillingType
  <2> QED BY <1>2, <2>1, <2>2, <2>3, <2>4 DEF At
<1>3. CASE CompleteCheckout(h)
  <2>1. /\ subscription' \in [Subs -> {"none", "active", "lapsed", "cancelled"}]
        /\ session' \in {"none", "open", "completed"}
    BY <1>3, BillingAssumption DEF CompleteCheckout, BillingType
  <2> QED BY <1>2, <1>3, <2>1 DEF CompleteCheckout
<1>4. CASE RecordEvent(h)
  BY <1>2, <1>4 DEF RecordEvent, BillingType
<1>5. CASE UpdateSubscriptions(h)
  <2> DEFINE e == handler[h].event
  <2>1. /\ handler[h] = At("found", e) /\ e \in Events
        /\ handler' = [handler EXCEPT ![h] = At("updated", e)]
    BY <1>5, <1>h, HandlerGoes DEF UpdateSubscriptions
  <2>2. subscription' \in [Subs -> {"none", "active", "lapsed", "cancelled"}]
    BY <1>5, <2>1, BillingAssumption DEF UpdateSubscriptions, BillingType
  <2>3. BillingType'
    BY <1>5, <2>1, <2>2 DEF UpdateSubscriptions, BillingType, At
  <2>4. \A g \in Handlers : handler'[g] = IF g = h THEN At("updated", e) ELSE handler[g]
    BY <2>1 DEF BillingType
  <2> QED BY <1>5, <2>3, <2>4 DEF UpdateSubscriptions, At
<1>6. CASE SetEntitlement(h)
  <2> DEFINE e == handler[h].event
  <2>1. e \in Events /\ e \in recorded /\ applied[e] = 0
    BY <1>6, <1>h DEF SetEntitlement
  <2>2. /\ applied' = [applied EXCEPT ![e] = 1]
        /\ handler' = [handler EXCEPT ![h] = Idle]
        /\ acknowledged' = acknowledged \union {e}
        /\ entitlement' \in Entitlements /\ workspace' \in Entitlements \union {"none"}
        /\ UNCHANGED <<subscription, session, recorded, ownerRead>>
    BY <1>6, <2>1 DEF SetEntitlement, BillingType, Entitlements
  <2>3. BillingType'
    BY <2>1, <2>2 DEF BillingType
  <2>4. \A g \in Handlers : handler'[g] = IF g = h THEN Idle ELSE handler[g]
    BY <2>2 DEF BillingType
  <2>5. \A g \in Handlers : handler'[g].at = "recorded" => g # h /\ handler'[g] = handler[g]
    BY <2>4 DEF Idle
  <2>6. \A d \in Events : applied'[d] = IF d = e THEN 1 ELSE applied[d]
    BY <2>2 DEF BillingType
  <2>7. \A g \in Handlers : handler'[g].at = "recorded" => handler'[g].event # e
    BY <1>6, <2>5 DEF SetEntitlement
  <2> QED BY <2>1, <2>2, <2>3, <2>5, <2>6, <2>7, <1>h
<1>7. CASE RequestFails(h)
  <2>1. \A g \in Handlers : handler'[g].at = "recorded" => handler'[g] = handler[g]
    BY <1>7 DEF RequestFails, BillingType, Idle
  <2>2. BillingType'
    BY <1>7 DEF RequestFails, BillingType
  <2> QED BY <1>7, <2>1, <2>2 DEF RequestFails
<1> QED BY <1>1, <1>3, <1>4, <1>5, <1>6, <1>7 DEF WebhookStep

\* Checkouts and new workspaces touch neither events nor handlers.
LEMMA NextBillingInv == BillingInv /\ [BillingNext]_billingVars => BillingInv'
<1> SUFFICES ASSUME BillingInv, [BillingNext]_billingVars PROVE BillingInv'
  OBVIOUS
<1>1. ASSUME NEW h \in Handlers, WebhookStep(h) PROVE BillingInv'
  BY <1>1, WebhookStepKeeps
<1>2. CASE OpenCheckout \/ ReadOwner \/ AddWorkspace \/ UNCHANGED billingVars
  BY <1>2 DEF OpenCheckout, ReadOwner, AddWorkspace, billingVars, workspaceVars, BillingInv, BillingType
<1> QED BY <1>1, <1>2 DEF BillingNext

\* Billing keeps its inductive invariant, for every set of events and of requests.
THEOREM BillingInvariant == BillingSpec => []BillingInv
BY InitBillingInv, NextBillingInv, PTL DEF BillingSpec

\* EventAppliesOnce: the unique id of stripeEvent.create lets one attempt at an event go on
\* to updateOwnedWorkspaceEntitlement, however many requests handle it at once, and in
\* whichever order they fail and come again.
THEOREM EventsApplyOnce == BillingSpec => []EventAppliesOnce
<1>1. BillingInv => EventAppliesOnce
  BY DEF BillingInv, EventAppliesOnce
<1> QED BY <1>1, BillingInvariant, PTL

-----------------------------------------------------------------------------
(* The gateway *)

\* The two environments, GitHub and the link route.
GatewaySpec == GatewayInit /\ [][GatewayNext]_gatewayVars

\* Rows of GithubInstallIntent.
Intents ==
  [env : Environments, who : Owners, browser : {"github", "gateway", "app", "refused"},
   row : {"open", "expired", "consumed"}]
\* Calls of the link route.
LinkCalls == [at : {"consume", "update", "upsert"}, of : Nat]

\* A consumed intent is what the link of a database rests on.
LinkedThroughIntent ==
  \A e \in Environments :
    linked[e] # "none" =>
      \E i \in DOMAIN intents : /\ Db(intents[i].env) = e /\ intents[i].row = "consumed"
                                /\ intents[i].who = linked[e]

\* A database that keeps a deleted installation was missed, may have been written late, or
\* still has its webhook under way; and whatever call may still write it is a late one.
DeletedGoes ==
  /\ \A e \in Environments :
       linked[e] # "none" => \/ e \in missed \union late \/ "hosted" \in hooks
                             \/ e = "local" /\ "local" \in hooks
  /\ \A c \in Callbacks : linking[c] # NotLinking => Db(intents[linking[c].of].env) \in late

\* The rows and calls have their types, a call that is about to write has consumed its
\* intent, and what DeletedGoes says holds once GitHub has deleted the installation.
GatewayInv ==
  /\ shares \in {"nothing", "database", "both"}
  /\ grant \in {"none", "installed", "deleted"} /\ target \in {"none", "active", "old"}
  /\ intents \in Seq(Intents)
  /\ linked \in [Environments -> Owners \union {"none"}]
  /\ linking \in [Callbacks -> LinkCalls \union {NotLinking}]
  /\ hooks \subseteq Environments /\ missed \subseteq Environments /\ late \subseteq Environments
  /\ \A c \in Callbacks : linking[c] # NotLinking =>
       /\ linking[c].of \in DOMAIN intents
       /\ linking[c].at = "upsert" => intents[linking[c].of].row = "consumed"
  /\ LinkedThroughIntent
  /\ grant = "deleted" => DeletedGoes

\* At first there is no intent and no link.
LEMMA InitGatewayInv == GatewayInit => GatewayInv
<1> SUFFICES ASSUME GatewayInit PROVE GatewayInv
  OBVIOUS
<1>1. intents \in Seq(Intents)
  BY DEF GatewayInit
<1> QED BY <1>1 DEF GatewayInit, GatewayInv, LinkedThroughIntent, NotLinking, Environments

\* A database is one of an environment.
LEMMA DbTypes == \A e \in Environments : Db(e) \in Environments
BY DEF Db, Environments

\* Writing an intent's row anew.
LEMMA IntentUpdate ==
  ASSUME intents \in Seq(Intents), NEW i \in DOMAIN intents, NEW x \in Intents
  PROVE  /\ [intents EXCEPT ![i] = x] \in Seq(Intents)
         /\ DOMAIN [intents EXCEPT ![i] = x] = DOMAIN intents
         /\ \A j \in DOMAIN intents : [intents EXCEPT ![i] = x][j] = IF j = i THEN x ELSE intents[j]
<1>1. DOMAIN intents = 1 .. Len(intents)
  BY LenProperties
<1>2. [intents EXCEPT ![i] = x] \in Seq(Intents)
  BY <1>1, ExceptSeq
<1> QED BY <1>2

\* Rows of intents keep their environment and person, and stay consumed; calls go on or end.
LEMMA CallsAndIntentsKeep ==
  ASSUME GatewayInv,
         intents' \in Seq(Intents), DOMAIN intents \subseteq DOMAIN intents',
         \A i \in DOMAIN intents :
           /\ intents'[i].env = intents[i].env /\ intents'[i].who = intents[i].who
           /\ intents[i].row = "consumed" => intents'[i].row = "consumed",
         linking' \in [Callbacks -> LinkCalls \union {NotLinking}],
         \A c \in Callbacks : linking'[c] # NotLinking =>
           /\ linking[c] # NotLinking /\ linking'[c].of = linking[c].of
           /\ linking'[c].at = "upsert" =>
                linking[c].at = "upsert" \/ intents'[linking[c].of].row = "consumed",
         grant' \in {grant, "installed"}, UNCHANGED <<shares, linked, target, hooks, missed, late>>
  PROVE  GatewayInv'
<1>1. \A e : Db(e)' = Db(e)
  BY DEF Db
<1>2. LinkedThroughIntent'
  <2> SUFFICES ASSUME NEW e \in Environments, linked[e] # "none"
               PROVE  \E i \in DOMAIN intents' :
                        /\ Db(intents'[i].env) = e /\ intents'[i].row = "consumed"
                        /\ intents'[i].who = linked[e]
    BY DEF LinkedThroughIntent, Db
  <2>1. PICK i \in DOMAIN intents : /\ Db(intents[i].env) = e /\ intents[i].row = "consumed"
                                    /\ intents[i].who = linked[e]
    BY DEF GatewayInv, LinkedThroughIntent
  <2> QED BY <1>1, <2>1
<1>3. \A c \in Callbacks : linking'[c] # NotLinking =>
        /\ linking'[c].of \in DOMAIN intents /\ linking'[c].of = linking[c].of
        /\ linking'[c].at = "upsert" => intents'[linking'[c].of].row = "consumed"
  BY DEF GatewayInv
<1>4. (grant = "deleted" => DeletedGoes)'
  BY <1>1, <1>3 DEF GatewayInv, DeletedGoes
<1> QED BY <1>2, <1>3, <1>4 DEF GatewayInv, NotLinking

\* Beginning, expiring, returning from GitHub, redirecting and consuming change intents
\* only where no link rests on them.
LEMMA IntentStepsKeep ==
  ASSUME GatewayInv,
         \/ \E e \in Environments, who \in Owners : BeginInstall(e, who)
         \/ \E i \in DOMAIN intents : ExpireIntent(i) \/ ReturnFromGithub(i) \/ RedirectToApp(i)
         \/ \E c \in Callbacks : ReadIntent(c) \/ ConsumeIntent(c) \/ LoseLink(c)
  PROVE  GatewayInv'
<1> USE DEF historyVars
<1>0. intents \in Seq(Intents) /\ linking \in [Callbacks -> LinkCalls \union {NotLinking}]
  BY DEF GatewayInv
<1>1. ASSUME NEW e \in Environments, NEW who \in Owners, BeginInstall(e, who) PROVE GatewayInv'
  <2> DEFINE x == [env |-> e, who |-> who, browser |-> "github", row |-> "open"]
  <2>1. x \in Intents
    BY DEF Intents
  <2>2. /\ intents' \in Seq(Intents) /\ DOMAIN intents \subseteq DOMAIN intents'
        /\ \A i \in DOMAIN intents : intents'[i] = intents[i]
    BY <1>0, <1>1, <2>1, AppendProperties, LenProperties DEF BeginInstall
  <2> QED BY <1>0, <1>1, <2>2, CallsAndIntentsKeep DEF BeginInstall
<1>2. ASSUME NEW i \in DOMAIN intents, ExpireIntent(i) \/ ReturnFromGithub(i) \/ RedirectToApp(i)
      PROVE  GatewayInv'
  <2>0. intents[i] \in Intents
    BY <1>0, ElementOfSeq, LenProperties
  <2>1. \E x \in Intents : /\ intents' = [intents EXCEPT ![i] = x]
                           /\ x.env = intents[i].env /\ x.who = intents[i].who
                           /\ intents[i].row = "consumed" => x.row = "consumed"
    <3>1. CASE ExpireIntent(i)
      <4>1. /\ [intents[i] EXCEPT !.row = "expired"] \in Intents
            /\ [intents[i] EXCEPT !.row = "expired"].env = intents[i].env
            /\ [intents[i] EXCEPT !.row = "expired"].who = intents[i].who
        BY <2>0 DEF Intents
      <4> QED BY <3>1, <4>1 DEF ExpireIntent
    <3> DEFINE at(b) == [intents[i] EXCEPT !.browser = b]
    <3>2. \A b \in {"gateway", "app", "refused"} :
            /\ at(b) \in Intents /\ at(b).env = intents[i].env /\ at(b).who = intents[i].who
            /\ at(b).row = intents[i].row
      BY <2>0 DEF Intents
    <3>3. CASE ReturnFromGithub(i)
      <4>1. intents' = [intents EXCEPT ![i] = at("gateway")]
        BY <3>3 DEF ReturnFromGithub
      <4> HIDE DEF at
      <4> QED BY <3>2, <4>1
    <3>4. CASE RedirectToApp(i)
      <4>1. \/ intents' = [intents EXCEPT ![i] = at("app")]
            \/ intents' = [intents EXCEPT ![i] = at("refused")]
        BY <3>4 DEF RedirectToApp
      <4> HIDE DEF at
      <4> QED BY <3>2, <4>1
    <3> QED BY <1>2, <3>1, <3>3, <3>4
  <2>2. PICK x \in Intents : /\ intents' = [intents EXCEPT ![i] = x]
                             /\ x.env = intents[i].env /\ x.who = intents[i].who
                             /\ intents[i].row = "consumed" => x.row = "consumed"
    BY <2>1
  <2>3. /\ grant' \in {grant, "installed"}
        /\ UNCHANGED <<shares, linked, linking, target, hooks, missed, late>>
    BY <1>2 DEF ExpireIntent, ReturnFromGithub, RedirectToApp
  <2> QED BY <1>0, <2>2, <2>3, IntentUpdate, CallsAndIntentsKeep
<1>3. ASSUME NEW c \in Callbacks, ReadIntent(c) \/ LoseLink(c) PROVE GatewayInv'
  <2>1. linking[c] \in LinkCalls /\ linking[c] # NotLinking
    BY <1>0, <1>3 DEF ReadIntent, LoseLink, NotLinking
  <2>2. \/ linking' = [linking EXCEPT ![c] = NotLinking]
        \/ linking' = [linking EXCEPT ![c] = [linking[c] EXCEPT !.at = "update"]]
    BY <1>3 DEF ReadIntent, LoseLink, LinkGoes
  <2>3. /\ [linking[c] EXCEPT !.at = "update"] \in LinkCalls
        /\ [linking[c] EXCEPT !.at = "update"].of = linking[c].of
        /\ [linking[c] EXCEPT !.at = "update"].at = "update"
    BY <2>1 DEF LinkCalls
  <2>4. UNCHANGED <<shares, intents, grant, linked, target, hooks, missed, late>>
    BY <1>3 DEF ReadIntent, LoseLink
  <2> QED BY <1>0, <2>1, <2>2, <2>3, <2>4, CallsAndIntentsKeep
<1>4. ASSUME NEW c \in Callbacks, ConsumeIntent(c) PROVE GatewayInv'
  <2> DEFINE i == linking[c].of
             x == [intents[i] EXCEPT !.row = "consumed"]
  <2>1. linking[c] \in LinkCalls /\ linking[c] # NotLinking /\ i \in DOMAIN intents
    BY <1>0, <1>4 DEF ConsumeIntent, NotLinking, GatewayInv
  <2>2. intents[i] \in Intents
    BY <1>0, <2>1, ElementOfSeq, LenProperties
  <2>3. x \in Intents /\ x.env = intents[i].env /\ x.who = intents[i].who /\ x.row = "consumed"
    BY <2>2 DEF Intents
  <2>4. intents' = [intents EXCEPT ![i] = x]
    BY <1>4 DEF ConsumeIntent
  <2>5. linking' = [linking EXCEPT ![c] = [linking[c] EXCEPT !.at = "upsert"]]
    BY <1>4 DEF ConsumeIntent, LinkGoes
  <2>6. /\ [linking[c] EXCEPT !.at = "upsert"] \in LinkCalls
        /\ [linking[c] EXCEPT !.at = "upsert"].of = i
    BY <2>1 DEF LinkCalls
  <2>7. UNCHANGED <<shares, grant, linked, target, hooks, missed, late>>
    BY <1>4 DEF ConsumeIntent
  <2> HIDE DEF x
  <2>8. /\ intents' \in Seq(Intents) /\ DOMAIN intents' = DOMAIN intents
        /\ \A j \in DOMAIN intents : intents'[j] = IF j = i THEN x ELSE intents[j]
    BY <1>0, <2>1, <2>3, <2>4, IntentUpdate
  <2> QED BY <1>0, <2>1, <2>3, <2>5, <2>6, <2>7, <2>8, CallsAndIntentsKeep
<1> QED BY <1>1, <1>2, <1>3, <1>4

\* Link calls that begin or write, and what removes links.
LEMMA LinkStepsKeep ==
  ASSUME GatewayInv,
         \/ \E c \in Callbacks, i \in DOMAIN intents, who \in Owners : BeginLink(c, i, who)
         \/ \E c \in Callbacks : UpsertInstallation(c)
         \/ \E e \in Environments : Unlink(e)
         \/ DeleteGrant
  PROVE  GatewayInv'
<1> USE DEF GatewayInv, historyVars
<1>0. \A i \in DOMAIN intents : intents[i] \in Intents /\ i \in Nat
  BY ElementOfSeq, LenProperties
<1>1. ASSUME NEW c \in Callbacks, NEW i \in DOMAIN intents, NEW who \in Owners, BeginLink(c, i, who)
      PROVE  GatewayInv'
  <2>1. /\ linking' = [linking EXCEPT ![c] = [at |-> "consume", of |-> i]]
        /\ [at |-> "consume", of |-> i] \in LinkCalls /\ grant = "installed"
        /\ UNCHANGED <<shares, intents, grant, linked, target, hooks, missed, late>>
    BY <1>0, <1>1 DEF BeginLink, LinkCalls, InstallationExists
  <2>2. LinkedThroughIntent'
    BY <2>1 DEF LinkedThroughIntent, Db
  <2> QED BY <2>1, <2>2
<1>2. ASSUME NEW c \in Callbacks, UpsertInstallation(c) PROVE GatewayInv'
  <2> DEFINE i == linking[c].of
             d == Db(intents[i].env)
  <2>1. /\ linking[c] # NotLinking /\ i \in DOMAIN intents /\ intents[i].row = "consumed"
        /\ intents[i] \in Intents /\ d \in Environments
    BY <1>0, <1>2, DbTypes DEF UpsertInstallation, NotLinking, Intents
  <2>2. /\ linked' = [linked EXCEPT ![d] = intents[i].who]
        /\ linking' = [linking EXCEPT ![c] = NotLinking]
        /\ UNCHANGED <<shares, intents, grant, target, hooks, missed, late>>
    BY <1>2 DEF UpsertInstallation
  <2>3. \A e : Db(e)' = Db(e)
    BY <2>2 DEF Db
  <2>4. linked' \in [Environments -> Owners \union {"none"}]
    BY <2>1, <2>2 DEF Intents
  <2>5. LinkedThroughIntent'
    <3> SUFFICES ASSUME NEW e \in Environments, linked'[e] # "none"
                 PROVE  \E k \in DOMAIN intents : /\ Db(intents[k].env) = e /\ intents[k].row = "consumed"
                                                  /\ intents[k].who = linked'[e]
      BY <2>2, <2>3 DEF LinkedThroughIntent
    <3>1. CASE e = d
      BY <2>1, <2>2, <3>1
    <3>2. CASE e # d
      BY <2>2, <3>2 DEF LinkedThroughIntent
    <3> QED BY <3>1, <3>2
  <2>6. (grant = "deleted" => DeletedGoes)'
    <3> SUFFICES ASSUME grant = "deleted" PROVE DeletedGoes'
      BY <2>2
    <3>1. d \in late
      BY <2>1 DEF DeletedGoes
    <3> QED BY <2>1, <2>2, <2>3, <3>1 DEF DeletedGoes
  <2> QED BY <2>2, <2>4, <2>5, <2>6
<1>3. ASSUME NEW e \in Environments, Unlink(e) PROVE GatewayInv'
  <2>1. /\ linked' = [linked EXCEPT ![e] = "none"]
        /\ UNCHANGED <<shares, intents, grant, linking, target, hooks, missed, late>>
        /\ \A d : Db(d)' = Db(d)
    BY <1>3 DEF Unlink, Db
  <2>2. LinkedThroughIntent'
    BY <2>1 DEF LinkedThroughIntent
  <2>3. (grant = "deleted" => DeletedGoes)'
    BY <2>1 DEF DeletedGoes
  <2> QED BY <2>1, <2>2, <2>3
<1>4. CASE DeleteGrant
  <2>1. /\ grant' = "deleted" /\ hooks' = {"hosted"}
        /\ late' = {Db(intents[linking[c].of].env) : c \in {d \in Callbacks : linking[d] # NotLinking}}
        /\ UNCHANGED <<shares, intents, linked, linking, target, missed>>
        /\ \A d : Db(d)' = Db(d)
    BY <1>4 DEF DeleteGrant, Db
  <2>2. late' \subseteq Environments
    BY <1>0, <2>1, DbTypes DEF Intents
  <2>3. LinkedThroughIntent'
    BY <2>1 DEF LinkedThroughIntent
  <2>4. DeletedGoes'
    BY <2>1 DEF DeletedGoes
  <2> QED BY <2>1, <2>2, <2>3, <2>4 DEF Environments
<1> QED BY <1>1, <1>2, <1>3, <1>4

\* A webhook that GitHub sends, the gateway forwards or somebody loses.
LEMMA WebhookStepsKeep ==
  ASSUME GatewayInv,
         \/ RegisterTarget \/ AgeTarget \/ ReceiveAtGateway \/ ReceiveAtLocal
         \/ \E e \in Environments : LoseWebhook(e)
  PROVE  GatewayInv'
<1> USE DEF GatewayInv, historyVars
<1>0. UNCHANGED <<shares, intents, grant, linking, late>> /\ \A d : Db(d)' = Db(d)
  BY DEF RegisterTarget, AgeTarget, ReceiveAtGateway, ReceiveAtLocal, LoseWebhook, Db
<1>1. \A e \in Environments : linked[e] # "none" => Db(e) = e
  BY ElementOfSeq, LenProperties DEF LinkedThroughIntent, Db, Intents, Environments
<1>2. /\ target' \in {"none", "active", "old"} /\ hooks' \subseteq Environments
      /\ missed \subseteq missed' /\ missed' \subseteq Environments
      /\ linked' \in [Environments -> Owners \union {"none"}]
      /\ \A e \in Environments : linked'[e] \in {linked[e], "none"}
  BY DEF RegisterTarget, AgeTarget, ReceiveAtGateway, ReceiveAtLocal, LoseWebhook, Db, DbsOf,
     ActiveTargets, Environments
<1>3. LinkedThroughIntent'
  BY <1>0, <1>2 DEF LinkedThroughIntent
<1>4. ASSUME NEW e \in Environments, linked'[e] # "none", grant = "deleted"
      PROVE  \/ e \in missed' \union late \/ "hosted" \in hooks'
             \/ e = "local" /\ "local" \in hooks'
  <2>1. /\ linked[e] # "none" /\ Db(e) = e /\ linked[e] = linked'[e]
        /\ \/ e \in missed \union late \/ "hosted" \in hooks
           \/ e = "local" /\ "local" \in hooks
    BY <1>1, <1>2, <1>4 DEF DeletedGoes
  <2>2. CASE e \in missed \union late
    BY <1>2, <2>2
  <2>3. CASE RegisterTarget \/ AgeTarget
    BY <2>1, <2>3 DEF RegisterTarget, AgeTarget
  <2>4. CASE ReceiveAtGateway
    BY <1>4, <2>1, <2>2, <2>4 DEF ReceiveAtGateway, ActiveTargets, DbsOf, Environments
  <2>5. CASE ReceiveAtLocal
    BY <1>4, <2>1, <2>2, <2>5 DEF ReceiveAtLocal, Environments
  <2>6. ASSUME NEW d \in Environments, LoseWebhook(d)
        PROVE  \/ e \in missed' \union late \/ "hosted" \in hooks'
               \/ e = "local" /\ "local" \in hooks'
    BY <2>1, <2>2, <2>6 DEF LoseWebhook, DbsOf, Environments
  <2> QED BY <2>3, <2>4, <2>5, <2>6
<1>5. (grant = "deleted" => DeletedGoes)'
  BY <1>0, <1>4 DEF DeletedGoes
<1> QED BY <1>0, <1>2, <1>3, <1>5

\* Every step of the gateway keeps the invariant.
LEMMA NextGatewayInv == GatewayInv /\ [GatewayNext]_gatewayVars => GatewayInv'
<1> SUFFICES ASSUME GatewayInv, [GatewayNext]_gatewayVars PROVE GatewayInv'
  OBVIOUS
<1>1. CASE UNCHANGED gatewayVars
  BY <1>1 DEF gatewayVars, GatewayInv, LinkedThroughIntent, DeletedGoes, Db
<1> QED BY <1>1, IntentStepsKeep, LinkStepsKeep, WebhookStepsKeep DEF GatewayNext

\* The gateway keeps its inductive invariant, for every set of owners and of link calls, and
\* every number of intents.
THEOREM GatewayInvariant == GatewaySpec => []GatewayInv
BY InitGatewayInv, NextGatewayInv, PTL DEF GatewaySpec

\* InstallationIsAccountedFor: every link rests on a consumed intent of its owner, and a
\* database that keeps an installation GitHub has deleted was missed by the webhook or
\* written by a link call that had asked GitHub before.
THEOREM InstallationsAreAccountedFor == GatewaySpec => []InstallationIsAccountedFor
<1>1. GatewayInv => InstallationIsAccountedFor
  BY DEF GatewayInv, InstallationIsAccountedFor, LinkedThroughIntent, DeletedGoes
<1> QED BY <1>1, GatewayInvariant, PTL

\* GatewayType: what the inductive invariant leaves out of it is inductive beside it.
THEOREM GatewayTypes == GatewaySpec => []GatewayType
<1>1. ASSUME GatewayInv PROVE GatewayType
  <2>1. \A i \in DOMAIN intents : intents[i] \in Intents
    BY <1>1, ElementOfSeq, LenProperties DEF GatewayInv
  <2>2. \A i \in DOMAIN intents :
          /\ intents[i].env \in Environments /\ intents[i].who \in Owners
          /\ intents[i].browser \in {"github", "gateway", "app", "refused"}
          /\ intents[i].row \in {"open", "expired", "consumed"}
    BY <2>1 DEF Intents
  <2>3. \A c \in Callbacks : linking[c].at \in {"none", "consume", "update", "upsert"}
    BY <1>1 DEF GatewayInv, LinkCalls, NotLinking
  <2> QED BY <1>1, <2>2, <2>3 DEF GatewayInv, GatewayType
<1> QED BY <1>1, GatewayInvariant, PTL

-----------------------------------------------------------------------------
(* The tokens of Codex *)

\* Profiles, the two jobs that borrow their tokens, and the provider.
AuthSpec == AuthInit /\ [][AuthNext]_authVars

\* What a row or a file may have as its tokens.
StoredTokens == Tokens \union {NoTokens}
\* AiAuth rows.
ProfileRows ==
  [status : {"missing", "unauthenticated", "pending", "ready", "error"},
   tokens : StoredTokens, disabled : BOOLEAN]
\* Jobs, as far as they hold tokens.
AuthRuns ==
  [at : {"new", "bound", "running", "ended"}, binding : Profiles \union {"none"},
   tokens : StoredTokens, renewed : BOOLEAN]

\* A profile has tokens of its own account or the file's, and some if it is ready.
HasItsTokens(p) ==
  /\ profile[p].tokens.account \in {p, "file", "none"}
  /\ profile[p].status = "ready" => profile[p].tokens # NoTokens

\* An account's latest tokens, unless they have strayed: the profile has them or the one
\* job that has renewed them, and no two jobs have tokens of the account.
LatestIsKept(p) ==
  p \notin strayed =>
    /\ profile[p].status = "ready" /\ profile[p].tokens.account = p =>
         \/ profile[p].tokens.issue = latest[p]
         \/ \E j \in Borrowers(p) : run[j].renewed
    /\ \A j, k \in Borrowers(p) : j = k
    /\ \A j \in Borrowers(p) : run[j].tokens.issue = latest[p]

\* A job has tokens of the profile it is bound to.
HasProfilesTokens(j) ==
  run[j].at = "running" /\ run[j].tokens # NoTokens =>
    run[j].tokens.account \in {Bound(j), "file"}

\* What the routes and the workers have written, without their own steps.
AuthRows ==
  /\ profile \in [Profiles -> ProfileRows]
  /\ run \in [Jobs -> AuthRuns]
  /\ latest \in [Accounts -> 0 .. MaxIssues]
  /\ strayed \subseteq Accounts \union {"none"}
  /\ \A p \in Profiles : HasItsTokens(p) /\ LatestIsKept(p)
  /\ \A j \in Jobs : HasProfilesTokens(j)

\* With the routes' own steps.  A job without tokens may stray those of nobody.
AuthInv ==
  /\ AuthRows
  /\ verifying \subseteq Profiles /\ disabling \in {"no", "found", "missing"}
  /\ requests \in 0 .. MaxRequests

\* At first no profile has tokens and no job has begun.
LEMMA InitAuthInv == AuthInit => AuthInv
<1> SUFFICES ASSUME AuthInit PROVE AuthInv
  OBVIOUS
<1>1. NoTokens \in StoredTokens /\ NoTokens.account = "none"
  BY DEF StoredTokens, NoTokens
<1>2. /\ profile \in [Profiles -> ProfileRows]
      /\ \A p \in Profiles : profile[p].tokens = NoTokens /\ profile[p].status = "missing"
  BY <1>1 DEF AuthInit, ProfileRows
<1>3. run \in [Jobs -> AuthRuns] /\ \A j \in Jobs : run[j].at = "new"
  BY <1>1 DEF AuthInit, AuthRuns, NoRun
<1>4. \A p : Borrowers(p) = {}
  BY <1>3 DEF Borrowers
<1>5. \A p \in Profiles : HasItsTokens(p) /\ LatestIsKept(p)
  BY <1>1, <1>2, <1>4 DEF HasItsTokens, LatestIsKept
<1>6. \A j \in Jobs : HasProfilesTokens(j)
  BY <1>3 DEF HasProfilesTokens
<1>7. latest \in [Accounts -> 0 .. MaxIssues] /\ strayed \subseteq Accounts \union {"none"}
  BY CodexAssumption DEF AuthInit
<1>8. AuthRows
  BY <1>2, <1>3, <1>5, <1>6, <1>7 DEF AuthRows
<1>9. verifying \subseteq Profiles /\ disabling \in {"no", "found", "missing"}
  BY DEF AuthInit
<1>10. requests \in 0 .. MaxRequests
  BY CodexAssumption DEF AuthInit
<1> QED BY <1>8, <1>9, <1>10 DEF AuthInv

\* Profiles are not files, and no account is nobody's.
LEMMA ProfilesAreNamed ==
  /\ Profiles \subseteq Accounts /\ "global" \in Profiles
  /\ \A p \in Profiles : p # "file" /\ p # "none"
BY CodexAssumption DEF Profiles, Accounts

\* What the routes keep of their own steps.
LEMMA RoutesSteps ==
  ASSUME AuthInv, AuthNext
  PROVE  /\ verifying' \subseteq Profiles /\ disabling' \in {"no", "found", "missing"}
         /\ requests' \in 0 .. MaxRequests
<1> USE DEF AuthInv
<1>1. Requested => requests' \in 0 .. MaxRequests
  BY CodexAssumption DEF Requested
<1>2. ASSUME NEW p \in Profiles,
             StartDeviceFlow(p) \/ Verify(p) \/ VerifyAnswer(p) \/ ImportLocal(p) \/ LogOut(p)
      PROVE  /\ verifying' \subseteq Profiles /\ disabling' \in {"no", "found", "missing"}
             /\ requests' \in 0 .. MaxRequests
  BY <1>1, <1>2 DEF StartDeviceFlow, Verify, VerifyAnswer, ImportLocal, LogOut
<1>3. ASSUME NEW flag \in BOOLEAN, ReadGlobal \/ WriteDisabled(flag)
      PROVE  /\ verifying' \subseteq Profiles /\ disabling' \in {"no", "found", "missing"}
             /\ requests' \in 0 .. MaxRequests
  BY <1>1, <1>3 DEF ReadGlobal, WriteDisabled
<1>4. ASSUME NEW u \in Users, CreateAudit(u) \/ CreateFix(u)
      PROVE  UNCHANGED <<verifying, disabling, requests>>
  BY <1>4 DEF CreateAudit, CreateFix, Bind
<1>5. ASSUME NEW j \in Jobs, Stage(j) \/ Renew(j) \/ Collect(j) \/ Abandon(j)
      PROVE  UNCHANGED <<verifying, disabling, requests>>
  BY <1>5 DEF Stage, Renew, Collect, Abandon
<1> QED BY <1>2, <1>3, <1>4, <1>5 DEF AuthNext

\* A profile's row that changes: its new tokens, if it is ready, are the file's, the ones it
\* had when it was ready before, or the latest.
LEMMA ProfileChanges ==
  ASSUME AuthRows, NEW p \in Profiles, NEW new \in ProfileRows,
         profile' = [profile EXCEPT ![p] = new], UNCHANGED <<run, latest, strayed>>,
         new.tokens.account \in {p, "file", "none"},
         new.status = "ready" => new.tokens # NoTokens,
         new.status = "ready" /\ new.tokens.account = p =>
           profile[p].status = "ready" /\ new.tokens = profile[p].tokens
  PROVE  AuthRows'
<1> USE DEF AuthRows
<1>1. /\ profile' \in [Profiles -> ProfileRows] /\ profile'[p] = new
      /\ \A q \in Profiles \ {p} : profile'[q] = profile[q]
  OBVIOUS
<1>2. \A q \in Profiles : Borrowers(q)' = Borrowers(q)
  BY DEF Borrowers
<1>3. \A q \in Profiles : HasItsTokens(q)'
  BY <1>1 DEF HasItsTokens
<1>4. \A q \in Profiles : LatestIsKept(q)'
  BY <1>1, <1>2 DEF LatestIsKept
<1>5. \A j \in Jobs : HasProfilesTokens(j)'
  BY DEF HasProfilesTokens, Bound
<1> QED BY <1>1, <1>3, <1>4, <1>5

\* The routes that write a profile at once.
LEMMA RoutesKeep ==
  ASSUME AuthRows, NEW p \in Profiles, StartDeviceFlow(p) \/ ImportLocal(p) \/ LogOut(p)
  PROVE  AuthRows'
<1>0. profile[p] \in ProfileRows /\ HasItsTokens(p)
  BY DEF AuthRows
<1>1. CASE StartDeviceFlow(p)
  <2> DEFINE new == [profile[p] EXCEPT !.status = "pending"]
  <2>1. new \in ProfileRows /\ new.status = "pending" /\ new.tokens = profile[p].tokens
    BY <1>0 DEF ProfileRows
  <2>2. profile' = [profile EXCEPT ![p] = new] /\ UNCHANGED <<run, latest, strayed>>
    BY <1>1 DEF StartDeviceFlow
  <2> HIDE DEF new
  <2> QED BY <1>0, <2>1, <2>2, ProfileChanges DEF HasItsTokens
<1>2. CASE ImportLocal(p)
  <2> DEFINE file == [account |-> "file", issue |-> 0]
             new == [profile[p] EXCEPT !.status = "ready", !.tokens = file]
  <2>1. file \in StoredTokens /\ file # NoTokens /\ file.account = "file"
    BY CodexAssumption DEF StoredTokens, Tokens, Accounts, NoTokens
  <2>2. profile' = [profile EXCEPT ![p] = new] /\ UNCHANGED <<run, latest, strayed>>
    BY <1>2 DEF ImportLocal, Store
  <2> HIDE DEF file
  <2>3. new \in ProfileRows /\ new.status = "ready" /\ new.tokens = file
    BY <1>0, <2>1 DEF ProfileRows
  <2> HIDE DEF new
  <2> QED BY <2>1, <2>2, <2>3, ProfileChanges, ProfilesAreNamed
<1>3. CASE LogOut(p)
  <2> DEFINE new == [profile[p] EXCEPT !.status = "unauthenticated", !.tokens = NoTokens]
  <2>1. NoTokens \in StoredTokens /\ NoTokens.account = "none"
    BY DEF StoredTokens, NoTokens
  <2>2. new \in ProfileRows /\ new.status = "unauthenticated" /\ new.tokens = NoTokens
    BY <1>0, <2>1 DEF ProfileRows
  <2>3. profile' = [profile EXCEPT ![p] = new] /\ UNCHANGED <<run, latest, strayed>>
    BY <1>3 DEF LogOut
  <2> HIDE DEF new
  <2> QED BY <2>1, <2>2, <2>3, ProfileChanges
<1> QED BY <1>1, <1>2, <1>3

\* The provider's answer to a verification: tokens it issues while a job has others make the
\* account stray.
LEMMA AnswerKeeps ==
  ASSUME AuthRows, NEW p \in Profiles, VerifyAnswer(p)
  PROVE  AuthRows'
<1>0. profile[p] \in ProfileRows /\ HasItsTokens(p)
  BY DEF AuthRows
<1>1. CASE UNCHANGED <<profile, latest, strayed>>
  BY <1>1 DEF VerifyAnswer, AuthRows, HasItsTokens, LatestIsKept, HasProfilesTokens, Borrowers, Bound
<1>2. CASE profile' = [profile EXCEPT ![p].status = "error"] /\ UNCHANGED <<latest, strayed>>
  <2> DEFINE new == [profile[p] EXCEPT !.status = "error"]
  <2>1. new \in ProfileRows /\ new.status = "error" /\ new.tokens = profile[p].tokens
    BY <1>0 DEF ProfileRows
  <2>2. profile' = [profile EXCEPT ![p] = new] /\ UNCHANGED <<run, latest, strayed>>
    BY <1>2 DEF VerifyAnswer
  <2> HIDE DEF new
  <2> QED BY <1>0, <2>1, <2>2, ProfileChanges DEF HasItsTokens
<1>3. CASE /\ latest[p] < MaxIssues
           /\ latest' = [latest EXCEPT ![p] = @ + 1]
           /\ Store(p, [account |-> p, issue |-> latest'[p]])
           /\ strayed' = IF Borrowers(p) = {} THEN strayed \ {p} ELSE strayed \union {p}
  <2> DEFINE mine == [account |-> p, issue |-> latest'[p]]
             new  == [profile[p] EXCEPT !.status = "ready", !.tokens = mine]
  <2>0. p \in Accounts /\ p # "none"
    BY ProfilesAreNamed
  <2>1. /\ latest' \in [Accounts -> 0 .. MaxIssues] /\ latest'[p] = latest[p] + 1
        /\ \A q \in Accounts \ {p} : latest'[q] = latest[q]
    BY <1>3, <2>0, CodexAssumption DEF AuthRows
  <2>2. mine \in StoredTokens /\ mine # NoTokens /\ mine.account = p /\ mine.issue = latest'[p]
    BY <2>0, <2>1 DEF StoredTokens, Tokens, NoTokens
  <2>3. profile' = [profile EXCEPT ![p] = new] /\ UNCHANGED run
    BY <1>3 DEF VerifyAnswer, Store
  <2> HIDE DEF mine
  <2>4. new \in ProfileRows /\ new.status = "ready" /\ new.tokens = mine
    BY <1>0, <2>2 DEF ProfileRows
  <2> HIDE DEF new
  <2>5. /\ profile' \in [Profiles -> ProfileRows] /\ profile'[p] = new
        /\ \A q \in Profiles \ {p} : profile'[q] = profile[q]
    BY <2>3, <2>4 DEF AuthRows
  <2>6. \A q \in Profiles : Borrowers(q)' = Borrowers(q)
    BY <2>3 DEF Borrowers
  <2>7. strayed' \subseteq Accounts \union {"none"}
    BY <1>3, <2>0 DEF AuthRows
  <2>8. \A q \in Profiles : HasItsTokens(q)'
    BY <2>2, <2>4, <2>5 DEF HasItsTokens, AuthRows
  <2>9. LatestIsKept(p)'
    <3>1. CASE Borrowers(p) = {}
      BY <3>1, <2>2, <2>4, <2>5, <2>6 DEF LatestIsKept
    <3>2. CASE Borrowers(p) # {}
      BY <3>2, <1>3 DEF LatestIsKept
    <3> QED BY <3>1, <3>2
  <2>10. ASSUME NEW q \in Profiles, q # p PROVE LatestIsKept(q)'
    <3>1. q \in Accounts /\ LatestIsKept(q) /\ latest'[q] = latest[q] /\ profile'[q] = profile[q]
      BY <2>1, <2>5, <2>10, ProfilesAreNamed DEF AuthRows
    <3>2. q \notin strayed' => q \notin strayed
      BY <1>3, <2>10
    <3> QED BY <3>1, <3>2, <2>3, <2>6 DEF LatestIsKept
  <2>11. \A j \in Jobs : HasProfilesTokens(j)'
    BY <2>3 DEF HasProfilesTokens, Bound, AuthRows
  <2>12. run' \in [Jobs -> AuthRuns]
    BY <2>3 DEF AuthRows
  <2> QED BY <2>1, <2>5, <2>7, <2>8, <2>9, <2>10, <2>11, <2>12 DEF AuthRows
<1> QED BY <1>1, <1>2, <1>3 DEF VerifyAnswer

\* setGlobalCodexAuthDisabled changes the flag, and a status only to one without tokens in use.
LEMMA FlagKeeps ==
  ASSUME AuthRows, NEW flag \in BOOLEAN, WriteDisabled(flag)
  PROVE  AuthRows'
<1> DEFINE p == "global"
           new == [profile[p] EXCEPT !.disabled = flag,
                     !.status = IF disabling = "missing" THEN "unauthenticated" ELSE @]
<1>0. p \in Profiles /\ profile[p] \in ProfileRows /\ HasItsTokens(p)
  BY ProfilesAreNamed DEF AuthRows
<1>1. /\ new \in ProfileRows /\ new.tokens = profile[p].tokens
      /\ new.status = "ready" => profile[p].status = "ready"
  BY <1>0 DEF ProfileRows
<1>2. profile' = [profile EXCEPT ![p] = new] /\ UNCHANGED <<run, latest, strayed>>
  BY DEF WriteDisabled
<1> HIDE DEF new, p
<1> QED BY <1>0, <1>1, <1>2, ProfileChanges DEF HasItsTokens

\* Steps that write neither profiles nor jobs.
LEMMA SameRows ==
  ASSUME AuthRows, UNCHANGED <<profile, run, latest, strayed>>
  PROVE  AuthRows'
BY DEF AuthRows, HasItsTokens, LatestIsKept, HasProfilesTokens, Borrowers, Bound

\* A job always has a profile to take tokens from.
LEMMA ABoundIsAProfile ==
  ASSUME AuthRows, NEW j \in Jobs
  PROVE  Bound(j) \in Profiles
<1>1. run[j].binding \in Profiles \union {"none"}
  BY DEF AuthRows, AuthRuns
<1> QED BY <1>1, ProfilesAreNamed DEF Bound

\* A job that is created has no tokens yet.
LEMMA BindKeeps ==
  ASSUME AuthRows, NEW j \in Jobs, NEW b \in Profiles \union {"none"}, Bind(j, b)
  PROVE  AuthRows'
<1> DEFINE new == [run[j] EXCEPT !.at = "bound", !.binding = b]
<1>1. run[j] \in AuthRuns /\ run[j].at = "new"
  BY DEF AuthRows, Bind
<1>2. new \in AuthRuns /\ new.at = "bound"
  BY <1>1 DEF AuthRuns
<1>3. run' = [run EXCEPT ![j] = new] /\ UNCHANGED <<profile, latest, strayed>>
  BY DEF Bind
<1> HIDE DEF new
<1>4. /\ run' \in [Jobs -> AuthRuns] /\ run'[j] = new
      /\ \A k \in Jobs \ {j} : run'[k] = run[k]
  BY <1>2, <1>3 DEF AuthRows
<1>5. \A q : Borrowers(q)' = Borrowers(q)
  BY <1>1, <1>2, <1>4 DEF Borrowers
<1>6. \A q : \A k \in Borrowers(q) : run'[k] = run[k]
  BY <1>1, <1>4 DEF Borrowers
<1>7. \A q \in Profiles : LatestIsKept(q)'
  BY <1>3, <1>5, <1>6 DEF AuthRows, LatestIsKept
<1>8. \A q \in Profiles : HasItsTokens(q)'
  BY <1>3 DEF AuthRows, HasItsTokens
<1>9. \A k \in Jobs : HasProfilesTokens(k)'
  BY <1>2, <1>4 DEF AuthRows, HasProfilesTokens, Bound
<1> QED BY <1>3, <1>4, <1>7, <1>8, <1>9 DEF AuthRows

\* Bindings, asked for or by default, name profiles.
LEMMA CreationsKeep ==
  ASSUME AuthRows, NEW u \in Users, CreateAudit(u) \/ CreateFix(u)
  PROVE  AuthRows'
<1>1. Audit \in Jobs /\ Fix \in Jobs
  BY DEF Jobs
<1>2. DefaultBinding(u) \in Profiles \union {"none"}
  BY DEF DefaultBinding, Profiles
<1>3. CASE CreateAudit(u)
  <2>1. \E p \in Profiles \union {"none"} : Bind(Audit, p)
    BY <1>2, <1>3 DEF CreateAudit, Profiles
  <2> QED BY <2>1, <1>1, BindKeeps
<1>4. CASE CreateFix(u)
  <2>1. run[Audit].binding \in Profiles \union {"none"}
    BY <1>1 DEF AuthRows, AuthRuns
  <2>2. FollowOn(run[Audit].binding, u) \in Profiles \union {"none"}
    BY <2>1, <1>2 DEF FollowOn
  <2> QED BY <2>2, <1>4, <1>1, BindKeeps DEF CreateFix
<1> QED BY <1>3, <1>4

\* stageCodexAuth takes the profile's tokens, which are the latest unless a job has them.
LEMMA StageKeeps ==
  ASSUME AuthRows, NEW j \in Jobs, Stage(j)
  PROVE  AuthRows'
<1> DEFINE b == Bound(j)
<1>0. b \in Profiles
  BY ABoundIsAProfile
<1>1. PICK tokens \in TokensFor(b) :
        /\ run' = [run EXCEPT ![j].at = "running", ![j].tokens = tokens]
        /\ strayed' = IF Borrowers(tokens.account) = {} THEN strayed
                      ELSE strayed \union {tokens.account}
  BY DEF Stage
<1>2. profile[b] \in ProfileRows /\ HasItsTokens(b) /\ LatestIsKept(b)
  BY <1>0 DEF AuthRows
<1>3. \/ tokens = NoTokens
      \/ tokens = [account |-> "file", issue |-> 0]
      \/ tokens = profile[b].tokens /\ profile[b].status = "ready"
  BY <1>1 DEF TokensFor
<1>4. tokens \in StoredTokens /\ tokens.account \in {b, "file", "none"}
  BY <1>2, <1>3, CodexAssumption DEF HasItsTokens, ProfileRows, StoredTokens, Tokens, Accounts, NoTokens
<1>5. tokens # NoTokens => tokens.account \in Accounts
  BY <1>4 DEF StoredTokens, Tokens
<1> DEFINE new == [run[j] EXCEPT !.at = "running", !.tokens = tokens]
<1>6. run[j] \in AuthRuns /\ run[j].at = "bound"
  BY DEF AuthRows, Stage
<1>7. /\ new \in AuthRuns /\ new.at = "running" /\ new.tokens = tokens
      /\ new.binding = run[j].binding
  BY <1>4, <1>6 DEF AuthRuns
<1>8. run' = [run EXCEPT ![j] = new] /\ UNCHANGED <<profile, latest>>
  BY <1>1 DEF Stage
<1> HIDE DEF new
<1>9. /\ run' \in [Jobs -> AuthRuns] /\ run'[j] = new
      /\ \A k \in Jobs \ {j} : run'[k] = run[k]
  BY <1>7, <1>8 DEF AuthRows
<1>10. \A q : Borrowers(q)' = IF q = tokens.account THEN Borrowers(q) \union {j} ELSE Borrowers(q)
  BY <1>6, <1>7, <1>9 DEF Borrowers
<1>11. \A q : \A k \in Borrowers(q) : k # j /\ run'[k] = run[k]
  BY <1>6, <1>9 DEF Borrowers
<1>12. strayed' \subseteq Accounts \union {"none"}
  <2>1. CASE tokens = NoTokens
    BY <2>1, <1>1 DEF AuthRows, NoTokens
  <2>2. CASE tokens # NoTokens
    BY <2>2, <1>5, <1>1 DEF AuthRows
  <2> QED BY <2>1, <2>2
<1>13. ASSUME NEW q \in Profiles, q # tokens.account PROVE LatestIsKept(q)'
  <2>1. LatestIsKept(q) /\ Borrowers(q)' = Borrowers(q) /\ (q \notin strayed' => q \notin strayed)
    BY <1>1, <1>10, <1>13 DEF AuthRows
  <2> QED BY <2>1, <1>8, <1>11 DEF LatestIsKept
<1>14. ASSUME tokens.account \in Profiles PROVE LatestIsKept(tokens.account)'
  <2>1. tokens.account = b /\ tokens = profile[b].tokens /\ profile[b].status = "ready"
    BY <1>3, <1>4, <1>14, ProfilesAreNamed DEF NoTokens
  <2>2. CASE Borrowers(b) = {}
    BY <2>1, <2>2, <1>1, <1>2, <1>7, <1>8, <1>9, <1>10 DEF LatestIsKept
  <2>3. CASE Borrowers(b) # {}
    BY <2>1, <2>3, <1>1 DEF LatestIsKept
  <2> QED BY <2>2, <2>3
<1>15. \A q \in Profiles : HasItsTokens(q)'
  BY <1>8 DEF AuthRows, HasItsTokens
<1>16. \A k \in Jobs : HasProfilesTokens(k)'
  <2>1. HasProfilesTokens(j)'
    <3>1. Bound(j)' = b
      BY <1>7, <1>9 DEF Bound
    <3>2. tokens # NoTokens => tokens.account \in {b, "file"}
      BY <1>3, <1>4, <1>2, <1>5, CodexAssumption DEF HasItsTokens, Accounts, Profiles
    <3> QED BY <3>1, <3>2, <1>7, <1>9 DEF HasProfilesTokens
  <2>2. \A k \in Jobs \ {j} : HasProfilesTokens(k)'
    BY <1>9 DEF AuthRows, HasProfilesTokens, Bound
  <2> QED BY <2>1, <2>2
<1> QED BY <1>8, <1>9, <1>12, <1>13, <1>14, <1>15, <1>16 DEF AuthRows

\* The one job that has an account's latest tokens renews them and has them still.
LEMMA RenewKeeps ==
  ASSUME AuthRows, NEW j \in Jobs, Renew(j)
  PROVE  AuthRows'
<1> DEFINE a == run[j].tokens.account
           file == [run[j].tokens EXCEPT !.issue = @ + 1]
           new  == [run[j] EXCEPT !.tokens = file, !.renewed = TRUE]
<1>0. Bound(j) \in Profiles
  BY ABoundIsAProfile
<1>1. /\ run[j] \in AuthRuns /\ run[j].at = "running" /\ run[j].tokens # NoTokens
      /\ run[j].tokens.issue = latest[a] /\ latest[a] < MaxIssues
  BY DEF AuthRows, Renew
<1>2. run[j].tokens \in Tokens /\ a \in Accounts
  BY <1>1 DEF AuthRuns, StoredTokens, Tokens
<1>3. file \in Tokens /\ file.account = a /\ file.issue = latest[a] + 1
  BY <1>1, <1>2, CodexAssumption DEF Tokens
<1>4. /\ latest' \in [Accounts -> 0 .. MaxIssues] /\ latest'[a] = latest[a] + 1
      /\ \A q \in Accounts \ {a} : latest'[q] = latest[q]
  BY <1>1, <1>2, CodexAssumption DEF Renew, AuthRows
<1>5. run' = [run EXCEPT ![j] = new] /\ UNCHANGED <<profile, strayed>>
  BY <1>1 DEF Renew
<1> HIDE DEF file
<1>6. /\ new \in AuthRuns /\ new.tokens = file /\ new.renewed /\ new.at = "running"
      /\ new.binding = run[j].binding
  BY <1>1, <1>3 DEF AuthRuns, StoredTokens
<1> HIDE DEF new
<1>7. /\ run' \in [Jobs -> AuthRuns] /\ run'[j] = new
      /\ \A k \in Jobs \ {j} : run'[k] = run[k]
  BY <1>5, <1>6 DEF AuthRows
<1>8. \A q : Borrowers(q)' = Borrowers(q)
  BY <1>1, <1>3, <1>6, <1>7 DEF Borrowers
<1>9. j \in Borrowers(a) /\ \A q : j \in Borrowers(q) => q = a
  BY <1>1 DEF Borrowers
<1>10. ASSUME NEW q \in Profiles, q # a PROVE LatestIsKept(q)'
  <2>1. LatestIsKept(q) /\ latest'[q] = latest[q]
    BY <1>4, <1>10, ProfilesAreNamed DEF AuthRows
  <2>2. \A k \in Borrowers(q) : run'[k] = run[k]
    BY <1>7, <1>9, <1>10 DEF Borrowers
  <2> QED BY <2>1, <2>2, <1>5, <1>8 DEF LatestIsKept
<1>12. \A q \in Profiles : LatestIsKept(q)'
  <2> TAKE q \in Profiles
  <2>1. CASE q # a
    BY <2>1, <1>10
  <2>2. CASE q = a /\ q \in strayed
    BY <2>2, <1>5 DEF LatestIsKept
  <2>3. CASE q = a /\ q \notin strayed
    <3>1. \A k \in Borrowers(q) : k = j
      BY <1>9, <2>3 DEF AuthRows, LatestIsKept
    <3>2. run'[j].renewed /\ run'[j].tokens.issue = latest'[q] /\ j \in Borrowers(q)
      BY <1>3, <1>4, <1>6, <1>7, <1>9, <2>3
    <3> QED BY <3>1, <3>2, <1>5, <1>8 DEF LatestIsKept
  <2> QED BY <2>1, <2>2, <2>3
<1>13. \A q \in Profiles : HasItsTokens(q)'
  BY <1>5 DEF AuthRows, HasItsTokens
<1>14. \A k \in Jobs : HasProfilesTokens(k)'
  BY <1>1, <1>3, <1>6, <1>7 DEF AuthRows, HasProfilesTokens, Bound
<1> QED BY <1>4, <1>5, <1>7, <1>12, <1>13, <1>14 DEF AuthRows

\* A run that ends: nobody but it leaves the borrowers.
LEMMA OverEnds ==
  ASSUME AuthRows, NEW j \in Jobs, Over(j)
  PROVE  /\ run' \in [Jobs -> AuthRuns] /\ run'[j].at = "ended"
         /\ \A k \in Jobs \ {j} : run'[k] = run[k]
         /\ \A q : Borrowers(q)' = Borrowers(q) \ {j}
         /\ \A k \in Jobs : HasProfilesTokens(k)'
<1> DEFINE new == [NoRun EXCEPT !.at = "ended", !.binding = run[j].binding]
<1>1. run[j] \in AuthRuns
  BY DEF AuthRows
<1>2. new \in AuthRuns /\ new.at = "ended"
  BY <1>1 DEF AuthRuns, NoRun, StoredTokens
<1>3. run' = [run EXCEPT ![j] = new]
  BY DEF Over
<1> HIDE DEF new
<1>4. /\ run' \in [Jobs -> AuthRuns] /\ run'[j] = new
      /\ \A k \in Jobs \ {j} : run'[k] = run[k]
  BY <1>2, <1>3 DEF AuthRows
<1>5. \A q : Borrowers(q)' = Borrowers(q) \ {j}
  BY <1>2, <1>4 DEF Borrowers
<1>6. \A k \in Jobs : HasProfilesTokens(k)'
  BY <1>2, <1>4 DEF AuthRows, HasProfilesTokens, Bound
<1> QED BY <1>2, <1>4, <1>5, <1>6

\* syncCodexAuth gives the profile the latest tokens of the account.
LEMMA CollectKeeps ==
  ASSUME AuthRows, NEW j \in Jobs, Collect(j)
  PROVE  AuthRows'
<1>9. PICK b \in Profiles : b = Bound(j)
  BY ABoundIsAProfile
<1>0. profile[b] \in ProfileRows
  BY DEF AuthRows
<1>1. /\ run' \in [Jobs -> AuthRuns] /\ run'[j].at = "ended"
      /\ \A k \in Jobs \ {j} : run'[k] = run[k]
      /\ \A q : Borrowers(q)' = Borrowers(q) \ {j}
      /\ \A k \in Jobs : HasProfilesTokens(k)'
  BY OverEnds DEF Collect
<1>2. UNCHANGED <<latest, strayed>> /\ run[j].at = "running" /\ run[j] \in AuthRuns
  BY DEF Collect, AuthRows
<1>3. CASE run[j].tokens = NoTokens
  <2>1. \A q \in Profiles : j \notin Borrowers(q)
    BY <1>3, ProfilesAreNamed DEF Borrowers, NoTokens
  <2>2. UNCHANGED profile
    BY <1>3 DEF Collect
  <2>3. \A q \in Profiles : LatestIsKept(q)'
    <3> TAKE q \in Profiles
    <3>1. LatestIsKept(q) /\ Borrowers(q)' = Borrowers(q)
      BY <1>1, <2>1 DEF AuthRows
    <3>2. \A k \in Borrowers(q) : run'[k] = run[k]
      BY <1>1, <2>1 DEF Borrowers
    <3> QED BY <3>1, <3>2, <2>2, <1>2 DEF LatestIsKept
  <2>4. \A q \in Profiles : HasItsTokens(q)'
    BY <2>2 DEF AuthRows, HasItsTokens
  <2> QED BY <1>1, <1>2, <2>2, <2>3, <2>4 DEF AuthRows
<1>4. CASE run[j].tokens # NoTokens
  <2> DEFINE new == [profile[b] EXCEPT !.status = "ready", !.tokens = run[j].tokens]
  <2>1. run[j].tokens \in StoredTokens /\ run[j].tokens.account \in {b, "file"}
    BY <1>9, <1>2, <1>4 DEF AuthRuns, AuthRows, HasProfilesTokens
  <2>2. new \in ProfileRows /\ new.status = "ready" /\ new.tokens = run[j].tokens
    BY <1>0, <2>1 DEF ProfileRows
  <2>3. profile' = [profile EXCEPT ![b] = new]
    BY <1>9, <1>4 DEF Collect, Store
  <2> HIDE DEF new
  <2>4. /\ profile' \in [Profiles -> ProfileRows] /\ profile'[b] = new
        /\ \A q \in Profiles \ {b} : profile'[q] = profile[q]
    BY <1>0, <2>2, <2>3 DEF AuthRows
  <2>5. \A q \in Profiles : HasItsTokens(q)'
    BY <1>4, <2>1, <2>2, <2>4 DEF AuthRows, HasItsTokens
  <2>6. ASSUME NEW q \in Profiles, q # b PROVE LatestIsKept(q)'
    <3>1. j \notin Borrowers(q)
      BY <2>1, <2>6, ProfilesAreNamed DEF Borrowers
    <3>2. LatestIsKept(q) /\ Borrowers(q)' = Borrowers(q) /\ profile'[q] = profile[q]
      BY <1>1, <2>4, <2>6, <3>1 DEF AuthRows
    <3>3. \A k \in Borrowers(q) : run'[k] = run[k]
      BY <1>1, <3>1 DEF Borrowers
    <3> QED BY <3>2, <3>3, <1>2 DEF LatestIsKept
  <2>7. LatestIsKept(b)'
    <3>1. /\ LatestIsKept(b)
          /\ \A k \in Borrowers(b)' : k \in Borrowers(b) /\ k # j /\ run'[k] = run[k]
      BY <1>0, <1>1 DEF AuthRows, Borrowers
    <3>2. CASE b \in strayed
      BY <3>2, <1>2 DEF LatestIsKept
    <3>3. CASE run[j].tokens.account # b
      BY <3>1, <3>3, <1>2, <2>2, <2>4 DEF LatestIsKept
    <3>4. CASE run[j].tokens.account = b /\ b \notin strayed
      <4>1. j \in Borrowers(b) /\ run[j].tokens.issue = latest[b]
        BY <3>1, <3>4, <1>2 DEF Borrowers, LatestIsKept
      <4> QED BY <3>1, <3>4, <4>1, <1>2, <2>2, <2>4 DEF LatestIsKept
    <3> QED BY <3>2, <3>3, <3>4
  <2>8. \A q \in Profiles : LatestIsKept(q)'
    BY <2>6, <2>7
  <2> QED BY <1>1, <1>2, <2>4, <2>5, <2>8 DEF AuthRows
<1> QED BY <1>3, <1>4

\* What an abandoned job had renewed strays; what it had not is still the profile's.
LEMMA AbandonKeeps ==
  ASSUME AuthRows, NEW j \in Jobs, Abandon(j)
  PROVE  AuthRows'
<1>1. /\ run' \in [Jobs -> AuthRuns] /\ run'[j].at = "ended"
      /\ \A k \in Jobs \ {j} : run'[k] = run[k]
      /\ \A q : Borrowers(q)' = Borrowers(q) \ {j}
      /\ \A k \in Jobs : HasProfilesTokens(k)'
  BY OverEnds DEF Abandon
<1>2. UNCHANGED <<profile, latest>> /\ run[j] \in AuthRuns
  BY DEF Abandon, AuthRows
<1>3. ASSUME NEW q \in Profiles PROVE LatestIsKept(q)'
  <2>1. LatestIsKept(q) /\ q \in Accounts
    BY ProfilesAreNamed DEF AuthRows
  <2>2. \A k \in Borrowers(q)' : k \in Borrowers(q) /\ run'[k] = run[k]
    BY <1>1 DEF Borrowers
  <2>3. q \notin strayed' => q \notin strayed
    BY DEF Abandon
  <2>4. q \notin strayed' /\ j \in Borrowers(q) => ~ run[j].renewed
    BY DEF Abandon, Borrowers
  <2>5. \A k \in Borrowers(q) : k = j \/ (k \in Borrowers(q)' /\ run'[k] = run[k])
    BY <1>1 DEF Borrowers
  <2> QED BY <2>1, <2>2, <2>3, <2>4, <2>5, <1>2 DEF LatestIsKept
<1>4. \A q \in Profiles : HasItsTokens(q)'
  BY <1>2 DEF AuthRows, HasItsTokens
<1>5. strayed' \subseteq Accounts \union {"none"}
  BY <1>2 DEF Abandon, AuthRows, AuthRuns, StoredTokens, Tokens, NoTokens
<1> QED BY <1>1, <1>2, <1>3, <1>4, <1>5 DEF AuthRows

\* Every step of profiles and jobs keeps the invariant.
LEMMA NextAuthInv ==
  ASSUME AuthInv, [AuthNext]_authVars
  PROVE  AuthInv'
<1>0. AuthRows
  BY DEF AuthInv
<1>1. CASE UNCHANGED authVars
  BY <1>0, <1>1, SameRows DEF authVars, AuthInv
<1>2. CASE AuthNext
  <2>1. ASSUME NEW p \in Profiles,
               StartDeviceFlow(p) \/ Verify(p) \/ VerifyAnswer(p) \/ ImportLocal(p) \/ LogOut(p)
        PROVE  AuthRows'
    <3>1. CASE StartDeviceFlow(p) \/ ImportLocal(p) \/ LogOut(p)
      BY <1>0, <3>1, RoutesKeep
    <3>2. CASE VerifyAnswer(p)
      BY <1>0, <3>2, AnswerKeeps
    <3>3. CASE Verify(p)
      <4>1. UNCHANGED <<profile, run, latest, strayed>>
        BY <3>3 DEF Verify
      <4> QED BY <1>0, <4>1, SameRows
    <3> QED BY <2>1, <3>1, <3>2, <3>3
  <2>2. ASSUME ReadGlobal PROVE AuthRows'
    <3>1. UNCHANGED <<profile, run, latest, strayed>>
      BY <2>2 DEF ReadGlobal
    <3> QED BY <1>0, <3>1, SameRows
  <2>3. ASSUME NEW j \in Jobs, Stage(j) \/ Renew(j) \/ Collect(j) \/ Abandon(j)
        PROVE  AuthRows'
    BY <1>0, <2>3, StageKeeps, RenewKeeps, CollectKeeps, AbandonKeeps
  <2>4. AuthRows'
    BY <1>0, <1>2, <2>1, <2>2, <2>3, FlagKeeps, CreationsKeep DEF AuthNext
  <2> QED BY <1>2, <2>4, RoutesSteps DEF AuthInv
<1> QED BY <1>1, <1>2

\* Profiles and jobs keep their inductive invariant, for every set of users and number of
\* issues.
THEOREM AuthInvariant == AuthSpec => []AuthInv
<1>1. AuthInit => AuthInv
  BY InitAuthInv
<1>2. AuthInv /\ [AuthNext]_authVars => AuthInv'
  BY NextAuthInv
<1> QED BY <1>1, <1>2, PTL DEF AuthSpec

\* TokensComeBack: a profile's tokens are of its account or of the file, it has some if it is
\* ready, and they are the latest the provider issued or the job that has them will bring them
\* (syncCodexAuth), where none strayed.
COROLLARY TokensComeHome == AuthSpec => []TokensComeBack
<1>1. AuthInv => TokensComeBack
  <2> SUFFICES ASSUME AuthInv PROVE TokensComeBack
    OBVIOUS
  <2>1. \A p \in Profiles : HasItsTokens(p) /\ LatestIsKept(p)
    BY DEF AuthInv, AuthRows
  <2> QED BY <2>1 DEF TokensComeBack, HasItsTokens, LatestIsKept
<1> QED BY <1>1, AuthInvariant, PTL

\* What AuthInv does not say of the types: the two jobs never run at once, so that nobody
\* shares the tokens of nobody.
StraysAreAccounts ==
  /\ strayed \subseteq Accounts
  /\ run[Fix].at # "new" => run[Audit].at = "ended"

\* Who has renewed tokens has some.
RenewedAreTokens ==
  \A j \in Jobs : run[j].renewed => run[j].at = "running" /\ run[j].tokens \in Tokens

\* Only a job that runs renews what it took.
LEMMA RenewedAreTokensKeeps ==
  AuthInv /\ RenewedAreTokens /\ [AuthNext]_authVars => RenewedAreTokens'
<1> SUFFICES ASSUME AuthInv, RenewedAreTokens, [AuthNext]_authVars PROVE RenewedAreTokens'
  OBVIOUS
<1>0. /\ run \in [Jobs -> AuthRuns]
      /\ \A j \in Jobs : run[j].renewed => run[j].at = "running" /\ run[j].tokens \in Tokens
  BY DEF RenewedAreTokens, AuthInv, AuthRows
<1>1. ASSUME NEW j \in Jobs, ~ run[j].renewed,
             \E b : Bind(j, b)
      PROVE  RenewedAreTokens'
  <2>1. ~ run'[j].renewed /\ \A k \in Jobs \ {j} : run'[k] = run[k]
    BY <1>0, <1>1 DEF Bind, AuthRuns
  <2> QED BY <1>0, <2>1 DEF RenewedAreTokens
<1>2. ASSUME NEW u \in Users, CreateAudit(u) \/ CreateFix(u) PROVE RenewedAreTokens'
  <2>1. PICK j \in Jobs : \E b : Bind(j, b)
    BY <1>2 DEF CreateAudit, CreateFix, Jobs
  <2>2. ~ run[j].renewed
    BY <1>0, <2>1 DEF Bind
  <2> QED BY <1>1, <2>1, <2>2
<1>3. ASSUME NEW j \in Jobs, Stage(j) PROVE RenewedAreTokens'
  <2>1. ~ run[j].renewed
    BY <1>0, <1>3 DEF Stage
  <2>2. ~ run'[j].renewed /\ \A k \in Jobs \ {j} : run'[k] = run[k]
    BY <1>0, <1>3, <2>1 DEF Stage, AuthRuns
  <2> QED BY <1>0, <2>2 DEF RenewedAreTokens
<1>4. ASSUME NEW j \in Jobs, Renew(j) PROVE RenewedAreTokens'
  <2>1. /\ run[j].at = "running" /\ run[j].tokens \in Tokens
        /\ run' = [run EXCEPT ![j].tokens.issue = @ + 1, ![j].renewed = TRUE]
    BY <1>0, <1>4 DEF Renew, AuthRuns, StoredTokens
  <2>2. run[j].tokens.issue + 1 \in 0 .. MaxIssues
    <3>1. latest[run[j].tokens.account] \in 0 .. MaxIssues
      BY <2>1 DEF AuthInv, AuthRows, Tokens
    <3> QED BY <1>4, <3>1, CodexAssumption DEF Renew
  <2>3. run'[j].at = "running" /\ run'[j].tokens \in Tokens
    BY <1>0, <2>1, <2>2 DEF Tokens, AuthRuns
  <2>4. \A k \in Jobs \ {j} : run'[k] = run[k]
    BY <1>0, <2>1
  <2> QED BY <1>0, <2>3, <2>4 DEF RenewedAreTokens
<1>5. ASSUME NEW j \in Jobs, Collect(j) \/ Abandon(j) PROVE RenewedAreTokens'
  <2>1. Over(j)
    BY <1>5 DEF Collect, Abandon
  <2>2. ~ run'[j].renewed /\ \A k \in Jobs \ {j} : run'[k] = run[k]
    BY <1>0, <2>1 DEF Over, NoRun
  <2> QED BY <1>0, <2>2 DEF RenewedAreTokens
<1>6. ASSUME run' = run PROVE RenewedAreTokens'
  BY <1>0, <1>6 DEF RenewedAreTokens
<1>7. \/ run' = run \/ \E u \in Users : CreateAudit(u) \/ CreateFix(u)
      \/ \E j \in Jobs : Stage(j) \/ Renew(j) \/ Collect(j) \/ Abandon(j)
  BY DEF AuthNext, StartDeviceFlow, Verify, VerifyAnswer, ImportLocal, LogOut, ReadGlobal, WriteDisabled,
         authVars
<1> QED BY <1>2, <1>3, <1>4, <1>5, <1>6, <1>7

\* Tokens stray whose account somebody has.
LEMMA StraysAreAccountsKeeps ==
  AuthInv /\ RenewedAreTokens /\ StraysAreAccounts /\ [AuthNext]_authVars => StraysAreAccounts'
<1> SUFFICES ASSUME AuthInv, RenewedAreTokens, StraysAreAccounts, [AuthNext]_authVars
             PROVE  StraysAreAccounts'
  OBVIOUS
<1>0. /\ strayed \subseteq Accounts /\ (run[Fix].at # "new" => run[Audit].at = "ended")
      /\ run \in [Jobs -> AuthRuns] /\ Profiles \subseteq Accounts
  BY DEF StraysAreAccounts, AuthInv, AuthRows, Profiles, Accounts
<1>j. /\ Audit \in Jobs /\ Fix \in Jobs /\ Audit # Fix
  BY CodexAssumption DEF Jobs
<1>1. ASSUME NEW p \in Profiles,
             StartDeviceFlow(p) \/ Verify(p) \/ VerifyAnswer(p) \/ ImportLocal(p) \/ LogOut(p)
      PROVE  StraysAreAccounts'
  <2>1. run' = run /\ strayed' \subseteq strayed \union {p}
    BY <1>1 DEF StartDeviceFlow, Verify, VerifyAnswer, ImportLocal, LogOut
  <2> QED BY <1>0, <2>1 DEF StraysAreAccounts
<1>2. CASE ReadGlobal \/ \E flag \in BOOLEAN : WriteDisabled(flag)
  <2>1. run' = run /\ strayed' = strayed
    BY <1>2 DEF ReadGlobal, WriteDisabled
  <2> QED BY <1>0, <2>1 DEF StraysAreAccounts
<1>3. ASSUME NEW u \in Users, CreateAudit(u) \/ CreateFix(u) PROVE StraysAreAccounts'
  <2>1. ASSUME NEW b, Bind(Audit, b) PROVE StraysAreAccounts'
    <3>1. run[Fix].at = "new" /\ run' = [run EXCEPT ![Audit].at = "bound", ![Audit].binding = b]
      BY <1>0, <2>1 DEF Bind
    <3>2. run'[Fix] = run[Fix]
      BY <1>0, <1>j, <3>1
    <3> QED BY <1>0, <2>1, <3>1, <3>2 DEF Bind, StraysAreAccounts
  <2>2. ASSUME NEW b, run[Audit].at = "ended", Bind(Fix, b) PROVE StraysAreAccounts'
    <3>1. run'[Audit] = run[Audit]
      BY <1>0, <1>j, <2>2 DEF Bind
    <3> QED BY <1>0, <2>2, <3>1 DEF Bind, StraysAreAccounts
  <2> QED BY <1>3, <2>1, <2>2 DEF CreateAudit, CreateFix
<1>4. ASSUME NEW j \in Jobs, Stage(j) PROVE StraysAreAccounts'
  <2>1. PICK tokens : /\ run' = [run EXCEPT ![j].at = "running", ![j].tokens = tokens]
                      /\ tokens \in TokensFor(Bound(j))
                      /\ strayed' = IF Borrowers(tokens.account) = {} THEN strayed
                                    ELSE strayed \union {tokens.account}
    BY <1>4 DEF Stage
  <2>2. run[j].at = "bound"
    BY <1>4 DEF Stage
  <2>3. Borrowers(tokens.account) = {}
    BY <1>0, <1>j, <2>2 DEF Borrowers, Jobs
  <2>4. run[j].at # "new" /\ run[j].at # "ended" /\ \A k \in Jobs \ {j} : run'[k] = run[k]
    BY <1>0, <2>1, <2>2
  <2>5. run'[Fix].at # "new" => run'[Audit].at = "ended"
    BY <1>0, <1>j, <2>4 DEF Jobs
  <2> QED BY <1>0, <2>1, <2>3, <2>5 DEF StraysAreAccounts
<1>5. ASSUME NEW j \in Jobs, Renew(j) PROVE StraysAreAccounts'
  <2>1. /\ run[j].at = "running" /\ strayed' = strayed
        /\ run' = [run EXCEPT ![j].tokens.issue = @ + 1, ![j].renewed = TRUE]
    BY <1>5 DEF Renew
  <2>2. \A k \in Jobs : run'[k].at = run[k].at
    BY <1>0, <2>1 DEF AuthRuns
  <2> QED BY <1>0, <1>j, <2>1, <2>2 DEF StraysAreAccounts
<1>6. ASSUME NEW j \in Jobs, Collect(j) \/ Abandon(j) PROVE StraysAreAccounts'
  <2>1. /\ run[j].at \in {"bound", "running"} /\ run'[j].at = "ended"
        /\ \A k \in Jobs \ {j} : run'[k] = run[k]
    BY <1>6, OverEnds DEF Collect, Abandon, AuthInv
  <2>2. run'[Fix].at # "new" => run'[Audit].at = "ended"
    BY <1>0, <1>j, <2>1 DEF Jobs
  <2>3. strayed' = strayed \/ (run[j].renewed /\ strayed' = strayed \union {run[j].tokens.account})
    BY <1>6, Zenon DEF Collect, Abandon
  <2>4. run[j].renewed => run[j].tokens.account \in Accounts
    BY DEF RenewedAreTokens, Tokens
  <2> QED BY <1>0, <2>2, <2>3, <2>4 DEF StraysAreAccounts
<1>7. CASE UNCHANGED authVars
  BY <1>0, <1>7 DEF StraysAreAccounts, authVars
<1> QED BY <1>1, <1>2, <1>3, <1>4, <1>5, <1>6, <1>7 DEF AuthNext

\* AuthType, of which AuthInv does not say that tokens stray of accounts only: for that a job
\* has to know whose tokens it renewed.
THEOREM AuthTypes == AuthSpec => []AuthType
<1>1. AuthInit => StraysAreAccounts /\ RenewedAreTokens
  BY DEF AuthInit, StraysAreAccounts, RenewedAreTokens, Jobs, NoRun
<1>2. AuthInv /\ StraysAreAccounts => AuthType
  BY DEF AuthInv, AuthRows, StraysAreAccounts, AuthType, ProfileRows, AuthRuns, StoredTokens
<1> QED BY <1>1, <1>2, RenewedAreTokensKeeps, StraysAreAccountsKeeps, AuthInvariant, PTL DEF AuthSpec

-----------------------------------------------------------------------------
(* The portal *)

\* The tabs of one browser, their cookies, and the tokens' ages.
PortalSpec == PortalInit /\ [][PortalNext]_portalVars

\* Cookies that one sign-in has set, or none, apart from the state of a login.
OneSignIn(c) ==
  /\ c = [session |-> c.session, csrf |-> c.csrf, idToken |-> c.idToken, state |-> c.state]
  /\ c.csrf = c.session.n
  /\ c.idToken # None => c.idToken = c.session

\* What a tab is at, with the cookies it has sent.
TabIsOnePersons(r) ==
  /\ r.at = "callback" => r = [at |-> "callback", state |-> r.state, who |-> r.who]
  /\ r.at \in {"rendering", "calling"} => OneSignIn(r.jar)
  /\ r.at = "page" \/ (r.at = "answer" /\ r.status = "done") => r.as = r.jar.session.who
  /\ r.at = "answer" => r.status # "forbidden"

\* The cookies are one sign-in's, and so are those each tab has sent.
PortalInv ==
  /\ DOMAIN tab = Tabs
  /\ OneSignIn(jar)
  /\ \A t \in Tabs : TabIsOnePersons(tab[t])

\* At first there are no cookies.
LEMMA InitPortalInv == PortalInit => PortalInv
BY DEF PortalInit, PortalInv, NoCookies, None, NewTab, OneSignIn, TabIsOnePersons

\* The answers that set cookies set those of one sign-in.
LEMMA SignsInOne ==
  ASSUME NEW who, NEW n, NEW state
  PROVE  /\ OneSignIn(SignedIn(who, n))
         /\ OneSignIn([SignedIn(who, n) EXCEPT !.state = state])
         /\ OneSignIn(NoCookies)
<1> DEFINE id == IF who = Developer THEN None ELSE [who |-> who, n |-> n]
<1>1. SignedIn(who, n) = [session |-> [who |-> who, n |-> n], csrf |-> n, idToken |-> id, state |-> 0]
  BY DEF SignedIn
<1>2. id # None => id = [who |-> who, n |-> n]
  OBVIOUS
<1> HIDE DEF id
<1> QED BY <1>1, <1>2 DEF OneSignIn, NoCookies, None

\* Another state of a login.
LEMMA StateUpdate ==
  ASSUME NEW c, OneSignIn(c), NEW state
  PROVE  OneSignIn([c EXCEPT !.state = state])
<1>1. [c EXCEPT !.state = state] =
        [session |-> c.session, csrf |-> c.csrf, idToken |-> c.idToken, state |-> state]
  BY DEF OneSignIn
<1> QED BY <1>1 DEF OneSignIn

\* A tab that goes on: what it becomes is one person's.
LEMMA TabBecomes ==
  ASSUME PortalInv, NEW t \in Tabs, NEW r, Becomes(t, r), TabIsOnePersons(r),
         OneSignIn(jar')
  PROVE  PortalInv'
BY DEF PortalInv, Becomes

\* Tabs that have sent nothing, or have been answered without effect.
LEMMA IdleTabs ==
  /\ TabIsOnePersons(NewTab) /\ TabIsOnePersons([at |-> "failed"])
  /\ TabIsOnePersons([at |-> "error"]) /\ TabIsOnePersons([at |-> "login"])
  /\ \A s : TabIsOnePersons([at |-> "keycloak", state |-> s])
  /\ \A s, w : TabIsOnePersons([at |-> "callback", state |-> s, who |-> w])
  /\ \A s, w : TabIsOnePersons([at |-> "exchange", state |-> s, who |-> w])
  /\ \A c : OneSignIn(c) => TabIsOnePersons([at |-> "rendering", jar |-> c])
  /\ \A m, c : OneSignIn(c) => TabIsOnePersons([at |-> "calling", method |-> m, jar |-> c])
  /\ \A s, m : s \notin {"done", "forbidden"} =>
       TabIsOnePersons([at |-> "answer", status |-> s, method |-> m])
BY DEF TabIsOnePersons, NewTab

\* Signing in and out, and pages that begin to load: an answer sets all cookies or none.
LEMMA SignInsKeep ==
  ASSUME PortalInv, NEW t \in Tabs,
         \/ LoginLocally(t) \/ LoginAtKeycloak(t) \/ ReturnFromKeycloak(t)
         \/ CheckState(t) \/ ExchangeCode(t) \/ SignOut(t) \/ OpenPage(t)
  PROVE  PortalInv'
<1>0. OneSignIn(jar)
  BY DEF PortalInv
<1>1. CASE LoginLocally(t)
  <2>1. CASE setup.localDev
    <3>1. /\ jar' = [SignedIn(Developer, logins + 1) EXCEPT !.state = jar.state]
          /\ Becomes(t, NewTab)
      BY <1>1, <2>1 DEF LoginLocally, AfterSignIn
    <3> QED BY <3>1, SignsInOne, IdleTabs, TabBecomes
  <2>2. CASE ~ setup.localDev
    BY <1>0, <1>1, <2>2, IdleTabs, TabBecomes DEF LoginLocally
  <2> QED BY <2>1, <2>2
<1>2. CASE LoginAtKeycloak(t)
  BY <1>0, <1>2, StateUpdate, IdleTabs, TabBecomes DEF LoginAtKeycloak
<1>3. CASE ReturnFromKeycloak(t)
  BY <1>0, <1>3, IdleTabs, TabBecomes DEF ReturnFromKeycloak
<1>4. CASE CheckState(t)
  <2>1. tab[t].at = "callback" /\ jar' = jar
    BY <1>4 DEF CheckState
  <2>2. tab[t] = [at |-> "callback", state |-> tab[t].state, who |-> tab[t].who]
    BY <2>1 DEF PortalInv, TabIsOnePersons
  <2>3. [tab[t] EXCEPT !.at = "exchange"] =
          [at |-> "exchange", state |-> tab[t].state, who |-> tab[t].who]
    BY <2>2
  <2>4. \/ Becomes(t, [at |-> "exchange", state |-> tab[t].state, who |-> tab[t].who])
        \/ Becomes(t, [at |-> "failed"])
    BY <1>4, <2>3 DEF CheckState
  <2> QED BY <1>0, <2>1, <2>4, IdleTabs, TabBecomes
<1>5. CASE ExchangeCode(t)
  BY <1>0, <1>5, SignsInOne, IdleTabs, TabBecomes DEF ExchangeCode, AfterSignIn
<1>6. CASE SignOut(t)
  BY <1>6, SignsInOne, IdleTabs, TabBecomes DEF SignOut
<1>7. CASE OpenPage(t)
  BY <1>0, <1>7, IdleTabs, TabBecomes DEF OpenPage
<1> QED BY <1>1, <1>2, <1>3, <1>4, <1>5, <1>6, <1>7

\* The portal's pages and its calls are answered as the session's person.
LEMMA ActsAsSession ==
  ASSUME NEW c, OneSignIn(c), NEW bearer \in {None, c.idToken},
         ActsAs(bearer, c.session) # "nobody"
  PROVE  ActsAs(bearer, c.session) = c.session.who
BY DEF ActsAs, OneSignIn

\* Pages and calls are answered for the session that sent the cookies, and the token that
\* goes with a session is that session's.
LEMMA AnswersKeep ==
  ASSUME PortalInv, NEW t \in Tabs, RenderPage(t) \/ CallApi(t) \/ AnswerCall(t)
  PROVE  PortalInv'
<1>0. OneSignIn(jar) /\ TabIsOnePersons(tab[t])
  BY DEF PortalInv
<1>1. CASE RenderPage(t)
  <2> DEFINE c == tab[t].jar
             as == ActsAs(c.idToken, c.session)
  <2>1. /\ tab[t].at = "rendering" /\ jar' = jar
        /\ \/ as # "nobody" /\ Becomes(t, [at |-> "page", as |-> as, jar |-> c])
           \/ Becomes(t, [at |-> "error"])
    BY <1>1 DEF RenderPage
  <2>2. OneSignIn(c)
    BY <1>0, <2>1 DEF TabIsOnePersons
  <2>3. as # "nobody" => as = c.session.who
    BY <2>2, ActsAsSession
  <2> HIDE DEF as, c
  <2>4. as # "nobody" => TabIsOnePersons([at |-> "page", as |-> as, jar |-> c])
    BY <2>3 DEF TabIsOnePersons
  <2> QED BY <1>0, <2>1, <2>4, IdleTabs, TabBecomes
<1>2. CASE CallApi(t)
  BY <1>0, <1>2, IdleTabs, TabBecomes DEF CallApi
<1>3. CASE AnswerCall(t)
  <2> DEFINE c == tab[t].jar
             as == ActsAs(Bearer(c), c.session)
             m == tab[t].method
  <2>1. /\ tab[t].at = "calling" /\ jar' = jar
        /\ \/ Becomes(t, [at |-> "answer", status |-> "unavailable", method |-> m])
           \/ ~ PassesCsrf(m, c) /\ Becomes(t, [at |-> "answer", status |-> "forbidden", method |-> m])
           \/ Becomes(t, [at |-> "answer", status |-> "unauthorized", method |-> m])
           \/ /\ as # "nobody"
              /\ Becomes(t, [at |-> "answer", status |-> "done", method |-> m, as |-> as, jar |-> c])
    BY <1>3 DEF AnswerCall
  <2>2. OneSignIn(c)
    BY <1>0, <2>1 DEF TabIsOnePersons
  <2>3. as # "nobody" => as = c.session.who
    BY <2>2, ActsAsSession DEF Bearer
  <2>4. PassesCsrf(m, c)
    BY <2>2 DEF PassesCsrf, OneSignIn
  <2> HIDE DEF as, c, m
  <2>5. as # "nobody" =>
          TabIsOnePersons([at |-> "answer", status |-> "done", method |-> m, as |-> as, jar |-> c])
    BY <2>3 DEF TabIsOnePersons
  <2> QED BY <1>0, <2>1, <2>4, <2>5, IdleTabs, TabBecomes
<1> QED BY <1>1, <1>2, <1>3

\* Every step of the browser keeps the invariant.
LEMMA NextPortalInv == PortalInv /\ [PortalNext]_portalVars => PortalInv'
<1>1. ASSUME PortalInv, NEW n, ExpireToken(n) PROVE PortalInv'
  BY <1>1 DEF ExpireToken, PortalInv
<1>2. PortalInv /\ UNCHANGED portalVars => PortalInv'
  BY DEF PortalInv, portalVars
<1> QED BY <1>1, <1>2, SignInsKeep, AnswersKeep DEF PortalNext

\* The portal keeps its inductive invariant, for every set of tabs and of persons, and every
\* number of sign-ins and calls.
THEOREM PortalInvariant == PortalSpec => []PortalInv
BY InitPortalInv, NextPortalInv, PTL DEF PortalSpec

\* OnePersonPerRequest: session, CSRF token and ID token come from one answer of /api/auth, so
\* that the portal and the API mean the same person and preHandler refuses no change.
THEOREM OnePersonActs == PortalSpec => []OnePersonPerRequest
<1>1. PortalInv => OnePersonPerRequest
  BY DEF PortalInv, TabIsOnePersons, OneSignIn, OnePersonPerRequest
<1> QED BY <1>1, PortalInvariant, PTL

\* Where a tab may be.
TabPlaces ==
  {"new", "login", "keycloak", "callback", "exchange", "failed", "rendering", "page", "calling", "answer", "error"}

\* A cookie of a sign-in, the cookies, and a tab, when so many logins have begun.
CookieOf(c, n) == c = None \/ (c.n \in 1 .. n /\ c.who \in Persons \union {Developer})
JarOf(j, n) ==
  /\ j.csrf \in 0 .. n /\ j.state \in 0 .. n /\ CookieOf(j.session, n) /\ CookieOf(j.idToken, n)
TabOf(r, n) ==
  /\ r.at \in TabPlaces
  /\ r.at \in {"keycloak", "callback", "exchange"} => r.state \in 1 .. n
  /\ r.at = "callback" => r = [at |-> "callback", state |-> r.state, who |-> r.who]
  /\ r.at = "callback" => r.who \in Persons \union {"error"}
  /\ r.at = "exchange" => r.who \in Persons

\* What PortalInv does not speak of.
PortalRest ==
  /\ setup \in [keycloak : BOOLEAN, localDev : BOOLEAN]
  /\ logins \in 0 .. MaxSignIns /\ calls \in 0 .. MaxCalls
  /\ old \subseteq 1 .. logins
  /\ JarOf(jar, logins)
  /\ \A t \in Tabs : TabOf(tab[t], logins)

\* More logins leave what there is.
LEMMA MoreLogins ==
  ASSUME NEW n \in Nat, NEW m \in Nat, n <= m
  PROVE  /\ \A j : JarOf(j, n) => JarOf(j, m)
         /\ \A r : TabOf(r, n) => TabOf(r, m)
<1>1. 1 .. n \subseteq 1 .. m /\ 0 .. n \subseteq 0 .. m
  OBVIOUS
<1>2. \A c : CookieOf(c, n) => CookieOf(c, m)
  BY <1>1, Zenon DEF CookieOf
<1>3. \A j : JarOf(j, n) => JarOf(j, m)
  BY <1>1, <1>2, Zenon DEF JarOf
<1>4. \A r : TabOf(r, n) => TabOf(r, m)
  BY <1>1, Zenon DEF TabOf
<1> QED BY <1>3, <1>4

\* The cookies of a sign-in.
LEMMA SignInJar ==
  ASSUME NEW n \in Nat, NEW k \in 1 .. n, NEW who \in Persons \union {Developer}
  PROVE  /\ JarOf(AfterSignIn(who, k), n)
         /\ \A s \in 0 .. n : JarOf([AfterSignIn(who, k) EXCEPT !.state = s], n)
<1> DEFINE id == IF who = Developer THEN None ELSE [who |-> who, n |-> k]
<1>1. AfterSignIn(who, k) = [session |-> [who |-> who, n |-> k], csrf |-> k, idToken |-> id, state |-> 0]
  BY DEF AfterSignIn, SignedIn
<1>2. CookieOf([who |-> who, n |-> k], n)
  BY DEF CookieOf
<1>3. CookieOf(id, n)
  BY <1>2 DEF CookieOf
<1> HIDE DEF id
<1>4. k \in 0 .. n /\ 0 \in 0 .. n
  OBVIOUS
<1> QED BY <1>1, <1>2, <1>3, <1>4 DEF JarOf

\* Every step of the browser keeps the cookies and tabs typed.
LEMMA PortalRestKeeps == PortalInv /\ PortalRest /\ [PortalNext]_portalVars => PortalRest'
<1> SUFFICES ASSUME PortalInv, PortalRest, [PortalNext]_portalVars PROVE PortalRest'
  OBVIOUS
<1>0. /\ setup \in [keycloak : BOOLEAN, localDev : BOOLEAN]
      /\ logins \in 0 .. MaxSignIns /\ calls \in 0 .. MaxCalls
      /\ old \subseteq 1 .. logins
      /\ JarOf(jar, logins)
      /\ \A t \in Tabs : TabOf(tab[t], logins)
      /\ logins \in Nat
  BY PortalAssumption DEF PortalRest
<1>1. setup' = setup /\ DOMAIN tab = Tabs
  BY DEF PortalInv, PortalNext, LoginLocally, LoginAtKeycloak, ReturnFromKeycloak, CheckState, ExchangeCode,
     SignOut, OpenPage, RenderPage, CallApi, AnswerCall, ExpireToken, portalVars
\* A tab changes, and what else may.
<1>2. ASSUME NEW t \in Tabs, NEW r, Becomes(t, r), TabOf(r, logins'), logins' \in logins .. MaxSignIns,
             calls' \in 0 .. MaxCalls, old' = old, JarOf(jar', logins')
      PROVE  PortalRest'
  <2>1. logins' \in Nat /\ logins <= logins' /\ logins' \in 0 .. MaxSignIns
    BY <1>0, <1>2, PortalAssumption
  <2>2. \A u \in Tabs : TabOf(tab'[u], logins')
    <3>1. \A u \in Tabs \ {t} : TabOf(tab[u], logins')
      BY <1>0, <2>1, MoreLogins
    <3>2. tab'[t] = r /\ \A u \in Tabs \ {t} : tab'[u] = tab[u]
      BY <1>1, <1>2 DEF Becomes
    <3> QED BY <1>2, <3>1, <3>2
  <2>3. old' \subseteq 1 .. logins'
    BY <1>0, <1>2, <2>1
  <2> QED BY <1>0, <1>1, <1>2, <2>1, <2>2, <2>3 DEF PortalRest
<1>3. logins \in logins .. MaxSignIns /\ (logins < MaxSignIns => logins + 1 \in logins .. MaxSignIns)
  BY <1>0, PortalAssumption
<1>4. ASSUME NEW r, r.at \in {"new", "login", "failed", "error", "rendering", "page", "calling", "answer"}, NEW n
      PROVE  TabOf(r, n)
  BY <1>4 DEF TabOf, TabPlaces
<1>5. ASSUME NEW t \in Tabs, LoginLocally(t) PROVE PortalRest'
  <2>1. CASE setup.localDev
    <3>1. /\ jar' = [AfterSignIn(Developer, logins + 1) EXCEPT !.state = jar.state] /\ logins' = logins + 1
          /\ logins < MaxSignIns /\ Becomes(t, NewTab) /\ old' = old /\ calls' = calls
      BY <1>5, <2>1 DEF LoginLocally
    <3>2. jar.state \in 0 .. logins + 1 /\ logins + 1 \in 1 .. logins + 1 /\ logins + 1 \in Nat
      BY <1>0 DEF JarOf
    <3>3. JarOf(jar', logins')
      BY <3>1, <3>2, SignInJar
    <3> QED BY <1>0, <1>2, <1>3, <1>4, <3>1, <3>3 DEF NewTab
  <2>2. CASE ~ setup.localDev
    <3>1. /\ Becomes(t, [at |-> "failed"]) /\ jar' = jar /\ logins' = logins /\ old' = old /\ calls' = calls
      BY <1>5, <2>2 DEF LoginLocally
    <3>2. TabOf([at |-> "failed"], logins')
      BY <1>4
    <3> QED BY <1>0, <1>2, <1>3, <3>1, <3>2
  <2> QED BY <2>1, <2>2
<1>6. ASSUME NEW t \in Tabs, LoginAtKeycloak(t) PROVE PortalRest'
  <2>1. /\ jar' = [jar EXCEPT !.state = logins + 1] /\ logins' = logins + 1 /\ logins < MaxSignIns
        /\ Becomes(t, [at |-> "keycloak", state |-> logins + 1]) /\ old' = old /\ calls' = calls
    BY <1>6 DEF LoginAtKeycloak
  <2>2. TabOf([at |-> "keycloak", state |-> logins + 1], logins')
    BY <1>0, <2>1 DEF TabOf, TabPlaces
  <2>3. JarOf(jar, logins')
    BY <1>0, <2>1, MoreLogins
  <2>4. jar = [session |-> jar.session, csrf |-> jar.csrf, idToken |-> jar.idToken, state |-> jar.state]
    BY DEF PortalInv, OneSignIn
  <2>5. jar' = [session |-> jar.session, csrf |-> jar.csrf, idToken |-> jar.idToken, state |-> logins + 1]
    BY <2>1, <2>4
  <2>6. logins + 1 \in 0 .. logins'
    BY <1>0, <2>1
  <2>7. JarOf(jar', logins')
    BY <2>3, <2>5, <2>6 DEF JarOf
  <2> QED BY <1>0, <1>2, <1>3, <2>1, <2>2, <2>7
<1>7. ASSUME NEW t \in Tabs, ReturnFromKeycloak(t) PROVE PortalRest'
  <2>1. PICK who \in Persons \union {"error"} : Becomes(t, [at |-> "callback", state |-> tab[t].state, who |-> who])
    BY <1>7 DEF ReturnFromKeycloak
  <2>2. tab[t].state \in 1 .. logins
    BY <1>0, <1>7 DEF ReturnFromKeycloak, TabOf
  <2>3. TabOf([at |-> "callback", state |-> tab[t].state, who |-> who], logins)
    BY <2>2 DEF TabOf, TabPlaces
  <2>4. UNCHANGED <<jar, old, logins, calls>>
    BY <1>7 DEF ReturnFromKeycloak
  <2> QED BY <1>0, <1>2, <1>3, <2>1, <2>3, <2>4
<1>8. ASSUME NEW t \in Tabs, CheckState(t) PROVE PortalRest'
  <2>1. UNCHANGED <<jar, old, logins, calls>> /\ tab[t].at = "callback"
    BY <1>8 DEF CheckState
  <2>2. CASE tab[t].who # "error" /\ Becomes(t, [tab[t] EXCEPT !.at = "exchange"])
    <3>0. tab[t] = [at |-> "callback", state |-> tab[t].state, who |-> tab[t].who]
      BY <1>0, <2>1 DEF TabOf
    <3>1. [tab[t] EXCEPT !.at = "exchange"] = [at |-> "exchange", state |-> tab[t].state, who |-> tab[t].who]
      <4> DEFINE st == tab[t].state
                 w == tab[t].who
                 r0 == tab[t]
      <4>1. r0 = [at |-> "callback", state |-> st, who |-> w]
        BY <3>0
      <4> HIDE DEF st, w, r0
      <4>2. [r0 EXCEPT !.at = "exchange"] = [at |-> "exchange", state |-> st, who |-> w]
        BY <4>1
      <4> QED BY <4>2 DEF st, w, r0
    <3>2. tab[t].state \in 1 .. logins /\ tab[t].who \in Persons
      BY <1>0, <2>1, <2>2 DEF TabOf
    <3>3. TabOf([at |-> "exchange", state |-> tab[t].state, who |-> tab[t].who], logins)
      BY <3>2 DEF TabOf, TabPlaces
    <3> QED BY <1>0, <1>2, <1>3, <2>1, <2>2, <3>1, <3>3
  <2>3. CASE Becomes(t, [at |-> "failed"])
    BY <1>0, <1>2, <1>3, <1>4, <2>1, <2>3
  <2> QED BY <1>8, <2>2, <2>3 DEF CheckState
<1>9. ASSUME NEW t \in Tabs, ExchangeCode(t) PROVE PortalRest'
  <2>1. tab[t].state \in 1 .. logins /\ tab[t].who \in Persons
    BY <1>0, <1>9 DEF ExchangeCode, TabOf
  <2>2. /\ UNCHANGED <<old, logins, calls>>
        /\ jar' = jar \/ \E who \in Persons \union {Developer} : jar' = AfterSignIn(who, tab[t].state)
        /\ \E r \in {NewTab, [at |-> "failed"], [at |-> "error"]} : Becomes(t, r)
    BY <1>9, <2>1 DEF ExchangeCode
  <2>3. JarOf(jar', logins')
    BY <1>0, <2>1, <2>2, SignInJar
  <2>4. \A r \in {NewTab, [at |-> "failed"], [at |-> "error"]} : TabOf(r, logins')
    BY <1>4 DEF NewTab
  <2> QED BY <1>0, <1>2, <1>3, <2>2, <2>3, <2>4
<1>10. ASSUME NEW t \in Tabs, SignOut(t) PROVE PortalRest'
  <2>1. jar' = NoCookies /\ Becomes(t, NewTab) /\ UNCHANGED <<old, logins, calls>>
    BY <1>10 DEF SignOut
  <2>2. JarOf(NoCookies, logins)
    BY <1>0 DEF NoCookies, JarOf, CookieOf
  <2> QED BY <1>0, <1>2, <1>3, <1>4, <2>1, <2>2 DEF NewTab
<1>11. ASSUME NEW t \in Tabs, OpenPage(t) \/ RenderPage(t) \/ CallApi(t) \/ AnswerCall(t) PROVE PortalRest'
  <2>1. UNCHANGED <<jar, old, logins>> /\ calls' \in 0 .. MaxCalls
    <3>1. calls' = calls \/ (calls < MaxCalls /\ calls' = calls + 1)
      BY <1>11 DEF OpenPage, RenderPage, CallApi, AnswerCall
    <3>2. calls' \in 0 .. MaxCalls
      BY <1>0, <3>1, PortalAssumption
    <3> QED BY <1>11, <3>2 DEF OpenPage, RenderPage, CallApi, AnswerCall
  <2>2. \E r : Becomes(t, r) /\ r.at \in {"login", "rendering", "page", "error", "calling", "answer"}
    <3>1. CASE OpenPage(t)
      BY <3>1 DEF OpenPage
    <3>2. CASE RenderPage(t)
      BY <3>2 DEF RenderPage
    <3>3. CASE CallApi(t)
      <4>1. PICK m \in Methods :
              Becomes(t, IF m \in Proxied
                         THEN [at |-> "calling", method |-> m, jar |-> jar]
                         ELSE [at |-> "answer", status |-> "not allowed", method |-> m])
        BY <3>3 DEF CallApi
      <4>2. CASE m \in Proxied
        BY <4>1, <4>2
      <4>3. CASE m \notin Proxied
        <5> DEFINE no == [at |-> "answer", status |-> "not allowed", method |-> m]
        <5>1. Becomes(t, no)
          BY <4>1, <4>3
        <5>2. no.at = "answer"
          OBVIOUS
        <5> QED BY <5>1, <5>2
      <4> QED BY <4>2, <4>3
    <3>4. CASE AnswerCall(t)
      BY <3>4 DEF AnswerCall
    <3> QED BY <1>11, <3>1, <3>2, <3>3, <3>4
  <2>3. PICK r : Becomes(t, r) /\ r.at \in {"login", "rendering", "page", "error", "calling", "answer"}
    BY <2>2
  <2>4. TabOf(r, logins)
    BY <1>4, <2>3
  <2> QED BY <1>0, <1>2, <1>3, <2>1, <2>3, <2>4
<1>12. ASSUME NEW n \in 1 .. logins, ExpireToken(n) PROVE PortalRest'
  BY <1>0, <1>1, <1>12 DEF ExpireToken, PortalRest
<1>13. CASE UNCHANGED portalVars
  BY <1>0, <1>13 DEF portalVars, PortalRest
<1> QED BY <1>5, <1>6, <1>7, <1>8, <1>9, <1>10, <1>11, <1>12, <1>13 DEF PortalNext

\* PortalType: cookies are of sign-ins that have begun, however many the portal allows.
THEOREM PortalTypes == PortalSpec => []PortalType
<1>1. ASSUME PortalInit PROVE PortalRest
  <2>1. 0 \in 0 .. MaxSignIns /\ 0 \in 0 .. MaxCalls /\ 0 \in 0 .. 0
    BY PortalAssumption
  <2>2. \A t \in Tabs : TabOf(tab[t], logins)
    BY <1>1 DEF PortalInit, NewTab, TabOf, TabPlaces
  <2>3. JarOf(jar, logins)
    BY <1>1 DEF PortalInit, NoCookies, JarOf, CookieOf
  <2> QED BY <1>1, <2>1, <2>2, <2>3 DEF PortalInit, PortalRest
<1>2. ASSUME PortalRest PROVE PortalType
  <2>1. \A t \in Tabs : tab[t].at \in TabPlaces
    BY <1>2 DEF PortalRest, TabOf
  <2>2. /\ {jar.csrf, jar.state} \subseteq 0 .. logins
        /\ \A c \in {jar.session, jar.idToken} :
             c = None \/ (c.n \in 1 .. logins /\ c.who \in Persons \union {Developer})
    BY <1>2 DEF PortalRest, JarOf, CookieOf
  <2> QED BY <1>2, <2>1, <2>2 DEF PortalRest, PortalType, TabPlaces
<1> QED BY <1>1, <1>2, PortalRestKeeps, PortalInvariant, PTL DEF PortalSpec

-----------------------------------------------------------------------------
(* The page of a job *)

\* One job, and one browser that has its page open.
ConsoleSpec == ConsoleInit /\ [][ConsoleNext]_consoleVars

\* Statuses of the job.
ShownStatuses == JobEndings \union {"running"}
\* What a page may show, and what a fetch may answer.
ShownPages   == [status : ShownStatuses, rows : SUBSET Nat, step : Nat]

\* A page that was right once: it has the first rows, and all if it says how the job ended.
WasTrue(page) ==
  /\ page \in ShownPages
  /\ \E n \in 0 .. rows : page.rows = 1 .. n /\ page.step = n
  /\ page.status \in JobEndings => page = Truth

\* The events on their way: rows that follow those taken, at most one change of the status,
\* and the end, which comes last and only after all rows.
OnTheirWay(events, taken, n) ==
  /\ \A i \in 1 .. Len(events) :
       /\ events[i].is = "row" <=> i <= n
       /\ i <= n => events[i].value = taken + i
       /\ i > n => events[i].value \in ShownStatuses
       /\ events[i].is = "complete" =>
            /\ i = Len(events) /\ jobState \in JobEndings /\ stream.sent = rows
            /\ events[i].value = jobState

\* What a page shows that follows the job: k rows of the fetch, and those taken of the stream.
Follows ==
  \E k \in 0 .. rows : \E n \in 0 .. Len(stream.events) :
    /\ n <= stream.sent
    /\ OnTheirWay(stream.events, stream.sent - n, n)
    /\ shown.rows = (1 .. k) \union (1 .. (stream.sent - n))
    /\ shown.step = IF stream.sent - n = 0 THEN k ELSE stream.sent - n

\* Events of the stream.
EventRecords == [is : {"row", "status", "complete"}, value : Nat \union ShownStatuses]
\* Streams that the API may have open.
Streams      == [sent : Nat, status : ShownStatuses \union {"none"}, events : Seq(EventRecords)]
\* Runs of the effect in AnalysisJobConsole.
EffectRuns == [at : {"none", "asked", "answered", "open", "closed"}, read : ShownPages]

\* Answers were true when they were made, only the current run has a stream open, what it
\* shows follows the job, and a run that ended without an issue shows the end.
ConsoleInv ==
  /\ jobState \in ShownStatuses /\ rows \in Nat /\ issue \in BOOLEAN
  /\ current \in ConsoleRuns /\ effect \in [ConsoleRuns -> EffectRuns] /\ shown \in ShownPages
  /\ \A e \in ConsoleRuns :
       /\ effect[e].at = "answered" => WasTrue(effect[e].read)
       /\ effect[e].at = "open" => e = current
  /\ stream \in Streams /\ stream.sent <= rows
  /\ stream.status = "none" => stream.sent = 0 /\ stream.events = <<>>
  /\ effect[current].at = "open" => Follows
  /\ effect[current].at = "closed" /\ ~ issue => jobState \in JobEndings /\ shown = Truth

\* What an answer says when it is made is true.
LEMMA TruthIsAPage ==
  ASSUME jobState \in ShownStatuses, rows \in Nat
  PROVE  /\ Truth \in ShownPages /\ Truth.status = jobState /\ Truth.rows = 1 .. rows /\ Truth.step = rows
         /\ WasTrue(Truth)
<1>1. /\ Truth \in ShownPages /\ Truth.status = jobState /\ Truth.rows = 1 .. rows /\ Truth.step = rows
  BY DEF Truth, Page, ShownPages
<1>2. rows \in 0 .. rows
  OBVIOUS
<1> QED BY <1>1, <1>2 DEF WasTrue

\* At first one run has asked, and nothing streams.
LEMMA InitConsoleInv == ConsoleInit => ConsoleInv
<1> SUFFICES ASSUME ConsoleInit PROVE ConsoleInv
  OBVIOUS
<1> USE ConsoleAssumption
<1>1. jobState \in ShownStatuses /\ rows \in Nat /\ issue = FALSE /\ current = 1 /\ current \in ConsoleRuns
  BY DEF ConsoleInit, ShownStatuses, ConsoleRuns
<1>2. Truth \in ShownPages
  BY <1>1, TruthIsAPage
<1>3. effect \in [ConsoleRuns -> EffectRuns] /\ \A e \in ConsoleRuns : effect[e].at \in {"asked", "none"}
  <2> DEFINE atFirst(e) == [at |-> IF e = 1 THEN "asked" ELSE "none", read |-> Truth]
  <2>1. \A e : atFirst(e) \in EffectRuns /\ atFirst(e).at \in {"asked", "none"}
    BY <1>2 DEF EffectRuns
  <2>2. effect = [e \in ConsoleRuns |-> atFirst(e)]
    BY DEF ConsoleInit
  <2> HIDE DEF atFirst
  <2> QED BY <2>1, <2>2
<1>4. stream \in Streams /\ stream.sent = 0 /\ stream.events = <<>>
  BY DEF ConsoleInit, NoStream, Streams
<1>5. shown \in ShownPages
  BY <1>2 DEF ConsoleInit
<1>6. shown = Truth /\ stream.sent <= rows
  BY <1>1, <1>4 DEF ConsoleInit
<1>7. ~ (effect[current].at = "closed") /\ ~ (effect[current].at = "open")
  BY <1>1, <1>3
<1>8. stream.status = "none"
  BY DEF ConsoleInit, NoStream
<1>9. \A e \in ConsoleRuns : effect[e].at # "answered" /\ effect[e].at # "open"
  BY <1>3
<1> QED BY <1>1, <1>3, <1>4, <1>5, <1>6, <1>7, <1>8, <1>9 DEF ConsoleInv

\* A page that was true stays so while the job goes on.
LEMMA StaysTrue ==
  ASSUME jobState \in ShownStatuses, rows \in Nat, NEW page, WasTrue(page),
         JobAdvances \/ UNCHANGED <<jobState, rows>>
  PROVE  WasTrue(page)'
<1>1. rows' \in Nat /\ rows <= rows'
  BY DEF JobAdvances
<1>2. \E n \in 0 .. rows' : page.rows = 1 .. n /\ page.step = n
  BY <1>1 DEF WasTrue
<1>3. page.status \in JobEndings => page = Truth'
  BY TruthIsAPage DEF WasTrue, JobAdvances, JobEndings, Truth
<1> QED BY <1>2, <1>3 DEF WasTrue

\* The job goes on: what was true of a job that runs is a part of what is.
LEMMA JobKeeps ==
  ASSUME ConsoleInv, JobAdvances
  PROVE  ConsoleInv'
<1> USE DEF ConsoleInv
<1>1. /\ jobState' \in ShownStatuses /\ rows' \in Nat /\ rows <= rows'
      /\ jobState = "running" /\ UNCHANGED <<effect, current, stream, shown, issue>>
  BY DEF JobAdvances, ShownStatuses
<1>2. \A e \in ConsoleRuns : effect'[e].at = "answered" => WasTrue(effect[e].read)'
  BY <1>1, StaysTrue
<1>3. jobState \notin JobEndings
  BY <1>1 DEF JobEndings
<1>4. effect'[current'].at = "open" => Follows'
  <2> SUFFICES ASSUME effect'[current'].at = "open" PROVE Follows'
    OBVIOUS
  <2>1. Follows
    BY <1>1
  <2>2. PICK k \in 0 .. rows, n \in 0 .. Len(stream.events) :
          /\ n <= stream.sent
          /\ OnTheirWay(stream.events, stream.sent - n, n)
          /\ shown.rows = (1 .. k) \union (1 .. (stream.sent - n))
          /\ shown.step = IF stream.sent - n = 0 THEN k ELSE stream.sent - n
    BY <2>1 DEF Follows
  <2>3. k \in 0 .. rows'
    BY <1>1
  <2>4. OnTheirWay(stream.events, stream.sent - n, n)'
    BY <1>1, <1>3, <2>2 DEF OnTheirWay
  <2> QED BY <1>1, <2>2, <2>3, <2>4 DEF Follows
<1>5. stream' \in Streams /\ stream'.sent <= rows'
  BY <1>1 DEF Streams
<1> QED BY <1>1, <1>2, <1>3, <1>4, <1>5

\* A step that changes one run of the effect to something else than open.
LEMMA RunChanges ==
  ASSUME ConsoleInv, NEW e \in ConsoleRuns, NEW r \in EffectRuns,
         effect' = [effect EXCEPT ![e] = r], UNCHANGED <<jobState, rows>>
  PROVE  /\ effect' \in [ConsoleRuns -> EffectRuns] /\ effect'[e] = r
         /\ \A f \in ConsoleRuns \ {e} : effect'[f] = effect[f]
         /\ \A f \in ConsoleRuns \ {e} : (effect[f].at = "answered")' => WasTrue(effect[f].read)'
<1>1. /\ effect' \in [ConsoleRuns -> EffectRuns] /\ effect'[e] = r
      /\ \A f \in ConsoleRuns \ {e} : effect'[f] = effect[f]
  BY DEF ConsoleInv
<1>2. ASSUME NEW f \in ConsoleRuns \ {e}, effect'[f].at = "answered" PROVE WasTrue(effect[f].read)'
  <2>1. WasTrue(effect[f].read) /\ effect'[f] = effect[f]
    BY <1>1, <1>2 DEF ConsoleInv
  <2> QED BY <2>1 DEF WasTrue, Truth
<1> QED BY <1>1, <1>2

\* Nothing that Follows speaks of changes.
LEMMA FollowsStill ==
  ASSUME Follows, UNCHANGED <<jobState, rows, stream, shown>>
  PROVE  Follows'
BY DEF Follows, OnTheirWay

\* A fetch that is answered, or the answer comes too late, or it fails.
LEMMA FetchesKeep ==
  ASSUME ConsoleInv, NEW e \in ConsoleRuns,
         \/ AnswerFetch(e) \/ FetchFails(e)
         \/ TakeAnswer(e) /\ e # current
  PROVE  ConsoleInv'
<1> DEFINE next == IF AnswerFetch(e) THEN [at |-> "answered", read |-> Truth]
                   ELSE [effect[e] EXCEPT !.at = "closed"]
<1>1. /\ effect[e] \in EffectRuns /\ effect[e].at \in {"asked", "answered"}
      /\ jobState \in ShownStatuses /\ rows \in Nat
  BY DEF ConsoleInv, AnswerFetch, FetchFails, TakeAnswer
<1>2. /\ effect' = [effect EXCEPT ![e] = next]
      /\ UNCHANGED <<jobState, rows, current, stream, shown>>
      /\ issue' = (issue \/ (e = current /\ FetchFails(e))) \/ (issue' = issue /\ ~ FetchFails(e))
  BY DEF AnswerFetch, FetchFails, TakeAnswer
<1>3. /\ next \in EffectRuns /\ next.at \in {"answered", "closed"}
      /\ next.at = "answered" => next.read = Truth
  BY <1>1, TruthIsAPage DEF EffectRuns
<1>4. e = current /\ next.at = "closed" => issue'
  BY DEF AnswerFetch, FetchFails, TakeAnswer
<1>5. issue' \in BOOLEAN /\ (~ issue' => ~ issue)
  BY DEF AnswerFetch, FetchFails, TakeAnswer, ConsoleInv
<1> HIDE DEF next
<1>6. /\ effect' \in [ConsoleRuns -> EffectRuns] /\ effect'[e] = next
      /\ \A f \in ConsoleRuns \ {e} : effect'[f] = effect[f]
      /\ \A f \in ConsoleRuns \ {e} : (effect[f].at = "answered")' => WasTrue(effect[f].read)'
  BY <1>2, <1>3, RunChanges
<1>7. next.at = "answered" => WasTrue(effect[e].read)'
  <2>1. WasTrue(Truth)
    BY <1>1, TruthIsAPage
  <2>2. WasTrue(Truth)'
    BY <2>1, <1>2 DEF WasTrue, Truth
  <2>3. Truth' = Truth
    BY <1>2 DEF Truth
  <2> QED BY <2>2, <2>3, <1>3, <1>6 DEF WasTrue
<1>8. \A f \in ConsoleRuns : (effect[f].at = "answered")' => WasTrue(effect[f].read)'
  BY <1>6, <1>7
<1>9. \A f \in ConsoleRuns : effect'[f].at = "open" => f = current' /\ effect[f].at = "open"
  BY <1>2, <1>3, <1>6 DEF ConsoleInv
<1>10. effect'[current'].at = "open" => Follows'
  BY <1>2, <1>9, FollowsStill DEF ConsoleInv
<1>11. effect'[current'].at = "closed" /\ ~ issue' => jobState' \in JobEndings /\ shown' = Truth'
  BY <1>2, <1>4, <1>5, <1>6 DEF ConsoleInv, Truth
<1>12. stream' \in Streams /\ stream'.sent <= rows' /\ shown' \in ShownPages
  BY <1>2 DEF ConsoleInv
<1>13. stream'.status = "none" => stream'.sent = 0 /\ stream'.events = <<>>
  BY <1>2 DEF ConsoleInv
<1> QED BY <1>1, <1>2, <1>5, <1>6, <1>8, <1>9, <1>10, <1>11, <1>12, <1>13 DEF ConsoleInv

\* Without a stream nothing is on its way.
LEMMA NoStreamYet ==
  /\ NoStream \in Streams /\ NoStream.sent = 0 /\ NoStream.status = "none"
  /\ NoStream.events = <<>>
BY DEF NoStream, Streams

\* The current run takes its answer: it has ended with the job, or opens a stream.
LEMMA AnswerTakenKeeps ==
  ASSUME ConsoleInv, TakeAnswer(current)
  PROVE  ConsoleInv'
<1> DEFINE e == current
           page == effect[e].read
           next == [effect[e] EXCEPT !.at = IF page.status \in JobEndings THEN "closed" ELSE "open"]
<1>1. /\ e \in ConsoleRuns /\ effect[e] \in EffectRuns /\ effect[e].at = "answered"
      /\ jobState \in ShownStatuses /\ rows \in Nat /\ WasTrue(page)
  BY DEF ConsoleInv, TakeAnswer
<1>2. /\ effect' = [effect EXCEPT ![e] = next] /\ shown' = page /\ issue' = FALSE
      /\ stream' = NoStream /\ UNCHANGED <<jobState, rows, current>>
  BY DEF TakeAnswer, Follow
<1>3. /\ next \in EffectRuns /\ next.at \in {"open", "closed"}
      /\ next.at = "closed" => page.status \in JobEndings
  BY <1>1 DEF EffectRuns
<1> HIDE DEF next
<1>4. /\ effect' \in [ConsoleRuns -> EffectRuns] /\ effect'[e] = next
      /\ \A f \in ConsoleRuns \ {e} : effect'[f] = effect[f]
      /\ \A f \in ConsoleRuns \ {e} : (effect[f].at = "answered")' => WasTrue(effect[f].read)'
  BY <1>1, <1>2, <1>3, RunChanges
<1>5. next.at = "closed" => jobState' \in JobEndings /\ shown' = Truth'
  <2>1. Truth' = Truth
    BY <1>2 DEF Truth
  <2> QED BY <2>1, <1>1, <1>2, <1>3, TruthIsAPage DEF WasTrue
<1>6. Follows'
  <2>1. PICK k \in 0 .. rows : page.rows = 1 .. k /\ page.step = k
    BY <1>1 DEF WasTrue
  <2>2. stream'.events = <<>> /\ stream'.sent = 0 /\ Len(stream'.events) = 0
    BY <1>2, NoStreamYet
  <2>3. OnTheirWay(stream.events, stream.sent - 0, 0)'
    BY <2>2 DEF OnTheirWay
  <2>4. shown'.rows = (1 .. k) \union (1 .. (stream'.sent - 0)) /\ shown'.step = k
    BY <1>2, <2>1, <2>2
  <2> QED BY <1>2, <2>1, <2>2, <2>3, <2>4 DEF Follows
<1>7. \A f \in ConsoleRuns : effect'[f].at = "open" => f = current'
  BY <1>2, <1>4 DEF ConsoleInv
<1>8. \A f \in ConsoleRuns : (effect[f].at = "answered")' => WasTrue(effect[f].read)'
  BY <1>3, <1>4
<1>9. page \in ShownPages
  BY <1>1 DEF WasTrue
<1>10. effect'[current'].at = "closed" => jobState' \in JobEndings /\ shown' = Truth'
  BY <1>2, <1>4, <1>5
<1>11. /\ jobState' \in ShownStatuses /\ rows' \in Nat /\ issue' \in BOOLEAN
       /\ current' \in ConsoleRuns /\ effect' \in [ConsoleRuns -> EffectRuns] /\ shown' \in ShownPages
  BY <1>1, <1>2, <1>4, <1>9
<1>12. /\ stream' \in Streams /\ stream'.sent <= rows'
       /\ stream'.status = "none" => stream'.sent = 0 /\ stream'.events = <<>>
  BY <1>1, <1>2, NoStreamYet
<1> HIDE DEF page, e
<1> QED BY <1>6, <1>7, <1>8, <1>10, <1>11, <1>12 DEF ConsoleInv

\* The server's side of the stream: only what is on its way changes.
LEMMA StreamStep ==
  ASSUME ConsoleInv, effect[current].at = "open", stream' \in Streams, stream'.sent <= rows,
         stream'.status # "none", Follows',
         UNCHANGED <<jobState, rows, effect, current, shown, issue>>
  PROVE  ConsoleInv'
BY DEF ConsoleInv, WasTrue, Truth

\* A stream that opens has nothing on its way.
LEMMA OpenKeeps ==
  ASSUME ConsoleInv, OpenStream
  PROVE  ConsoleInv'
<1> DEFINE event == [is |-> "status", value |-> jobState]
<1>1. /\ effect[current].at = "open" /\ stream.status = "none" /\ stream.sent = 0
      /\ stream.events = <<>> /\ jobState \in ShownStatuses /\ rows \in Nat /\ Follows
      /\ stream' = [stream EXCEPT !.status = jobState, !.events = <<event>>]
      /\ UNCHANGED <<jobState, rows, effect, current, shown, issue>>
  BY DEF ConsoleInv, OpenStream
<1>2. event \in EventRecords /\ event.is = "status" /\ event.value = jobState
  BY <1>1 DEF EventRecords
<1> HIDE DEF event
<1>3. <<event>> \in Seq(EventRecords) /\ Len(<<event>>) = 1 /\ <<event>>[1] = event
  BY <1>2
<1>4. /\ stream' \in Streams /\ stream'.sent = 0 /\ stream'.status = jobState
      /\ stream'.events = <<event>>
  BY <1>1, <1>3 DEF ConsoleInv, Streams
<1>5. Follows'
  <2>1. PICK k \in 0 .. rows : shown.rows = (1 .. k) \union (1 .. 0) /\ shown.step = k
    BY <1>1 DEF Follows
  <2>2. OnTheirWay(stream.events, stream.sent - 0, 0)'
    BY <1>2, <1>3, <1>4, <1>1 DEF OnTheirWay
  <2>3. shown'.rows = (1 .. k) \union (1 .. (stream'.sent - 0)) /\ shown'.step = k
    BY <1>1, <1>4, <2>1
  <2> QED BY <1>1, <1>3, <1>4, <2>1, <2>2, <2>3 DEF Follows
<1>6. stream'.status # "none" /\ stream'.sent <= rows
  BY <1>1, <1>4 DEF ShownStatuses, JobEndings
<1> QED BY <1>1, <1>4, <1>5, <1>6, StreamStep

\* What a poll sends: the new rows, then perhaps the status, then perhaps the end.
LEMMA PollSends ==
  ASSUME jobState \in ShownStatuses, rows \in Nat, NEW sent \in 0 .. rows,
         NEW changed \in BOOLEAN,
         NEW events,
         events = [i \in 1 .. rows - sent |-> [is |-> "row", value |-> sent + i]]
                  \o (IF changed THEN <<[is |-> "status", value |-> jobState]>> ELSE <<>>)
                  \o (IF jobState \in JobEndings THEN <<[is |-> "complete", value |-> jobState]>>
                      ELSE <<>>),
         stream'.sent = rows, UNCHANGED <<jobState, rows>>
  PROVE  /\ events \in Seq(EventRecords) /\ rows - sent \in 0 .. Len(events)
         /\ \A i \in 1 .. Len(events) :
              /\ events[i].is = "row" <=> i <= rows - sent
              /\ i <= rows - sent => events[i].value = sent + i
              /\ i > rows - sent => events[i].value = jobState
              /\ events[i].is = "complete" => i = Len(events) /\ jobState \in JobEndings
<1> DEFINE n == rows - sent
           R == [i \in 1 .. n |-> [is |-> "row", value |-> sent + i]]
           st == [is |-> "status", value |-> jobState]
           co == [is |-> "complete", value |-> jobState]
           S == IF changed THEN <<st>> ELSE <<>>
           T == IF jobState \in JobEndings THEN <<co>> ELSE <<>>
<1>0. n \in Nat
  OBVIOUS
<1>1. \A i \in 1 .. n : [is |-> "row", value |-> sent + i] \in EventRecords
  BY DEF EventRecords
<1>2. R \in Seq(EventRecords) /\ Len(R) = n /\ \A i \in 1 .. n : R[i].is = "row" /\ R[i].value = sent + i
  <2>1. R \in [1 .. n -> EventRecords] /\ \A i \in 1 .. n : R[i].is = "row" /\ R[i].value = sent + i
    BY <1>1
  <2>2. R \in Seq(EventRecords)
    <3>1. [1 .. n -> EventRecords] \in {[1 .. m -> EventRecords] : m \in Nat}
      BY <1>0
    <3>2. Seq(EventRecords) = UNION {[1 .. m -> EventRecords] : m \in Nat}
      BY SeqDef
    <3> QED BY <3>1, <3>2, <2>1, Zenon
  <2>3. Len(R) = n
    BY <1>0, <2>1, <2>2, LenProperties
  <2> QED BY <2>1, <2>2, <2>3
<1>3. /\ st \in EventRecords /\ st.is = "status" /\ st.value = jobState
      /\ co \in EventRecords /\ co.is = "complete" /\ co.value = jobState
  BY DEF EventRecords
<1>4. events = (R \o S) \o T
  OBVIOUS
<1> HIDE DEF n, R, st, co
<1>5. /\ S \in Seq(EventRecords) /\ Len(S) \in 0 .. 1 /\ \A i \in 1 .. Len(S) : S[i] = st
      /\ T \in Seq(EventRecords) /\ Len(T) \in 0 .. 1 /\ \A i \in 1 .. Len(T) : T[i] = co
      /\ Len(T) = 1 => jobState \in JobEndings
  <2>1. \A x \in EventRecords : /\ <<x>> \in Seq(EventRecords) /\ Len(<<x>>) = 1
                                /\ \A i \in 1 .. Len(<<x>>) : <<x>>[i] = x
    OBVIOUS
  <2>2. <<>> \in Seq(EventRecords) /\ Len(<<>>) = 0
    BY EmptySeq
  <2>3. S \in Seq(EventRecords) /\ Len(S) \in 0 .. 1 /\ \A i \in 1 .. Len(S) : S[i] = st
    <3>1. CASE changed
      BY <1>3, <2>1, <3>1
    <3>2. CASE ~ changed
      BY <2>2, <3>2
    <3> QED BY <3>1, <3>2
  <2>4. /\ T \in Seq(EventRecords) /\ Len(T) \in 0 .. 1 /\ \A i \in 1 .. Len(T) : T[i] = co
        /\ Len(T) = 1 => jobState \in JobEndings
    <3>1. CASE jobState \in JobEndings
      BY <1>3, <2>1, <3>1
    <3>2. CASE jobState \notin JobEndings
      BY <2>2, <3>2
    <3> QED BY <3>1, <3>2
  <2> QED BY <2>3, <2>4
<1> HIDE DEF S, T
<1>6. /\ R \o S \in Seq(EventRecords) /\ Len(R \o S) = n + Len(S)
      /\ \A i \in 1 .. n : (R \o S)[i] = R[i]
      /\ \A i \in 1 .. Len(R \o S) : i > n => (R \o S)[i] = st
  <2>1. \A i \in 1 .. Len(R) + Len(S) : (R \o S)[i] = IF i <= Len(R) THEN R[i] ELSE S[i - Len(R)]
    BY <1>2, <1>5, ConcatProperties
  <2>2. R \o S \in Seq(EventRecords) /\ Len(R \o S) = n + Len(S)
    BY <1>2, <1>5, ConcatProperties
  <2>3. \A i \in 1 .. n : (R \o S)[i] = R[i]
    BY <1>0, <1>2, <1>5, <2>1
  <2>4. ASSUME NEW i \in 1 .. Len(R \o S), i > n PROVE (R \o S)[i] = st
    <3>1. i \in 1 .. Len(R) + Len(S) /\ i - Len(R) \in 1 .. Len(S) /\ ~ (i <= Len(R))
      BY <1>0, <1>2, <1>5, <2>2, <2>4
    <3>2. (R \o S)[i] = S[i - Len(R)]
      BY <2>1, <3>1
    <3> QED BY <3>1, <3>2, <1>5
  <2> QED BY <2>2, <2>3, <2>4
<1>7. /\ events \in Seq(EventRecords) /\ Len(events) = n + Len(S) + Len(T)
      /\ \A i \in 1 .. Len(R \o S) : events[i] = (R \o S)[i]
      /\ \A i \in 1 .. Len(events) : i > n + Len(S) => events[i] = co /\ i = Len(events) /\ Len(T) = 1
  <2> DEFINE Q == R \o S
  <2>1. \A i \in 1 .. Len(Q) + Len(T) : (Q \o T)[i] = IF i <= Len(Q) THEN Q[i] ELSE T[i - Len(Q)]
    BY <1>6, <1>5, ConcatProperties
  <2>2. Q \o T \in Seq(EventRecords) /\ Len(Q \o T) = Len(Q) + Len(T)
    BY <1>6, <1>5, ConcatProperties
  <2> HIDE DEF Q
  <2>6. events = Q \o T
    BY <1>4 DEF Q
  <2>7. Q \in Seq(EventRecords) /\ Len(Q) = n + Len(S)
    BY <1>6 DEF Q
  <2>3. events = Q \o T /\ Len(Q) = n + Len(S) /\ Len(Q) \in Nat
    BY <2>6, <2>7, LenProperties
  <2>4. \A i \in 1 .. Len(Q) : events[i] = Q[i]
    <3>1. ASSUME NEW i \in 1 .. Len(Q) PROVE events[i] = Q[i]
      <4>1. i \in 1 .. Len(Q) + Len(T) /\ i <= Len(Q)
        BY <1>5, <2>3
      <4> QED BY <4>1, <2>1, <2>6
    <3> QED BY <3>1
  <2>5. ASSUME NEW i \in 1 .. Len(events), i > Len(Q)
        PROVE  events[i] = co /\ i = Len(events) /\ Len(T) = 1
    <3>1. i \in 1 .. Len(Q) + Len(T) /\ i - Len(Q) \in 1 .. Len(T) /\ ~ (i <= Len(Q))
      <4>1. Len(events) = Len(Q) + Len(T)
        BY <2>2, <2>6
      <4> QED BY <4>1, <1>5, <2>3, <2>5
    <3>2. (Q \o T)[i] = T[i - Len(Q)]
      BY <2>1, <3>1
    <3>3. Len(events) = Len(Q) + Len(T) /\ events[i] = T[i - Len(Q)]
      BY <2>2, <2>6, <3>2
    <3>4. Len(T) = 1 /\ i - Len(Q) = 1
      BY <3>1, <1>5, <2>3
    <3> QED BY <3>1, <3>3, <3>4, <1>5, <2>3
  <2> QED BY <2>2, <2>3, <2>4, <2>5 DEF Q
<1>8. \A i \in 1 .. Len(events) :
        \/ i <= n /\ events[i].is = "row" /\ events[i].value = sent + i
        \/ i > n /\ i <= n + Len(S) /\ events[i] = st
        \/ i > n /\ events[i] = co /\ i = Len(events) /\ jobState \in JobEndings
  <2> TAKE i \in 1 .. Len(events)
  <2>1. i \in Nat /\ Len(S) \in 0 .. 1 /\ Len(R \o S) = n + Len(S)
    BY <1>5, <1>6
  <2>2. CASE i <= n
    <3>1. i \in 1 .. n /\ i \in 1 .. Len(R \o S)
      BY <1>0, <2>1, <2>2
    <3>2. events[i] = (R \o S)[i] /\ (R \o S)[i] = R[i] /\ R[i].is = "row" /\ R[i].value = sent + i
      BY <3>1, <1>2, <1>6, <1>7, Zenon
    <3>3. events[i] = R[i]
      BY <3>2
    <3> QED BY <3>2, <3>3, <2>2, Zenon
  <2>3. CASE i > n /\ i <= n + Len(S)
    <3>1. i \in 1 .. Len(R \o S)
      BY <1>0, <2>1, <2>3
    <3> QED BY <3>1, <1>6, <1>7, <2>3
  <2>4. CASE i > n + Len(S)
    <3>1. i > n
      BY <1>0, <2>1, <2>4
    <3>2. events[i] = co /\ i = Len(events) /\ Len(T) = 1
      BY <1>7, <2>4, Zenon
    <3> QED BY <3>1, <3>2, <1>5
  <2> QED BY <1>0, <2>1, <2>2, <2>3, <2>4
<1>9. n \in 0 .. Len(events)
  BY <1>0, <1>5, <1>7
<1>10. ASSUME NEW i \in 1 .. Len(events)
       PROVE  /\ events[i].is = "row" <=> i <= n
              /\ i <= n => events[i].value = sent + i
              /\ i > n => events[i].value = jobState
              /\ events[i].is = "complete" => i = Len(events) /\ jobState \in JobEndings
  <2>1. i \in Int /\ n \in Int
    BY <1>0
  <2>2. CASE i <= n /\ events[i].is = "row" /\ events[i].value = sent + i
    <3>1. ~ (i > n) /\ "row" # "complete"
      BY <2>1, <2>2
    <3> QED BY <3>1, <2>2, Zenon
  <2>3. CASE i > n /\ events[i] = st
    BY <1>3, <2>1, <2>3
  <2>4. CASE i > n /\ events[i] = co /\ i = Len(events) /\ jobState \in JobEndings
    BY <1>3, <2>1, <2>4
  <2> QED BY <1>8, <2>2, <2>3, <2>4
<1> QED BY <1>7, <1>9, <1>10 DEF n

\* A poll of the API puts the next rows on their way, then a new status, then the end.
LEMMA PollKeeps ==
  ASSUME ConsoleInv, SendEvents
  PROVE  ConsoleInv'
<1>1. /\ effect[current].at = "open" /\ stream.status # "none" /\ stream.sent \in 0 .. rows
      /\ stream.events = <<>> /\ jobState \in ShownStatuses /\ rows \in Nat /\ Follows
      /\ UNCHANGED <<jobState, rows, effect, current, shown, issue>>
  BY DEF ConsoleInv, SendEvents, Streams
<1>2. PICK sent \in 0 .. rows, changed \in BOOLEAN :
        sent = stream.sent /\ changed = (jobState # stream.status)
  BY <1>1
<1>3. PICK events :
        events = [i \in 1 .. rows - sent |-> [is |-> "row", value |-> sent + i]]
                 \o (IF changed THEN <<[is |-> "status", value |-> jobState]>> ELSE <<>>)
                 \o (IF jobState \in JobEndings THEN <<[is |-> "complete", value |-> jobState]>>
                     ELSE <<>>)
  OBVIOUS
<1>4. stream' = [sent |-> rows, status |-> jobState, events |-> events]
  BY <1>2, <1>3 DEF SendEvents
<1>5. stream'.sent = rows /\ stream'.status = jobState /\ stream'.events = events
  BY <1>4
<1>7. /\ events \in Seq(EventRecords) /\ rows - sent \in 0 .. Len(events)
      /\ \A i \in 1 .. Len(events) :
              /\ events[i].is = "row" <=> i <= rows - sent
              /\ i <= rows - sent => events[i].value = sent + i
              /\ i > rows - sent => events[i].value = jobState
              /\ events[i].is = "complete" => i = Len(events) /\ jobState \in JobEndings
  BY <1>1, <1>2, <1>3, <1>5, PollSends
<1>8. PICK k \in 0 .. rows :
        shown.rows = (1 .. k) \union (1 .. sent) /\ shown.step = IF sent = 0 THEN k ELSE sent
  BY <1>1, <1>2 DEF Follows
<1>9. PICK n \in 0 .. Len(events) : n = rows - sent
  BY <1>7
<1>10. OnTheirWay(stream.events, stream.sent - n, n)'
  BY <1>1, <1>2, <1>5, <1>7, <1>9 DEF OnTheirWay
<1>11. rows - n = sent /\ n <= rows
  BY <1>1, <1>2, <1>9
<1>12. Follows'
  BY <1>1, <1>5, <1>8, <1>9, <1>10, <1>11 DEF Follows
<1>13. stream' \in Streams /\ stream'.status # "none" /\ stream'.sent <= rows
  BY <1>1, <1>4, <1>5, <1>7 DEF Streams, ShownStatuses, JobEndings
<1> QED BY <1>1, <1>12, <1>13, StreamStep

\* What is left on its way once the first event has been taken.
LEMMA RestOnItsWay ==
  ASSUME NEW events \in Seq(EventRecords), events # <<>>, NEW taken \in Nat,
         NEW n \in 0 .. Len(events), OnTheirWay(events, taken, n),
         NEW more, NEW left, n > 0 => more = taken + 1 /\ left = n - 1,
         n = 0 => more = taken /\ left = 0
  PROVE  /\ Tail(events) \in Seq(EventRecords) /\ left \in 0 .. Len(Tail(events))
         /\ OnTheirWay(Tail(events), more, left)
<1>1. /\ Tail(events) \in Seq(EventRecords) /\ Len(Tail(events)) = Len(events) - 1
      /\ \A i \in 1 .. Len(Tail(events)) : Tail(events)[i] = events[i + 1]
      /\ Len(events) \in Nat \ {0}
  BY HeadTailProperties, EmptySeq, LenProperties
<1>2. left \in 0 .. Len(Tail(events)) /\ more \in Nat /\ left \in Nat /\ more - taken = n - left
  BY <1>1
<1> DEFINE rest == Tail(events)
<1>3. rest = Tail(events)
  OBVIOUS
<1> HIDE DEF rest
<1>4. ASSUME NEW i \in 1 .. Len(rest)
      PROVE  /\ i + 1 \in 1 .. Len(events) /\ rest[i] = events[i + 1]
             /\ i + 1 <= n <=> i <= left
             /\ i + 1 <= n => taken + (i + 1) = more + i
             /\ i + 1 = Len(events) => i = Len(rest)
  <2>1. i \in Int /\ n \in Int /\ left \in Int /\ more \in Int /\ taken \in Int
    BY <1>2, <1>3, <1>1
  <2>2. i >= 1 /\ i <= Len(events) - 1 /\ Len(rest) = Len(events) - 1 /\ Len(events) \in Int
    BY <1>1, <1>3
  <2>3. rest[i] = events[i + 1]
    BY <1>1, <1>3
  <2>4. i + 1 \in 1 .. Len(events)
    BY <2>1, <2>2
  <2>5. i + 1 <= n <=> i <= left
    <3>1. CASE n > 0
      BY <2>1, <2>2, <3>1
    <3>2. CASE n = 0
      BY <2>1, <2>2, <3>2
    <3> QED BY <3>1, <3>2
  <2>6. i + 1 <= n => taken + (i + 1) = more + i
    BY <2>1, <2>2, <1>2
  <2>7. i + 1 = Len(events) => i = Len(rest)
    BY <2>1, <2>2
  <2> QED BY <2>3, <2>4, <2>5, <2>6, <2>7
<1>5. ASSUME NEW i \in 1 .. Len(rest)
      PROVE  /\ rest[i].is = "row" <=> i <= left
             /\ i <= left => rest[i].value = more + i
             /\ i > left => rest[i].value \in ShownStatuses
             /\ rest[i].is = "complete" =>
                  /\ i = Len(rest) /\ jobState \in JobEndings /\ stream.sent = rows
                  /\ rest[i].value = jobState
  <2>1. /\ events[i + 1].is = "row" <=> i + 1 <= n
        /\ i + 1 <= n => events[i + 1].value = taken + (i + 1)
        /\ i + 1 > n => events[i + 1].value \in ShownStatuses
        /\ events[i + 1].is = "complete" =>
                  /\ i + 1 = Len(events) /\ jobState \in JobEndings /\ stream.sent = rows
                  /\ events[i + 1].value = jobState
    BY <1>4 DEF OnTheirWay
  <2>2. i > left => i + 1 > n
    BY <1>4, <1>2
  <2> QED BY <1>4, <2>1, <2>2, Zenon
<1> QED BY <1>1, <1>2, <1>3, <1>5 DEF OnTheirWay

\* The page takes one event: rows come in order, and the end only after all of them.
LEMMA EventsKeep ==
  ASSUME ConsoleInv, TakeEvent
  PROVE  ConsoleInv'
<1>1. /\ effect[current].at = "open" /\ stream \in Streams /\ stream.sent <= rows
      /\ stream.events # <<>> /\ jobState \in ShownStatuses /\ rows \in Nat /\ shown \in ShownPages
      /\ current \in ConsoleRuns /\ Follows
      /\ UNCHANGED <<jobState, rows, current>> /\ issue' = FALSE
      /\ stream.status # "none"
  BY DEF ConsoleInv, TakeEvent
<1>2. PICK k \in 0 .. rows, n \in 0 .. Len(stream.events) :
        /\ n <= stream.sent
        /\ OnTheirWay(stream.events, stream.sent - n, n)
        /\ shown.rows = (1 .. k) \union (1 .. (stream.sent - n))
        /\ shown.step = IF stream.sent - n = 0 THEN k ELSE stream.sent - n
  BY <1>1 DEF Follows
<1>3. PICK events \in Seq(EventRecords), sent \in Nat : events = stream.events /\ sent = stream.sent
  BY <1>1 DEF Streams
<1>4. PICK taken \in Nat : taken = sent - n
  BY <1>2, <1>3, <1>1, LenProperties
<1>5. PICK event : event = Head(events)
  OBVIOUS
<1>6. /\ event = events[1] /\ Len(events) \in Nat \ {0} /\ Tail(events) \in Seq(EventRecords)
  BY <1>1, <1>3, <1>5, HeadTailProperties, EmptySeq, LenProperties
<1>7. /\ event.is = "row" <=> 1 <= n
      /\ 1 <= n => event.value = taken + 1
      /\ 1 > n => event.value \in ShownStatuses
      /\ event.is = "complete" => /\ 1 = Len(events) /\ jobState \in JobEndings /\ sent = rows
                                  /\ event.value = jobState
  <2>1. 1 \in 1 .. Len(stream.events) /\ stream.events[1] = event
    BY <1>3, <1>6
  <2>2. /\ event.is = "row" <=> 1 <= n
        /\ 1 <= n => event.value = stream.sent - n + 1
        /\ 1 > n => event.value \in ShownStatuses
        /\ event.is = "complete" =>
             /\ 1 = Len(stream.events) /\ jobState \in JobEndings /\ stream.sent = rows
             /\ event.value = jobState
    BY <1>2, <2>1 DEF OnTheirWay
  <2>3. stream.sent - n = taken /\ stream.sent = sent /\ Len(stream.events) = Len(events)
    BY <1>3, <1>4
  <2> QED BY <2>2, <2>3
<1>8. stream' = [stream EXCEPT !.events = Tail(events)]
  BY <1>3 DEF TakeEvent
<1>9. /\ stream' \in Streams /\ stream'.sent = sent /\ stream'.status = stream.status
      /\ stream'.events = Tail(events)
  BY <1>1, <1>3, <1>6, <1>8 DEF Streams
<1>10. /\ shown' = IF event.is = "row" THEN Page(shown.status, shown.rows \union {event.value}, event.value)
                   ELSE [shown EXCEPT !.status = event.value]
       /\ effect' = IF event.is = "complete" THEN [effect EXCEPT ![current].at = "closed"] ELSE effect
  BY <1>3, <1>5 DEF TakeEvent
<1>11. n \in Nat /\ n <= sent /\ taken <= sent /\ sent <= rows
  BY <1>1, <1>2, <1>3, <1>4
<1>12. CASE event.is = "row"
  <2>1. PICK left \in Nat, more \in Nat : left = n - 1 /\ more = taken + 1 /\ n > 0
    BY <1>7, <1>11, <1>12
  <2>2. shown' = [status |-> shown.status, rows |-> shown.rows \union {more}, step |-> more]
    BY <1>7, <1>10, <1>12, <2>1, <1>11 DEF Page
  <2>3. shown' \in ShownPages /\ shown'.rows = (1 .. k) \union (1 .. more) /\ shown'.step = more
    <3>1. shown'.step = more /\ shown'.rows = shown.rows \union {more} /\ shown'.status = shown.status
      BY <2>2
    <3>2. shown.rows = (1 .. k) \union (1 .. taken)
      BY <1>2, <1>3, <1>4
    <3>3. shown'.rows = (1 .. k) \union (1 .. more)
      BY <1>4, <2>1, <3>1, <3>2
    <3>4. shown.status \in ShownStatuses /\ shown.rows \in SUBSET Nat
      BY <1>1 DEF ShownPages
    <3>5. shown' \in ShownPages
      BY <2>1, <2>2, <3>4 DEF ShownPages
    <3> QED BY <3>1, <3>3, <3>5
  <2>4. left \in 0 .. Len(Tail(events)) /\ OnTheirWay(Tail(events), more, left)
    <3>1. OnTheirWay(events, taken, n) /\ events # <<>> /\ n \in 0 .. Len(events)
      BY <1>1, <1>2, <1>3, <1>4
    <3> QED BY <2>1, <3>1, RestOnItsWay
  <2>5. effect' = effect
    BY <1>10, <1>12
  <2>6. OnTheirWay(stream.events, more, left)'
    BY <1>1, <1>3, <1>9, <2>4 DEF OnTheirWay
  <2>7. stream'.sent - left = more /\ left <= stream'.sent /\ more # 0
    BY <1>4, <1>9, <1>11, <2>1
  <2>8. Follows'
    BY <1>1, <1>9, <2>3, <2>4, <2>6, <2>7 DEF Follows
  <2> QED BY <1>1, <1>3, <1>9, <1>11, <2>3, <2>5, <2>8 DEF ConsoleInv, WasTrue, Truth
<1>13. CASE event.is # "row" /\ event.is # "complete"
  <2>1. n = 0 /\ taken = sent /\ event.value \in ShownStatuses
    BY <1>4, <1>7, <1>11, <1>13
  <2>2. shown' = [shown EXCEPT !.status = event.value] /\ effect' = effect
    BY <1>10, <1>13
  <2>3. shown' \in ShownPages /\ shown'.rows = shown.rows /\ shown'.step = shown.step
    BY <1>1, <2>1, <2>2 DEF ShownPages
  <2>4. 0 \in 0 .. Len(Tail(events)) /\ OnTheirWay(Tail(events), taken, 0)
    <3>1. OnTheirWay(events, taken, n) /\ events # <<>> /\ n \in 0 .. Len(events)
      BY <1>1, <1>2, <1>3, <1>4
    <3> QED BY <2>1, <3>1, RestOnItsWay
  <2>6. OnTheirWay(stream.events, taken, 0)'
    BY <1>1, <1>3, <1>9, <2>4 DEF OnTheirWay
  <2>7. stream'.sent - 0 = taken /\ 0 <= stream'.sent
    BY <1>4, <1>9, <1>11, <2>1
  <2>8. Follows'
    BY <1>1, <1>2, <1>3, <1>4, <1>9, <2>3, <2>4, <2>6, <2>7 DEF Follows
  <2> QED BY <1>1, <1>3, <1>9, <1>11, <2>2, <2>3, <2>8 DEF ConsoleInv, WasTrue, Truth
<1>14. CASE event.is = "complete"
  <2>1. n = 0 /\ taken = rows /\ jobState \in JobEndings /\ event.value = jobState
    BY <1>4, <1>7, <1>11, <1>14
  <2>2. shown' = [shown EXCEPT !.status = jobState]
    BY <1>10, <1>14, <2>1
  <2>3. shown.rows = 1 .. rows /\ shown.step = rows
    BY <1>1, <1>2, <1>3, <1>4, <2>1
  <2>4. shown = [status |-> shown.status, rows |-> shown.rows, step |-> shown.step]
    BY <1>1 DEF ShownPages
  <2>5. shown' = [status |-> jobState, rows |-> 1 .. rows, step |-> rows]
    BY <2>2, <2>3, <2>4
  <2>6. shown' = Truth /\ Truth' = Truth /\ Truth \in ShownPages
    BY <1>1, <2>5, TruthIsAPage DEF Truth, Page
  <2> DEFINE next == [effect[current] EXCEPT !.at = "closed"]
  <2>7. next \in EffectRuns /\ next.at = "closed" /\ effect' = [effect EXCEPT ![current] = next]
    BY <1>1, <1>10, <1>14 DEF ConsoleInv, EffectRuns
  <2> HIDE DEF next
  <2>8. /\ effect' \in [ConsoleRuns -> EffectRuns] /\ effect'[current] = next
        /\ \A f \in ConsoleRuns \ {current} : effect'[f] = effect[f]
        /\ \A f \in ConsoleRuns \ {current} : (effect[f].at = "answered")' => WasTrue(effect[f].read)'
    BY <1>1, <2>7, RunChanges
  <2>9. \A f \in ConsoleRuns : (effect[f].at = "answered")' => WasTrue(effect[f].read)'
    BY <2>7, <2>8
  <2>10. \A f \in ConsoleRuns : effect'[f].at # "open"
    BY <2>7, <2>8 DEF ConsoleInv
  <2> QED BY <1>1, <1>3, <1>9, <1>11, <2>1, <2>6, <2>8, <2>9, <2>10 DEF ConsoleInv
<1> QED BY <1>12, <1>13, <1>14

\* A stream that breaks leaves an issue.
LEMMA BreakKeeps ==
  ASSUME ConsoleInv, StreamBreaks
  PROVE  ConsoleInv'
<1> DEFINE next == [effect[current] EXCEPT !.at = "closed"]
<1>1. /\ effect' = [effect EXCEPT ![current] = next] /\ stream' = NoStream /\ issue' = TRUE
      /\ UNCHANGED <<jobState, rows, current, shown>> /\ current \in ConsoleRuns
  BY DEF StreamBreaks, ConsoleInv
<1>2. next \in EffectRuns /\ next.at = "closed"
  BY <1>1 DEF ConsoleInv, EffectRuns
<1> HIDE DEF next
<1>3. /\ effect' \in [ConsoleRuns -> EffectRuns] /\ effect'[current] = next
      /\ \A f \in ConsoleRuns \ {current} : effect'[f] = effect[f]
      /\ \A f \in ConsoleRuns \ {current} : (effect[f].at = "answered")' => WasTrue(effect[f].read)'
  BY <1>1, <1>2, RunChanges
<1>4. \A f \in ConsoleRuns : (effect[f].at = "answered")' => WasTrue(effect[f].read)'
  BY <1>2, <1>3
<1>5. \A f \in ConsoleRuns : effect'[f].at # "open"
  BY <1>2, <1>3 DEF ConsoleInv
<1> QED BY <1>1, <1>3, <1>4, <1>5, NoStreamYet DEF ConsoleInv

\* The effect runs again: its cleanup closes what was open.
LEMMA AgainKeeps ==
  ASSUME ConsoleInv, RunEffectAgain
  PROVE  ConsoleInv'
<1> USE ConsoleAssumption
<1>1. /\ current \in ConsoleRuns /\ current + 1 \in ConsoleRuns /\ current # current + 1
      /\ UNCHANGED <<jobState, rows, shown>> /\ current' = current + 1 /\ stream' = NoStream
      /\ issue' \in BOOLEAN
  <2>1. /\ UNCHANGED <<jobState, rows, shown>> /\ current' = current + 1 /\ stream' = NoStream
        /\ current < MaxEffects /\ issue' \in {issue, FALSE}
    BY DEF RunEffectAgain
  <2>2. current \in ConsoleRuns /\ issue \in BOOLEAN
    BY DEF ConsoleInv
  <2>3. current + 1 \in ConsoleRuns /\ current # current + 1
    BY <2>1, <2>2 DEF ConsoleRuns
  <2>4. issue' \in BOOLEAN
    BY <2>1, <2>2
  <2> QED BY <2>1, <2>2, <2>3, <2>4
<1> DEFINE before == [effect[current] EXCEPT !.at = IF @ = "open" THEN "closed" ELSE @]
           after == [effect[current + 1] EXCEPT !.at = "asked"]
<1>2. /\ before \in EffectRuns /\ before.at # "open" /\ before.read = effect[current].read
      /\ before.at = "answered" => effect[current].at = "answered"
      /\ after \in EffectRuns /\ after.at = "asked"
  BY <1>1 DEF ConsoleInv, EffectRuns
<1>3. effect' = [effect EXCEPT ![current] = before, ![current + 1] = after]
  BY <1>1 DEF RunEffectAgain
<1> HIDE DEF before, after
<1>4. /\ effect' \in [ConsoleRuns -> EffectRuns]
      /\ effect'[current] = before /\ effect'[current + 1] = after
      /\ \A f \in ConsoleRuns : f = current \/ f = current + 1 \/ effect'[f] = effect[f]
  BY <1>1, <1>2, <1>3 DEF ConsoleInv
<1>5. ASSUME NEW f \in ConsoleRuns, effect'[f].at = "answered" PROVE WasTrue(effect[f].read)'
  <2>1. WasTrue(effect[f].read) /\ effect'[f].read = effect[f].read
    BY <1>2, <1>4, <1>5 DEF ConsoleInv
  <2> QED BY <2>1, <1>1 DEF WasTrue, Truth
<1>6. \A f \in ConsoleRuns : effect'[f].at # "open"
  BY <1>2, <1>4 DEF ConsoleInv
<1>7. effect'[current'].at = "asked"
  BY <1>1, <1>2, <1>4
<1>8. jobState' \in ShownStatuses /\ rows' \in Nat /\ shown' \in ShownPages
  BY <1>1 DEF ConsoleInv
<1>9. /\ stream' \in Streams /\ stream'.sent <= rows'
      /\ stream'.status = "none" => stream'.sent = 0 /\ stream'.events = <<>>
  BY <1>1, <1>8, NoStreamYet
<1> QED BY <1>1, <1>4, <1>5, <1>6, <1>7, <1>8, <1>9 DEF ConsoleInv

\* Every step of the page and of its job keeps the invariant.
LEMMA NextConsoleInv == ConsoleInv /\ [ConsoleNext]_consoleVars => ConsoleInv'
<1> SUFFICES ASSUME ConsoleInv, [ConsoleNext]_consoleVars PROVE ConsoleInv'
  OBVIOUS
<1>1. CASE UNCHANGED consoleVars
  <2>1. Follows => Follows'
    BY <1>1, FollowsStill DEF consoleVars
  <2> QED BY <1>1, <2>1 DEF consoleVars, ConsoleInv, WasTrue, Truth
<1>2. ASSUME NEW e \in ConsoleRuns, AnswerFetch(e) \/ TakeAnswer(e) \/ FetchFails(e)
      PROVE  ConsoleInv'
  BY <1>2, FetchesKeep, AnswerTakenKeeps
<1> QED BY <1>1, <1>2, JobKeeps, OpenKeeps, PollKeeps, EventsKeep, BreakKeeps, AgainKeeps DEF ConsoleNext

\* The page keeps its inductive invariant, for every number of rows and of runs of the effect.
THEOREM ConsoleInvariant == ConsoleSpec => []ConsoleInv
BY InitConsoleInv, NextConsoleInv, PTL DEF ConsoleSpec

\* QuietConsoleIsRight: a page whose effect has closed and that reports no issue shows how the
\* job ended, and all its rows (AnalysisJobConsole, streamJobEvents).
THEOREM QuietPagesAreRight == ConsoleSpec => []QuietConsoleIsRight
<1>1. ConsoleInv => QuietConsoleIsRight
  BY DEF ConsoleInv, QuietConsoleIsRight
<1> QED BY <1>1, ConsoleInvariant, PTL

\* A page that has no more rows than a job may have.
Within(page) == page.rows \subseteq 1 .. MaxRows /\ page.step \in 0 .. MaxRows

\* What ConsoleInv does not speak of.
ConsoleRest ==
  /\ rows <= MaxRows /\ Within(shown)
  /\ \A e \in ConsoleRuns : Within(effect[e].read)

\* The truth is within the bounds, and so is a page that follows the job.
PagesFollow ==
  ConsoleInv /\ rows <= MaxRows => Within(Truth) /\ (effect[current].at = "open" => Within(shown))

\* Where the page follows, its rows came from the table.
LEMMA FollowedPages == PagesFollow
<1> SUFFICES ASSUME ConsoleInv, rows <= MaxRows
             PROVE  Within(Truth) /\ (effect[current].at = "open" => Within(shown))
  BY DEF PagesFollow
<1>1. rows \in Nat /\ MaxRows \in Nat /\ jobState \in ShownStatuses
  BY ConsoleAssumption DEF ConsoleInv
<1>2. Truth.rows = 1 .. rows /\ Truth.step = rows
  BY <1>1, TruthIsAPage
<1>3. Within(Truth)
  BY <1>1, <1>2 DEF Within
<1>4. ASSUME effect[current].at = "open" PROVE Within(shown)
  <2>1. Follows /\ stream \in Streams /\ stream.sent <= rows
    BY <1>4 DEF ConsoleInv
  <2>2. PICK k \in 0 .. rows, n \in 0 .. Len(stream.events) :
          /\ n <= stream.sent
          /\ shown.rows = (1 .. k) \union (1 .. (stream.sent - n))
          /\ shown.step = IF stream.sent - n = 0 THEN k ELSE stream.sent - n
    BY <2>1 DEF Follows
  <2>3. stream.sent \in Nat /\ Len(stream.events) \in Nat
    BY <2>1 DEF Streams
  <2>4. PICK taken \in 0 .. MaxRows : taken = stream.sent - n
    BY <1>1, <2>1, <2>2, <2>3
  <2> QED BY <1>1, <2>2, <2>4 DEF Within
<1> QED BY <1>3, <1>4

\* So they do after a step.
LEMMA FollowedNext == PagesFollow'
BY FollowedPages, PTL

\* Every step of the page and of its job keeps the rows within the bounds.
LEMMA ConsoleRestKeeps ==
  ConsoleInv /\ ConsoleInv' /\ ConsoleRest /\ [ConsoleNext]_consoleVars => ConsoleRest'
<1> SUFFICES ASSUME ConsoleInv, ConsoleInv', ConsoleRest, [ConsoleNext]_consoleVars PROVE ConsoleRest'
  OBVIOUS
<1>1. rows' <= MaxRows
  <2>1. rows' = rows \/ (rows' = rows + 1 /\ rows < MaxRows)
    BY DEF ConsoleNext, JobAdvances, AnswerFetch, OpenStream, SendEvents, Follow,
     TakeAnswer, FetchFails, TakeEvent, StreamBreaks, RunEffectAgain, consoleVars
  <2> QED BY <2>1, ConsoleAssumption DEF ConsoleInv, ConsoleRest
<1>2. Within(Truth) /\ effect \in [ConsoleRuns -> EffectRuns]
  BY FollowedPages DEF PagesFollow, ConsoleInv, ConsoleRest
<1>3. \A p : Within(p)' <=> Within(p)
  BY DEF Within
<1>4. \A e \in ConsoleRuns : Within(effect'[e].read)
  <2>1. ASSUME NEW e \in ConsoleRuns, AnswerFetch(e) PROVE \A f \in ConsoleRuns : Within(effect'[f].read)
    <3>1. effect' = [effect EXCEPT ![e] = [at |-> "answered", read |-> Truth]]
      BY <2>1 DEF AnswerFetch
    <3>2. effect'[e].read = Truth /\ \A f \in ConsoleRuns : f # e => effect'[f] = effect[f]
      BY <1>2, <3>1
    <3> QED BY <1>2, <3>2 DEF ConsoleRest
  <2>2. ASSUME NEW e \in ConsoleRuns, NEW at, effect' = [effect EXCEPT ![e].at = at]
        PROVE  \A f \in ConsoleRuns : effect'[f].read = effect[f].read
    BY <1>2, <2>2 DEF EffectRuns
  <2>3. CASE RunEffectAgain
    <3>1. PICK at : effect' = [effect EXCEPT ![current].at = at, ![current + 1].at = "asked"]
      <4>1. effect' = [effect EXCEPT
           ![current].at = IF effect[current].at = "open" THEN "closed" ELSE effect[current].at,
           ![current + 1].at = "asked"]
        BY <2>3 DEF RunEffectAgain
      <4> QED BY <4>1
    <3>2. \A f \in ConsoleRuns : effect'[f].read = effect[f].read
      BY <1>2, <3>1 DEF EffectRuns
    <3> QED BY <3>2 DEF ConsoleRest
  <2>4. ASSUME NEW e \in ConsoleRuns, TakeAnswer(e) \/ FetchFails(e)
        PROVE  \A f \in ConsoleRuns : effect'[f].read = effect[f].read
    <3>1. \E at : effect' = [effect EXCEPT ![e].at = at]
      BY <2>4, Zenon DEF TakeAnswer, Follow, FetchFails
    <3> QED BY <2>2, <3>1
  <2>5. CASE TakeEvent \/ StreamBreaks
    <3>1. effect' = effect \/ \E at : effect' = [effect EXCEPT ![current].at = at]
      BY <2>5, Zenon DEF TakeEvent, StreamBreaks
    <3>2. \A f \in ConsoleRuns : effect'[f].read = effect[f].read
      BY <2>2, <3>1 DEF ConsoleInv
    <3> QED BY <3>2 DEF ConsoleRest
  <2>6. CASE JobAdvances \/ OpenStream \/ SendEvents \/ UNCHANGED consoleVars
    <3>1. effect' = effect
      BY <2>6 DEF JobAdvances, OpenStream, SendEvents, consoleVars
    <3> QED BY <3>1 DEF ConsoleRest
  <2> QED BY <2>1, <2>3, <2>4, <2>5, <2>6 DEF ConsoleNext, ConsoleRest
<1>5. Within(shown')
  <2>0. ConsoleInv' /\ rows' <= MaxRows =>
          Within(Truth)' /\ ((effect[current].at = "open")' => Within(shown)')
    BY FollowedNext DEF PagesFollow
  <2>1. CASE TakeEvent
    <3>1. rows' = rows /\ issue' = FALSE /\ current' = current /\ effect'[current].at \in {"open", "closed"}
      BY <1>2, <2>1 DEF TakeEvent, ConsoleInv
    <3>2. CASE effect'[current].at = "open"
      <4>1. Within(shown)'
        BY <1>1, <2>0, <3>1, <3>2
      <4> QED BY <1>3, <4>1
    <3>3. CASE effect'[current].at = "closed"
      <4>1. shown' = Truth'
        BY <3>1, <3>3 DEF ConsoleInv
      <4>2. Within(Truth)'
        BY <1>1, <2>0
      <4> QED BY <4>1, <4>2 DEF Within
    <3> QED BY <3>1, <3>2, <3>3
  <2>2. ASSUME NEW e \in ConsoleRuns, TakeAnswer(e) PROVE Within(shown')
    BY <2>2 DEF TakeAnswer, Follow, ConsoleRest
  <2>3. ASSUME ~ TakeEvent, ~ \E e \in ConsoleRuns : TakeAnswer(e) PROVE shown' = shown
    BY <2>3 DEF ConsoleNext, JobAdvances, AnswerFetch, OpenStream, SendEvents, FetchFails, StreamBreaks,
       RunEffectAgain, consoleVars
  <2> QED BY <2>1, <2>2, <2>3 DEF ConsoleRest
<1> QED BY <1>1, <1>4, <1>5 DEF ConsoleRest, Within

\* ConsoleType: no page shows a row that the job does not have.
THEOREM ConsoleTypes == ConsoleSpec => []ConsoleType
<1>1. ASSUME ConsoleInit PROVE ConsoleRest
  <2>1. ConsoleInv /\ rows \in 0 .. 1 /\ shown = Truth
    BY <1>1, InitConsoleInv DEF ConsoleInit
  <2>2. \A e \in ConsoleRuns : effect[e].read = Truth
    BY <1>1 DEF ConsoleInit
  <2>3. rows <= MaxRows
    BY <2>1, ConsoleAssumption
  <2> QED BY <2>1, <2>2, <2>3, FollowedPages DEF PagesFollow, ConsoleRest
<1>2. ASSUME ConsoleInv, ConsoleRest PROVE ConsoleType
  BY <1>2, ConsoleAssumption DEF ConsoleInv, ConsoleRest, ConsoleType, ShownStatuses, EffectRuns, Within
<1>3. ConsoleInv /\ ConsoleRest /\ [ConsoleNext]_consoleVars => ConsoleInv' /\ ConsoleRest'
  BY NextConsoleInv, ConsoleRestKeeps
<1> QED BY <1>1, <1>2, <1>3, InitConsoleInv, PTL DEF ConsoleSpec

-----------------------------------------------------------------------------
(* The import of the first snapshot *)

\* The processes that start on one database, and the snapshot.
ImportSpec == ImportInit /\ [][ImportNext]_importVars

\* The tables an import has written before it comes to the next one.
Written(next) == {Tables[i] : i \in 1 .. next - 1}

\* Without overlapping imports of a snapshot that has workspaces: one process at most
\* imports, it has written what comes before its next table, and it has deleted nothing
\* but what earlier imports left, since nobody gets past the import, or makes a
\* workspace, before the snapshot's workspaces are there.
WholeInv ==
  /\ ~ wiped
  /\ \A p, q \in Starters : Importing(p) /\ Importing(q) => p = q
  /\ "workspaces" \in fresh => "workspaces" \in kept
  /\ \A p \in Starters : starts[p].at \in {"seed", "up"} => "workspaces" \in kept
  /\ \A p \in Starters : starts[p].at = "delete" => "workspaces" \notin kept
  /\ \A p \in Starters : starts[p].at = "write" =>
       starts[p].next \in 1 .. Len(Tables) + 1 /\ kept = Written(starts[p].next)
  /\ (\A p \in Starters : starts[p].at # "write") /\ ~ cut =>
       kept \in {{}, {"users"}, ToSet(Tables)}

\* Where a starter is.
StartRecords == [at : StartSteps, next : Nat]

\* What a snapshot without workspaces, without rows, and with workspaces leaves of the
\* database.
ImportInv ==
  /\ snapshot \in {"absent", "unreadable", "refused", "whole", "agents", "people"}
  /\ starts \in [Starters -> StartRecords]
  /\ snapshot = "people" => kept \subseteq {"users"}
  /\ snapshot \in {"absent", "unreadable", "refused"} =>
       kept = {} /\ ~ wiped /\ \A p \in Starters : ~ Importing(p)
  /\ snapshot \in {"whole", "agents"} /\ ~ overlapped => WholeInv

\* The tables an import has written when it begins, after its first table, from its third
\* on and at its end.
LEMMA WrittenTables ==
  /\ Len(Tables) = 8
  /\ Written(1) = {} /\ Written(2) = {"users"} /\ Written(9) = ToSet(Tables)
  /\ \A n \in 1 .. 9 : "workspaces" \in Written(n) <=> n > 2
  /\ \A n \in 1 .. 8 : Written(n + 1) = Written(n) \union {Tables[n]}
<1>1. /\ Len(Tables) = 8 /\ DOMAIN Tables = 1 .. 8
      /\ Tables[1] = "users" /\ Tables[2] = "workspaces"
  BY DEF Tables
<1>2. Written(1) = {}
  BY DEF Written
<1>3. \A n \in 1 .. 8 : Written(n + 1) = Written(n) \union {Tables[n]}
  <2>1. \A n \in 1 .. 8 : 1 .. (n + 1) - 1 = (1 .. n - 1) \union {n}
    OBVIOUS
  <2> QED BY <2>1, Zenon DEF Written
<1>4. Written(2) = {"users"}
  <2>1. Written(1 + 1) = Written(1) \union {Tables[1]}
    BY <1>3
  <2> QED BY <1>1, <1>2, <2>1
<1>5. Written(9) = ToSet(Tables)
  <2>1. 1 .. 9 - 1 = 1 .. 8
    OBVIOUS
  <2> QED BY <1>1, <2>1, Zenon DEF Written, ToSet
<1>6. \A n \in 1 .. 9 : "workspaces" \in Written(n) <=> n > 2
  <2>1. ASSUME NEW n \in 1 .. 9, "workspaces" \in Written(n) PROVE n > 2
    <3>1. PICK i \in 1 .. n - 1 : Tables[i] = "workspaces"
      BY <2>1 DEF Written
    <3>2. i # 1
      BY <1>1, <3>1
    <3> QED BY <3>1, <3>2
  <2>2. ASSUME NEW n \in 1 .. 9, n > 2 PROVE "workspaces" \in Written(n)
    <3>1. 2 \in 1 .. n - 1
      BY <2>2
    <3> QED BY <1>1, <3>1 DEF Written
  <2> QED BY <2>1, <2>2
<1> QED BY <1>1, <1>2, <1>3, <1>4, <1>5, <1>6

\* At first nobody starts and the database is empty.
LEMMA InitImportInv == ImportInit => ImportInv
<1> SUFFICES ASSUME ImportInit PROVE ImportInv
  OBVIOUS
<1>1. /\ starts \in [Starters -> StartRecords]
      /\ \A p \in Starters : starts[p].at = "down"
  BY DEF ImportInit, StartAt, StartRecords, StartSteps
<1> QED BY <1>1 DEF ImportInit, ImportInv, WholeInv, Importing

\* Where a starter goes: its own record changes and no other one.
LEMMA StarterGoes ==
  ASSUME ImportInv, NEW p \in Starters, NEW s \in StartRecords, GoesTo(p, s)
  PROVE  /\ starts' \in [Starters -> StartRecords]
         /\ starts'[p] = s /\ starts'[p].at = s.at /\ starts'[p].next = s.next
         /\ \A q \in Starters \ {p} : starts'[q] = starts[q]
BY DEF ImportInv, GoesTo

\* A starter that does not write is at no table.
LEMMA StartAtRecord ==
  ASSUME NEW at \in StartSteps
  PROVE  StartAt(at) \in StartRecords /\ StartAt(at).at = at /\ StartAt(at).next = 0
BY DEF StartAt, StartRecords

\* A step of a starter that neither imports nor ends an import.
LEMMA OutsideImport ==
  ASSUME ImportInv, NEW p \in Starters, NEW at \in {"down", "count", "seed", "up"},
         GoesTo(p, StartAt(at)), ~ Importing(p),
         at \in {"seed", "up"} => \/ InUse \/ starts[p].at \in {"seed", "up"}
                                 \/ snapshot \notin {"whole", "agents"},
         UNCHANGED <<snapshot, kept, fresh, overlapped, wiped>>, cut => cut'
  PROVE  ImportInv'
<1>1. /\ starts' \in [Starters -> StartRecords] /\ starts'[p].at = at
      /\ \A q \in Starters \ {p} : starts'[q] = starts[q]
  BY StarterGoes, StartAtRecord DEF StartSteps
<1>2. \A q \in Starters : Importing(q)' => q # p /\ Importing(q)
  BY <1>1 DEF Importing
<1>3. /\ snapshot' \in {"absent", "unreadable", "refused", "whole", "agents", "people"}
      /\ snapshot' = "people" => kept' \subseteq {"users"}
      /\ snapshot' \in {"absent", "unreadable", "refused"} =>
           kept' = {} /\ ~ wiped' /\ \A q \in Starters : ~ Importing(q)'
  BY <1>2 DEF ImportInv
<1>4. snapshot' \in {"whole", "agents"} /\ ~ overlapped' => WholeInv'
  <2> SUFFICES ASSUME snapshot \in {"whole", "agents"}, ~ overlapped PROVE WholeInv'
    OBVIOUS
  <2> USE DEF ImportInv, WholeInv
  <2>1. ~ wiped' /\ ("workspaces" \in fresh' => "workspaces" \in kept')
    OBVIOUS
  <2>2. \A q, g \in Starters : Importing(q)' /\ Importing(g)' => q = g
    BY <1>2
  <2>3. /\ \A q \in Starters : starts'[q].at \in {"seed", "up"} => "workspaces" \in kept'
        /\ \A q \in Starters : starts'[q].at = "delete" => "workspaces" \notin kept'
        /\ \A q \in Starters : starts'[q].at = "write" =>
             starts'[q].next \in 1 .. Len(Tables) + 1 /\ kept' = Written(starts'[q].next)
    BY <1>1 DEF InUse
  <2>4. (\A q \in Starters : starts'[q].at # "write") /\ ~ cut' =>
          kept' \in {{}, {"users"}, ToSet(Tables)}
    BY <1>1 DEF Importing
  <2> QED BY <2>1, <2>2, <2>3, <2>4
<1> QED BY <1>1, <1>3, <1>4 DEF ImportInv

\* Starts that do not import, and their ends.
LEMMA StartsKeep ==
  ASSUME ImportInv, NEW p \in Starters,
         \/ StartUp(p) \/ ShutDown(p) \/ SeedAfterImport(p)
         \/ CountWorkspaces(p) /\ starts'[p].at # "delete"
         \/ DieInStart(p) /\ ~ Importing(p)
  PROVE  ImportInv'
<1>1. CASE StartUp(p)
  BY <1>1, OutsideImport DEF StartUp, Importing
<1>2. CASE ShutDown(p)
  BY <1>2, OutsideImport DEF ShutDown, Importing
<1>3. CASE SeedAfterImport(p)
  BY <1>3, OutsideImport DEF SeedAfterImport, Importing
<1>4. CASE CountWorkspaces(p) /\ starts'[p].at # "delete"
  <2>1. /\ starts[p].at = "count" /\ UNCHANGED <<snapshot, kept, fresh, wiped, cut>>
        /\ \/ /\ InUse \/ snapshot \in {"absent", "unreadable"}
              /\ GoesTo(p, StartAt("seed")) /\ UNCHANGED overlapped
           \/ GoesTo(p, StartAt("down")) /\ UNCHANGED overlapped
           \/ GoesTo(p, StartAt("delete"))
    BY <1>4 DEF CountWorkspaces
  <2>2. ~ GoesTo(p, StartAt("delete"))
    BY <1>4, StarterGoes, StartAtRecord DEF StartSteps
  <2> QED BY <2>1, <2>2, OutsideImport DEF Importing
<1>5. CASE DieInStart(p) /\ ~ Importing(p)
  <2>1. cut => cut'
    BY <1>5 DEF DieInStart, Ends
  <2> QED BY <1>5, <2>1, OutsideImport DEF DieInStart, Ends
<1> QED BY <1>1, <1>2, <1>3, <1>4, <1>5

\* One that goes to import where another one does has overlapped it; alone it may delete
\* what there is, since nobody is past the import.
LEMMA ImportBegins ==
  ASSUME ImportInv, NEW p \in Starters, CountWorkspaces(p), starts'[p].at = "delete"
  PROVE  ImportInv'
<1>1. /\ starts[p].at = "count" /\ UNCHANGED <<snapshot, kept, fresh, cut, wiped>>
      /\ ~ InUse /\ snapshot \in {"whole", "agents", "people"}
      /\ GoesTo(p, StartAt("delete"))
      /\ overlapped' = (overlapped \/ \E q \in Starters \ {p} : Importing(q))
  <2>1. ~ GoesTo(p, StartAt("seed")) /\ ~ GoesTo(p, StartAt("down"))
    BY StarterGoes, StartAtRecord DEF StartSteps
  <2> QED BY <2>1 DEF CountWorkspaces
<1>2. /\ starts' \in [Starters -> StartRecords] /\ starts'[p].at = "delete"
      /\ \A q \in Starters \ {p} : starts'[q] = starts[q]
  BY <1>1, StarterGoes, StartAtRecord DEF StartSteps
<1>3. ~ overlapped' => ~ overlapped /\ \A q \in Starters \ {p} : ~ Importing(q)
  BY <1>1
<1>4. snapshot' \in {"whole", "agents"} /\ ~ overlapped' => WholeInv'
  <2> SUFFICES ASSUME snapshot \in {"whole", "agents"}, ~ overlapped' PROVE WholeInv'
    BY <1>1
  <2> USE DEF ImportInv, WholeInv
  <2>1. \A q \in Starters \ {p} : ~ Importing(q)' /\ ~ Importing(q)
    BY <1>2, <1>3 DEF Importing
  <2>2. \A q, g \in Starters : Importing(q)' /\ Importing(g)' => q = g
    BY <2>1
  <2>3. kept \in {{}, {"users"}, ToSet(Tables)} \/ cut
    BY <1>1, <1>3, <2>1 DEF Importing
  <2>4. /\ ~ wiped /\ "workspaces" \notin fresh /\ "workspaces" \notin kept
        /\ \A q \in Starters : starts[q].at \notin {"seed", "up"}
    BY <1>1, <1>3 DEF InUse
  <2>5. \A q \in Starters : starts'[q].at \notin {"seed", "up", "write"}
    BY <1>2, <2>1, <2>4 DEF Importing
  <2> QED BY <1>1, <2>2, <2>3, <2>4, <2>5
<1> QED BY <1>1, <1>2, <1>4 DEF ImportInv

\* The deletion finds nothing that somebody made.
LEMMA DeletesKeep ==
  ASSUME ImportInv, NEW p \in Starters, DeleteAll(p)
  PROVE  ImportInv'
<1>1. /\ starts[p].at = "delete" /\ UNCHANGED <<snapshot, cut, overlapped>>
      /\ kept' = {} /\ fresh' = {}
      /\ wiped' = (wiped \/ "workspaces" \in fresh)
      /\ GoesTo(p, [at |-> "write", next |-> 1])
  BY DEF DeleteAll
<1>2. /\ starts' \in [Starters -> StartRecords] /\ starts'[p].at = "write" /\ starts'[p].next = 1
      /\ \A q \in Starters \ {p} : starts'[q] = starts[q]
  <2>1. [at |-> "write", next |-> 1] \in StartRecords
    BY DEF StartRecords, StartSteps
  <2> QED BY <1>1, <2>1, StarterGoes
<1>3. Importing(p)
  BY <1>1 DEF Importing
<1>4. snapshot \in {"whole", "agents", "people"}
  BY <1>3 DEF ImportInv
<1>5. snapshot' \in {"whole", "agents"} /\ ~ overlapped' => WholeInv'
  <2> SUFFICES ASSUME snapshot \in {"whole", "agents"}, ~ overlapped PROVE WholeInv'
    BY <1>1
  <2> USE DEF ImportInv, WholeInv
  <2>1. \A q \in Starters \ {p} : ~ Importing(q)' /\ ~ Importing(q)
    BY <1>2, <1>3 DEF Importing
  <2>2. \A q, g \in Starters : Importing(q)' /\ Importing(g)' => q = g
    BY <2>1
  <2>3. /\ ~ wiped' /\ \A q \in Starters : starts[q].at \notin {"seed", "up"}
    BY <1>1
  <2>4. \A q \in Starters \ {p} : starts'[q].at \notin {"seed", "up", "write", "delete"}
    BY <1>2, <2>1, <2>3 DEF Importing
  <2> QED BY <1>1, <1>2, <2>2, <2>3, <2>4, WrittenTables
<1> QED BY <1>1, <1>2, <1>4, <1>5 DEF ImportInv

\* An import that ends early.
LEMMA EndsKeep ==
  ASSUME ImportInv, NEW p \in Starters, Importing(p), Ends(p),
         UNCHANGED <<snapshot, kept, fresh, overlapped, wiped>>
  PROVE  ImportInv'
<1>1. GoesTo(p, StartAt("down")) /\ cut' = (cut \/ starts[p].next > 2)
  BY DEF Ends
<1>2. /\ starts' \in [Starters -> StartRecords] /\ starts'[p].at = "down"
      /\ \A q \in Starters \ {p} : starts'[q] = starts[q]
  BY <1>1, StarterGoes, StartAtRecord DEF StartSteps
<1>3. snapshot \in {"whole", "agents", "people"}
  BY DEF ImportInv
<1>4. snapshot' \in {"whole", "agents"} /\ ~ overlapped' => WholeInv'
  <2> SUFFICES ASSUME snapshot \in {"whole", "agents"}, ~ overlapped PROVE WholeInv'
    OBVIOUS
  <2> USE DEF ImportInv, WholeInv
  <2>1. \A q \in Starters \ {p} : ~ Importing(q)' /\ ~ Importing(q)
    BY <1>2 DEF Importing
  <2>2. ~ cut' => ~ cut /\ ~ (starts[p].next > 2)
    BY <1>1
  <2>3. ~ cut' => kept \in {{}, {"users"}, ToSet(Tables)}
    <3>1. CASE starts[p].at = "delete"
      BY <2>1, <2>2, <3>1 DEF Importing
    <3>2. CASE starts[p].at = "write"
      <4>1. starts[p].next \in 1 .. 9 /\ kept = Written(starts[p].next)
        BY <3>2, WrittenTables
      <4>2. ~ cut' => starts[p].next = 1 \/ starts[p].next = 2
        BY <2>2, <4>1
      <4> QED BY <4>1, <4>2, WrittenTables
    <3> QED BY <3>1, <3>2 DEF Importing
  <2>4. /\ \A q \in Starters : starts'[q].at \notin {"write", "delete"}
        /\ \A q \in Starters : starts'[q].at \in {"seed", "up"} => "workspaces" \in kept
    BY <1>2, <2>1 DEF Importing
  <2> QED BY <1>2, <2>3, <2>4 DEF Importing
<1> QED BY <1>2, <1>3, <1>4 DEF ImportInv

\* An import that goes on: it writes its next table, or is over.
LEMMA WritesKeep ==
  ASSUME ImportInv, NEW p \in Starters, WriteTable(p) \/ FinishImport(p)
  PROVE  ImportInv'
<1>0. starts[p].at = "write" /\ Importing(p)
  BY DEF WriteTable, FinishImport, Importing
<1>1. snapshot \in {"whole", "agents", "people"}
  BY <1>0 DEF ImportInv
<1>2. CASE WriteTable(p) /\ Ends(p)
  <2>1. UNCHANGED <<snapshot, kept, fresh, overlapped, wiped>>
    <3>1. GoesTo(p, StartAt("down"))
      BY <1>2 DEF Ends
    <3>2. starts'[p].at = "down"
      BY <3>1, StarterGoes, StartAtRecord DEF StartSteps
    <3>3. [starts[p] EXCEPT !.next = @ + 1].at = "write"
      BY <1>0 DEF ImportInv, StartRecords
    <3>4. starts[p] \in StartRecords /\ [starts[p] EXCEPT !.next = @ + 1] \in StartRecords
      BY DEF ImportInv, StartRecords
    <3>5. ~ GoesTo(p, [starts[p] EXCEPT !.next = @ + 1])
      BY <3>2, <3>3, <3>4, StarterGoes
    <3> QED BY <1>2, <3>5 DEF WriteTable
  <2> QED BY <1>0, <1>2, <2>1, EndsKeep
<1>3. CASE WriteTable(p) /\ ~ Ends(p)
  <2> DEFINE t == Tables[starts[p].next]
             on == [starts[p] EXCEPT !.next = @ + 1]
  <2>1. /\ starts[p].next <= Len(Tables)
        /\ kept' = IF HasRows(t) THEN kept \union {t} ELSE kept
        /\ GoesTo(p, on) /\ UNCHANGED <<snapshot, fresh, overlapped, wiped, cut>>
    BY <1>3 DEF WriteTable
  <2>2. on \in StartRecords /\ on.at = "write" /\ on.next = starts[p].next + 1
    BY <1>0 DEF ImportInv, StartRecords
  <2> HIDE DEF on
  <2>3. /\ starts' \in [Starters -> StartRecords]
        /\ starts'[p].at = "write" /\ starts'[p].next = starts[p].next + 1
        /\ \A q \in Starters \ {p} : starts'[q] = starts[q]
    BY <2>1, <2>2, StarterGoes
  <2>4. snapshot' = "people" => kept' \subseteq {"users"}
    BY <2>1 DEF HasRows, ImportInv
  <2>5. snapshot' \in {"whole", "agents"} /\ ~ overlapped' => WholeInv'
    <3> SUFFICES ASSUME snapshot \in {"whole", "agents"}, ~ overlapped PROVE WholeInv'
      BY <2>1
    <3>1. \A q \in Starters \ {p} : ~ Importing(q)' /\ ~ Importing(q)
      BY <1>0, <2>3 DEF Importing, ImportInv, WholeInv
    <3>2. \A q, g \in Starters : Importing(q)' /\ Importing(g)' => q = g
      BY <3>1
    <3>3. kept' = kept \union {t}
      BY <2>1 DEF HasRows
    <3>4. /\ starts[p].next \in 1 .. 8 /\ kept = Written(starts[p].next)
          /\ starts'[p].next \in 1 .. Len(Tables) + 1 /\ kept' = Written(starts'[p].next)
      <4>1. starts[p].next \in 1 .. Len(Tables) + 1 /\ kept = Written(starts[p].next)
        BY <1>0 DEF ImportInv, WholeInv
      <4>2. starts[p].next \in 1 .. 8 /\ starts[p].next + 1 \in 1 .. Len(Tables) + 1
        BY <2>1, <4>1, WrittenTables
      <4>3. Written(starts[p].next + 1) = Written(starts[p].next) \union {t}
        BY <4>2, WrittenTables
      <4> QED BY <2>3, <3>3, <4>1, <4>2, <4>3
    <3>5. \A q \in Starters \ {p} : starts'[q].at \notin {"write", "delete"}
      BY <3>1 DEF Importing
    <3>6. \A q \in Starters : starts'[q].at \in {"seed", "up"} => "workspaces" \in kept'
      BY <2>3, <3>3 DEF ImportInv, WholeInv
    <3>7. ~ wiped' /\ ("workspaces" \in fresh' => "workspaces" \in kept')
      BY <2>1, <3>3 DEF ImportInv, WholeInv
    <3> HIDE DEF t
    <3> QED BY <2>3, <3>2, <3>4, <3>5, <3>6, <3>7 DEF WholeInv
  <2> QED BY <1>1, <2>1, <2>3, <2>4, <2>5 DEF ImportInv
<1>4. CASE FinishImport(p)
  <2>1. /\ starts[p].next > Len(Tables) /\ GoesTo(p, StartAt("seed"))
        /\ UNCHANGED <<snapshot, kept, fresh, overlapped, wiped, cut>>
    BY <1>4 DEF FinishImport
  <2>2. /\ starts' \in [Starters -> StartRecords] /\ starts'[p].at = "seed"
        /\ \A q \in Starters \ {p} : starts'[q] = starts[q]
    BY <2>1, StarterGoes, StartAtRecord DEF StartSteps
  <2>3. snapshot' \in {"whole", "agents"} /\ ~ overlapped' => WholeInv'
    <3> SUFFICES ASSUME snapshot \in {"whole", "agents"}, ~ overlapped PROVE WholeInv'
      BY <2>1
    <3>1. \A q \in Starters \ {p} : ~ Importing(q)' /\ ~ Importing(q)
      BY <1>0, <2>2 DEF Importing, ImportInv, WholeInv
    <3>2. \A q \in Starters : starts'[q].at \notin {"write", "delete"}
      BY <2>2, <3>1 DEF Importing
    <3>3. starts[p].next = 9 /\ kept = ToSet(Tables) /\ "workspaces" \in kept
      <4>1. starts[p].next \in 1 .. 9 /\ kept = Written(starts[p].next)
        BY <1>0, WrittenTables DEF ImportInv, WholeInv
      <4> QED BY <2>1, <4>1, WrittenTables
    <3> QED BY <2>1, <2>2, <3>2, <3>3 DEF ImportInv, WholeInv, Importing
  <2> QED BY <1>1, <2>1, <2>2, <2>3 DEF ImportInv
<1> QED BY <1>2, <1>3, <1>4

\* Somebody makes a workspace at a process that is up: the snapshot's are there by then.
LEMMA SignUpKeeps ==
  ASSUME ImportInv, NEW t \in {"users", "workspaces"}, SignUp(t)
  PROVE  ImportInv'
<1>1. /\ \E p \in Starters : starts[p].at = "up"
      /\ fresh' = fresh \union {t}
      /\ UNCHANGED <<snapshot, kept, starts, overlapped, cut, wiped>>
  BY DEF SignUp
<1>2. \A q \in Starters : Importing(q)' <=> Importing(q)
  BY <1>1 DEF Importing
<1>3. WholeInv => WholeInv'
  BY <1>1, <1>2 DEF WholeInv
<1> QED BY <1>1, <1>2, <1>3 DEF ImportInv

\* Every step of a start keeps the invariant.
LEMMA NextImportInv == ImportInv /\ [ImportNext]_importVars => ImportInv'
<1> SUFFICES ASSUME ImportInv, [ImportNext]_importVars PROVE ImportInv'
  OBVIOUS
<1>1. CASE UNCHANGED importVars
  BY <1>1 DEF importVars, ImportInv, WholeInv, Importing
<1>2. ASSUME NEW p \in Starters, DieInStart(p), Importing(p) PROVE ImportInv'
  BY <1>2, EndsKeep DEF DieInStart
<1> QED BY <1>1, <1>2, StartsKeep, ImportBegins, DeletesKeep, WritesKeep, SignUpKeeps DEF ImportNext

\* Starts keep the inductive invariant, for every set of processes and number of deaths.
THEOREM ImportInvariant == ImportSpec => []ImportInv
BY InitImportInv, NextImportInv, PTL DEF ImportSpec

\* ImportKeepsData: but for overlapping imports, initializeDatabase deletes no workspace that
\* somebody made from a snapshot with workspaces, and serves nobody before the snapshot is
\* whole unless an earlier import ended after it had written the workspaces.
THEOREM ImportsKeepData == ImportSpec => []ImportKeepsData
<1>1. ImportInv => ImportKeepsData
  <2> SUFFICES ASSUME ImportInv, ~ overlapped PROVE ImportKeepsData
    BY DEF ImportKeepsData
  <2>1. "users" \in ToSet(Tables)
    BY DEF ToSet, Tables
  <2>2. CASE snapshot = "people"
    <3>1. {t \in ToSet(Tables) : HasRows(t)} = {"users"}
      BY <2>1, <2>2 DEF HasRows
    <3>2. kept \in {{}, {"users"}}
      BY <2>2 DEF ImportInv
    <3> QED BY <2>2, <3>1, <3>2 DEF ImportKeepsData
  <2>3. CASE snapshot \in {"absent", "unreadable", "refused"}
    BY <2>3 DEF ImportInv, ImportKeepsData
  <2>4. CASE snapshot \in {"whole", "agents"}
    <3>1. {t \in ToSet(Tables) : HasRows(t)} = ToSet(Tables)
      BY <2>4 DEF HasRows
    <3>2. WholeInv
      BY <2>4 DEF ImportInv
    <3>3. ASSUME \A p \in Starters : ~ Importing(p), NEW p \in Starters, starts[p].at = "up", ~ cut
          PROVE  kept = ToSet(Tables)
      BY <3>2, <3>3 DEF WholeInv, Importing
    <3> QED BY <3>1, <3>2, <3>3 DEF ImportKeepsData, WholeInv
  <2> QED BY <2>2, <2>3, <2>4 DEF ImportInv
<1> QED BY <1>1, ImportInvariant, PTL

\* The next table to write.
NextsAreWithin ==
  \A p \in Starters : /\ starts[p].next \in 0 .. Len(Tables) + 1
                      /\ starts[p].at = "write" => starts[p].next # 0

\* What ImportInv does not speak of.
ImportRest ==
  /\ kept \subseteq ToSet(Tables) /\ fresh \subseteq {"users", "workspaces"} /\ deaths \in 0 .. MaxDeaths
  /\ agents \in BOOLEAN /\ overlapped \in BOOLEAN /\ cut \in BOOLEAN /\ wiped \in BOOLEAN
  /\ NextsAreWithin

\* Every step of a start keeps the types.
LEMMA ImportRestKeeps == ImportInv /\ ImportRest /\ [ImportNext]_importVars => ImportRest'
<1> SUFFICES ASSUME ImportInv, ImportRest, [ImportNext]_importVars PROVE ImportRest'
  OBVIOUS
<1>0. /\ kept \subseteq ToSet(Tables) /\ fresh \subseteq {"users", "workspaces"} /\ deaths \in 0 .. MaxDeaths
      /\ agents \in BOOLEAN /\ overlapped \in BOOLEAN /\ cut \in BOOLEAN /\ wiped \in BOOLEAN
      /\ \A p \in Starters : /\ starts[p].next \in 0 .. Len(Tables) + 1
                             /\ starts[p].at = "write" => starts[p].next # 0
      /\ Len(Tables) = 8
  BY WrittenTables DEF ImportRest, NextsAreWithin
<1>1. /\ agents' \in BOOLEAN /\ overlapped' \in BOOLEAN /\ cut' \in BOOLEAN /\ wiped' \in BOOLEAN
  BY <1>0, Zenon DEF ImportNext, StartUp, CountWorkspaces, DeleteAll, WriteTable, FinishImport, SeedAfterImport,
     DieInStart, Ends, ShutDown, SignUp, importVars
<1>2. fresh' \subseteq {"users", "workspaces"}
  BY <1>0 DEF ImportNext, StartUp, CountWorkspaces, DeleteAll, WriteTable, FinishImport, SeedAfterImport,
     DieInStart, ShutDown, SignUp, importVars
<1>3. deaths' \in 0 .. MaxDeaths
  <2>1. deaths' = deaths \/ (deaths < MaxDeaths /\ deaths' = deaths + 1)
    BY DEF ImportNext, StartUp, CountWorkspaces, DeleteAll, WriteTable, FinishImport, SeedAfterImport,
       DieInStart, ShutDown, SignUp, importVars
  <2> QED BY <1>0, <2>1, DeathsAssumption
<1>4. kept' \subseteq ToSet(Tables)
  <2>1. ASSUME NEW p \in Starters, WriteTable(p) PROVE kept' \subseteq ToSet(Tables)
    <3>1. starts[p].next \in 1 .. 8
      BY <1>0, <2>1 DEF WriteTable
    <3>2. Tables[starts[p].next] \in ToSet(Tables)
      BY <3>1 DEF Tables, ToSet
    <3>3. kept' \subseteq kept \union {Tables[starts[p].next]}
      BY <2>1 DEF WriteTable
    <3> QED BY <1>0, <3>2, <3>3
  <2> QED BY <1>0, <2>1 DEF ImportNext, StartUp, CountWorkspaces, DeleteAll, FinishImport, SeedAfterImport,
     DieInStart, ShutDown, SignUp, importVars
<1>5. starts \in [Starters -> StartRecords]
  BY DEF ImportInv
<1>6. ASSUME NEW p \in Starters, NEW s, GoesTo(p, s), s.next \in 0 .. 9, s.at = "write" => s.next # 0
      PROVE  NextsAreWithin'
  BY <1>0, <1>5, <1>6 DEF GoesTo, NextsAreWithin
<1>7. \A at : StartAt(at).at = at /\ StartAt(at).next = 0
  BY DEF StartAt
<1>8. NextsAreWithin'
  <2>1. ASSUME NEW p \in Starters, NEW at \in {"down", "count", "delete", "seed", "up"}, GoesTo(p, StartAt(at))
        PROVE  NextsAreWithin'
    BY <1>6, <1>7, <2>1
  <2>2. ASSUME NEW p \in Starters, WriteTable(p) PROVE NextsAreWithin'
    <3>1. starts[p].next \in 1 .. 8 /\ starts[p] \in StartRecords
      BY <1>0, <1>5, <2>2 DEF WriteTable
    <3>2. GoesTo(p, [starts[p] EXCEPT !.next = @ + 1]) \/ GoesTo(p, StartAt("down"))
      BY <2>2, Zenon DEF WriteTable, Ends
    <3>3. [starts[p] EXCEPT !.next = @ + 1].next = starts[p].next + 1
      BY <3>1 DEF StartRecords
    <3>4. starts[p].next + 1 \in 0 .. 9 /\ starts[p].next + 1 # 0
      BY <3>1
    <3> QED BY <1>6, <2>1, <3>2, <3>3, <3>4
  <2>3. ASSUME NEW p \in Starters, DeleteAll(p) PROVE NextsAreWithin'
    BY <1>6, <2>3 DEF DeleteAll
  <2>4. ASSUME NEW p \in Starters,
               StartUp(p) \/ CountWorkspaces(p) \/ FinishImport(p) \/ SeedAfterImport(p) \/ DieInStart(p) \/ ShutDown(p)
        PROVE  NextsAreWithin'
    <3>1. \E at \in {"down", "count", "delete", "seed", "up"} : GoesTo(p, StartAt(at))
      BY <2>4, Zenon DEF StartUp, CountWorkspaces, FinishImport, SeedAfterImport, DieInStart, ShutDown, Ends
    <3> QED BY <2>1, <3>1
  <2>5. CASE SignUp("users") \/ SignUp("workspaces") \/ UNCHANGED importVars
    <3>1. starts' = starts
      BY <2>5 DEF SignUp, importVars
    <3> QED BY <1>0, <3>1 DEF NextsAreWithin
  <2> QED BY <2>2, <2>3, <2>4, <2>5 DEF ImportNext
<1> QED BY <1>1, <1>2, <1>3, <1>4, <1>8 DEF ImportRest

\* ImportType: what the inductive invariant leaves out of it is inductive beside it.
THEOREM ImportTypes == ImportSpec => []ImportType
<1>1. ASSUME ImportInit PROVE ImportRest
  <2>1. 0 \in 0 .. MaxDeaths /\ Len(Tables) = 8
    BY DeathsAssumption, WrittenTables
  <2>2. agents \in BOOLEAN /\ overlapped \in BOOLEAN /\ cut \in BOOLEAN /\ wiped \in BOOLEAN
    BY <1>1, Zenon DEF ImportInit
  <2>3. \A p \in Starters : starts[p].at = "down" /\ starts[p].next = 0
    BY <1>1 DEF ImportInit, StartAt
  <2> QED BY <1>1, <2>1, <2>2, <2>3 DEF ImportInit, ImportRest, NextsAreWithin
<1>2. ASSUME ImportInv, ImportRest PROVE ImportType
  <2>1. {agents, overlapped, cut, wiped} \subseteq BOOLEAN
    BY <1>2, Zenon DEF ImportRest
  <2>2. \A p \in Starters : starts[p].at \in StartSteps
    BY <1>2 DEF ImportInv, StartRecords
  <2> QED BY <1>2, <2>1, <2>2 DEF ImportInv, ImportRest, NextsAreWithin, ImportType
<1> QED BY <1>1, <1>2, ImportRestKeeps, ImportInvariant, PTL DEF ImportSpec

-----------------------------------------------------------------------------
(* The catalog of roles and agents *)

\* One catalog, the processes that start on it, its admins, and one job after the other.
CatalogSpec == CatalogInit /\ [][CatalogNext]_catalogVars

\* The default roles are as they are shipped.
RolesAsShipped ==
  /\ DefaultRoles \subseteq roleRows
  /\ \A r \in DefaultRoles : dependsOn[r] = DefaultDependencies[r]

\* The default agents have their shipped lists of roles.
AgentsAsShipped == \A a \in DefaultAgents : agentRoles[a] = DefaultAgentRoles[a]

\* The rows of the catalog and of the job, as far as the rest rests on them.
CatalogRows ==
  /\ roleRows \subseteq RoleIds
  /\ dependsOn = [r \in RoleIds |-> dependsOn[r]]
  /\ agentRoles = [a \in AgentIds |-> agentRoles[a]]
  /\ newRow = Nothing \/ newRow.id \in CustomRoles \union {CustomAgent}
  /\ edited \in BOOLEAN

\* A job that nobody disturbed has read a shipped plan, and its roles are there.
PlanIsShipped ==
  /\ planned.at # "none" =>
       /\ planned = [at |-> planned.at, agent |-> planned.agent, list |-> planned.list,
                     tainted |-> planned.tainted, verdict |-> planned.verdict]
       /\ planned.tainted \in BOOLEAN
  /\ planned.at \in {"none", "queued", "reading", "done"}
  /\ planned.at \in {"queued", "reading", "done"} => planned.agent \in AgentIds \union {"none"}
  /\ planned.at = "reading" /\ ~ planned.tainted =>
       RolesAsShipped /\ (planned.agent \in DefaultAgents =>
                            planned.list = DefaultAgentRoles[planned.agent])
  /\ planned.at = "queued" /\ planned.agent = "none" => planned.tainted
  /\ planned.at = "done" /\ ~ planned.tainted /\ planned.agent \in DefaultAgents =>
       /\ planned.verdict = "accepted"
       /\ planned.list = DefaultAgentRoles[planned.agent]

\* What admins edit is recorded until a process starts.
CatalogInv ==
  /\ CatalogRows
  /\ ~ edited => RolesAsShipped /\ AgentsAsShipped
  /\ PlanIsShipped

\* "custom" is the id of no agent that is shipped, and no role has the wrong kind of id.
LEMMA CustomIsNotShipped == CustomAgent \notin DefaultAgents
BY DEF CustomAgent, DefaultAgents, DefaultAgentRoles

\* Nor the id of a role that is.
LEMMA CustomIsNoRole == CustomAgent \notin DefaultRoles
BY DEF CustomAgent, DefaultRoles, DefaultDependencies

\* The plans that are shipped name shipped roles only.
LEMMA PlansNameShippedRoles == \A a \in DefaultAgents : ToSet(DefaultAgentRoles[a]) \subseteq DefaultRoles
BY ShippedAssumption, LenProperties, ElementOfSeq DEF ToSet

\* At first there is the catalog as it is shipped.
LEMMA InitCatalogInv == CatalogInit => CatalogInv
<1> SUFFICES ASSUME CatalogInit PROVE CatalogInv
  OBVIOUS
<1>1. CatalogRows
  BY DEF CatalogInit, CatalogRows, RoleIds
<1>2. RolesAsShipped /\ AgentsAsShipped
  BY DEF CatalogInit, RolesAsShipped, AgentsAsShipped, RoleIds, AgentIds
<1>3. PlanIsShipped
  BY DEF CatalogInit, PlanIsShipped, Jobless
<1> QED BY <1>1, <1>2, <1>3 DEF CatalogInv

\* ensureDefaultAiAgentCatalog restores what is shipped.
LEMMA SeedKeeps ==
  ASSUME CatalogInv, SeedCatalog
  PROVE  CatalogInv'
<1>1. CatalogRows'
  BY DEF CatalogInv, CatalogRows, SeedCatalog, RoleIds
<1>2. RolesAsShipped' /\ AgentsAsShipped'
  BY DEF SeedCatalog, RolesAsShipped, AgentsAsShipped, SeededDependencies, RoleIds, AgentIds
<1>3. PlanIsShipped'
  BY <1>2 DEF CatalogInv, SeedCatalog, PlanIsShipped
<1> QED BY <1>1, <1>2, <1>3 DEF CatalogInv

\* An edit of something that is not shipped leaves what is.
LEMMA DeletionsKeep ==
  ASSUME CatalogInv, NEW id, DeleteRole(id)
  PROVE  CatalogInv'
<1>1. /\ id \in roleRows /\ roleRows' = roleRows \ {id} /\ newRow' = newRow
      /\ dependsOn' = [r \in RoleIds |-> IF r = id THEN {} ELSE dependsOn[r] \ {id}]
      /\ agentRoles' = [a \in AgentIds |-> IF id \in ToSet(agentRoles[a])
                                           THEN Without(agentRoles[a], id)
                                           ELSE agentRoles[a]]
      /\ edited' = (edited \/ id \in DefaultRoles \union DefaultAgents)
      /\ planned' = IF planned.at = "reading" /\ id \in DefaultRoles \union DefaultAgents
                    THEN [planned EXCEPT !.tainted = TRUE] ELSE planned
  BY DEF DeleteRole, Edit, Seen
<1>2. CatalogRows'
  BY <1>1 DEF CatalogInv, CatalogRows
<1>3. CASE id \notin DefaultRoles \union DefaultAgents
  <2>1. RolesAsShipped => RolesAsShipped'
    <3> SUFFICES ASSUME RolesAsShipped PROVE RolesAsShipped'
      OBVIOUS
    <3>1. ASSUME NEW r \in DefaultRoles PROVE dependsOn'[r] = DefaultDependencies[r]
      <4>1. DefaultDependencies[r] \subseteq DefaultRoles /\ r \in RoleIds /\ r # id
        BY <1>3, ShippedAssumption DEF RoleIds
      <4>2. dependsOn'[r] = dependsOn[r] \ {id}
        BY <1>1, <4>1
      <4> QED BY <1>3, <4>1, <4>2 DEF RolesAsShipped
    <3> QED BY <1>1, <1>3, <3>1 DEF RolesAsShipped
  <2>2. AgentsAsShipped => AgentsAsShipped'
    <3> SUFFICES ASSUME AgentsAsShipped, NEW a \in DefaultAgents
                 PROVE  agentRoles'[a] = DefaultAgentRoles[a]
      BY DEF AgentsAsShipped
    <3>1. id \notin ToSet(agentRoles[a])
      BY <1>3, PlansNameShippedRoles DEF AgentsAsShipped
    <3> QED BY <1>1, <3>1 DEF AgentsAsShipped, AgentIds
  <2> QED BY <1>1, <1>2, <1>3, <2>1, <2>2 DEF CatalogInv, PlanIsShipped
<1>4. CASE id \in DefaultRoles \union DefaultAgents
  <2>1. edited'
    BY <1>1, <1>4
  <2>2. PlanIsShipped'
    BY <1>1, <1>4 DEF CatalogInv, PlanIsShipped
  <2> QED BY <1>2, <2>1, <2>2 DEF CatalogInv
<1> QED BY <1>3, <1>4

\* An edit of a row an admin made leaves the shipped ones.
LEMMA UpdatesKeep ==
  ASSUME CatalogInv, NEW id, NEW list, UpdateRole(id, list) \/ UpdateAgent(id, list)
  PROVE  CatalogInv'
<1>1. /\ \/ /\ id \in RoleIds /\ dependsOn' = [dependsOn EXCEPT ![id] = ToSet(list)]
            /\ agentRoles' = agentRoles
         \/ /\ id \in AgentIds /\ agentRoles' = [agentRoles EXCEPT ![id] = list]
            /\ dependsOn' = dependsOn
      /\ UNCHANGED <<roleRows, newRow>>
      /\ edited' = (edited \/ id \in DefaultRoles \union DefaultAgents)
      /\ planned' = IF planned.at = "reading" /\ id \in DefaultRoles \union DefaultAgents
                    THEN [planned EXCEPT !.tainted = TRUE] ELSE planned
  BY DEF UpdateRole, UpdateAgent, Edit, Seen, CatalogInv, CatalogRows
<1>2. CatalogRows'
  BY <1>1 DEF CatalogInv, CatalogRows
<1>3. CASE id \notin DefaultRoles \union DefaultAgents
  <2>1. RolesAsShipped => RolesAsShipped'
    BY <1>1, <1>3 DEF RolesAsShipped, CatalogInv, CatalogRows, RoleIds
  <2>2. AgentsAsShipped => AgentsAsShipped'
    BY <1>1, <1>3 DEF AgentsAsShipped, CatalogInv, CatalogRows, AgentIds
  <2> QED BY <1>1, <1>2, <1>3, <2>1, <2>2 DEF CatalogInv, PlanIsShipped
<1>4. CASE id \in DefaultRoles \union DefaultAgents
  <2>1. edited'
    BY <1>1, <1>4
  <2>2. PlanIsShipped'
    BY <1>1, <1>4 DEF CatalogInv, PlanIsShipped
  <2> QED BY <1>2, <2>1, <2>2 DEF CatalogInv
<1> QED BY <1>3, <1>4

\* What admins create is theirs, and an agent that goes takes its jobs' plans with it.
LEMMA CreationsAndEndsKeep ==
  ASSUME CatalogInv,
         \/ \E id, list : CreateRow(id, list)
         \/ CreateLinks \/ LinksFail
         \/ \E id : DeleteAgent(id)
  PROVE  CatalogInv'
<1>1. CASE \E id, list : CreateRow(id, list)
  <2>1. PICK id, list : CreateRow(id, list)
    BY <1>1
  <2>2. /\ roleRows' \subseteq RoleIds /\ roleRows \subseteq roleRows'
        /\ agentRoles' = agentRoles \/ agentRoles' = [agentRoles EXCEPT ![CustomAgent] = <<>>]
        /\ newRow' = [id |-> id, list |-> list] /\ id \in CustomRoles \union {CustomAgent}
        /\ edited' \in BOOLEAN /\ (edited => edited')
        /\ UNCHANGED <<dependsOn, planned>>
    BY <2>1 DEF CreateRow, Edit, CatalogInv, CatalogRows, RoleIds
  <2>3. CatalogRows'
    BY <2>2 DEF CatalogInv, CatalogRows
  <2>4. (RolesAsShipped => RolesAsShipped') /\ (AgentsAsShipped => AgentsAsShipped')
    BY <2>2, CustomIsNotShipped DEF RolesAsShipped, AgentsAsShipped, CatalogInv, CatalogRows, AgentIds
  <2> QED BY <2>2, <2>3, <2>4 DEF CatalogInv, PlanIsShipped
<1>2. CASE CreateLinks
  <2>1. /\ newRow.id \in CustomRoles \union {CustomAgent}
        /\ \/ /\ newRow.id \in roleRows /\ agentRoles' = agentRoles
              /\ dependsOn' = [dependsOn EXCEPT ![newRow.id] = ToSet(newRow.list)]
           \/ /\ newRow.id = CustomAgent /\ dependsOn' = dependsOn
              /\ agentRoles' = [agentRoles EXCEPT ![newRow.id] = newRow.list]
        /\ newRow' = Nothing /\ UNCHANGED <<roleRows, edited, planned>>
    BY <1>2 DEF CreateLinks, CatalogInv, CatalogRows
  <2>2. CatalogRows'
    BY <2>1 DEF CatalogInv, CatalogRows
  <2>3. AgentsAsShipped => AgentsAsShipped'
    BY <2>1, CustomIsNotShipped DEF AgentsAsShipped, CatalogInv, CatalogRows, AgentIds
  <2>4. RolesAsShipped => RolesAsShipped'
    <3>1. newRow.id \in roleRows => newRow.id \notin DefaultRoles
      BY <2>1, CatalogAssumption, CustomIsNoRole
    <3> QED BY <2>1, <3>1 DEF RolesAsShipped, CatalogInv, CatalogRows, RoleIds
  <2> QED BY <2>1, <2>2, <2>3, <2>4 DEF CatalogInv, PlanIsShipped
<1>3. CASE LinksFail
  BY <1>3 DEF LinksFail, CatalogInv, CatalogRows, RolesAsShipped, AgentsAsShipped, PlanIsShipped
<1>4. CASE \E id : DeleteAgent(id)
  <2>1. PICK id : DeleteAgent(id)
    BY <1>4
  <2>2. /\ id \in AgentIds /\ agentRoles' = [agentRoles EXCEPT ![id] = NoAgent]
        /\ edited' = (edited \/ id \in DefaultRoles \union DefaultAgents)
        /\ UNCHANGED <<roleRows, dependsOn, newRow>>
        /\ planned' = IF planned.at \in {"queued", "reading"} /\ planned.agent = id
                      THEN [planned EXCEPT !.agent = "none", !.tainted = TRUE] ELSE planned
    BY <2>1 DEF DeleteAgent, Edit
  <2>3. CatalogRows'
    BY <2>2 DEF CatalogInv, CatalogRows
  <2>4. RolesAsShipped => RolesAsShipped'
    BY <2>2 DEF RolesAsShipped
  <2>5. AgentsAsShipped /\ ~ edited' => AgentsAsShipped'
    BY <2>2 DEF AgentsAsShipped, CatalogInv, CatalogRows, AgentIds
  <2>6. edited => edited'
    BY <2>2
  <2>7. PlanIsShipped'
    BY <2>2, <2>4 DEF CatalogInv, PlanIsShipped
  <2> QED BY <2>3, <2>4, <2>5, <2>6, <2>7 DEF CatalogInv
<1> QED BY <1>1, <1>2, <1>3, <1>4

\* A job takes the plan of its agent in two reads.
LEMMA JobStepsKeep ==
  ASSUME CatalogInv, UNCHANGED editVars,
         (\E a \in AgentIds : SubmitPlanned(a)) \/ ReadAgent \/ ReadDependencies \/ ForgetJob
  PROVE  CatalogInv'
<1>1. CatalogRows' /\ (RolesAsShipped <=> RolesAsShipped') /\ (AgentsAsShipped <=> AgentsAsShipped')
      /\ edited' = edited
  BY DEF editVars, CatalogInv, CatalogRows, RolesAsShipped, AgentsAsShipped
<1>2. PlanIsShipped'
  <2>1. CASE \E a \in AgentIds : SubmitPlanned(a)
    BY <2>1 DEF SubmitPlanned, PlanIsShipped, AgentIds, DefaultAgents, DefaultAgentRoles, CustomAgent
  <2>2. CASE ReadAgent
    BY <1>1, <2>2 DEF ReadAgent, PlanIsShipped, CatalogInv, CatalogRows, AgentsAsShipped
  <2>3. CASE ReadDependencies
    <3>1. /\ planned.at = "reading"
          /\ planned' = [planned EXCEPT !.at = "done", !.verdict =
                   IF \E r \in ToSet(planned.list) : r \notin roleRows THEN "role gone"
                   ELSE IF GraphIsAccepted(planned.list) THEN "accepted" ELSE "cycle"]
      BY <2>3 DEF ReadDependencies
    <3>2. ASSUME ~ planned.tainted, planned.agent \in DefaultAgents
          PROVE  planned'.verdict = "accepted"
      <4>1. RolesAsShipped /\ planned.list = DefaultAgentRoles[planned.agent]
        BY <3>1, <3>2 DEF CatalogInv, PlanIsShipped
      <4>2. ToSet(planned.list) \subseteq DefaultRoles
        BY <3>2, <4>1, PlansNameShippedRoles
      <4>3. Read(dependsOn, planned.list) = Read(DefaultDependencies, planned.list)
        BY <4>1, <4>2 DEF Read, RolesAsShipped
      <4>4. GraphIsAccepted(planned.list)
        BY <3>2, <4>1, <4>3, ShippedAssumption DEF GraphIsAccepted
      <4> QED BY <3>1, <4>1, <4>2, <4>4 DEF RolesAsShipped, CatalogInv, PlanIsShipped
    <3> QED BY <1>1, <3>1, <3>2 DEF CatalogInv, PlanIsShipped
  <2>4. CASE ForgetJob
    BY <2>4 DEF ForgetJob, PlanIsShipped, Jobless
  <2> QED BY <2>1, <2>2, <2>3, <2>4
<1> QED BY <1>1, <1>2 DEF CatalogInv

\* Every step on the catalog keeps the invariant.
LEMMA NextCatalogInv == CatalogInv /\ [CatalogNext]_catalogVars => CatalogInv'
<1> SUFFICES ASSUME CatalogInv, [CatalogNext]_catalogVars PROVE CatalogInv'
  OBVIOUS
<1>1. CASE UNCHANGED catalogVars
  BY <1>1 DEF catalogVars, CatalogInv, CatalogRows, RolesAsShipped, AgentsAsShipped, PlanIsShipped
<1>2. CASE SeedCatalog
  BY <1>2, SeedKeeps
<1>3. CASE AdminStep
  BY <1>3, DeletionsKeep, UpdatesKeep, CreationsAndEndsKeep, Zenon DEF AdminStep
<1>4. CASE (\E a \in AgentIds : SubmitPlanned(a)) \/ ReadAgent \/ ReadDependencies \/ ForgetJob
  <2>1. UNCHANGED editVars
    BY <1>4 DEF SubmitPlanned, ReadAgent, ReadDependencies, ForgetJob
  <2> QED BY <1>4, <2>1, JobStepsKeep
<1> QED BY <1>1, <1>2, <1>3, <1>4 DEF CatalogNext

\* Catalog and job keep their inductive invariant, for every set of custom roles and every
\* number of edits.
THEOREM CatalogInvariant == CatalogSpec => []CatalogInv
BY InitCatalogInv, NextCatalogInv, PTL DEF CatalogSpec

\* DefaultPlanIsAccepted: ensureDefaultAiAgentCatalog and the guards of the admin routes keep
\* the shipped rows, so that a job whose plan nobody touched between its two reads has a graph
\* that buildRoleExecutionGraph accepts.
THEOREM ShippedPlansAreAccepted == CatalogSpec => []DefaultPlanIsAccepted
<1>1. CatalogInv => DefaultPlanIsAccepted
  BY DEF CatalogInv, PlanIsShipped, DefaultPlanIsAccepted
<1> QED BY <1>1, CatalogInvariant, PTL

\* A list that has a role once does not have it any more.
LEMMA WithoutIsWithout ==
  ASSUME NEW R, NEW list \in Seq(R), IsInjective(list), NEW id \in ToSet(list)
  PROVE  Without(list, id) \in Seq(R \ {id}) /\ IsInjective(Without(list, id))
<1> DEFINE k == CHOOSE i \in DOMAIN list : list[i] = id
           n == Len(list)
           first == SubSeq(list, 1, k - 1)
           second == SubSeq(list, k + 1, n)
           new == first \o second
<1>1. n \in Nat /\ DOMAIN list = 1 .. n /\ \A i \in 1 .. n : list[i] \in R
  BY LenProperties, ElementOfSeq
<1>2. k \in 1 .. n /\ list[k] = id
  BY <1>1 DEF ToSet
<1>3. \A i \in 1 .. n : i # k => list[i] \in R \ {id}
  BY <1>1, <1>2 DEF IsInjective
<1> HIDE DEF k, n
<1>4. /\ first \in Seq(R \ {id}) /\ Len(first) = k - 1
      /\ \A i \in 1 .. k - 1 : first[i] = list[i]
  <2>1. \A i \in 1 .. k - 1 : list[i] \in R \ {id}
    BY <1>1, <1>2, <1>3
  <2>2. /\ SubSeq(list, 1, k - 1) \in Seq(R \ {id})
        /\ Len(SubSeq(list, 1, k - 1)) = IF 1 <= k - 1 THEN (k - 1) - 1 + 1 ELSE 0
        /\ \A i \in 1 .. (k - 1) - 1 + 1 : SubSeq(list, 1, k - 1)[i] = list[1 + i - 1]
    <3>1. 1 \in Int /\ k - 1 \in Int
      BY <1>1, <1>2
    <3> DEFINE S == R \ {id}
    <3>2. \A i \in 1 .. k - 1 : list[i] \in S
      BY <2>1
    <3> HIDE DEF S
    <3>3. /\ SubSeq(list, 1, k - 1) \in Seq(S)
          /\ Len(SubSeq(list, 1, k - 1)) = IF 1 <= k - 1 THEN (k - 1) - 1 + 1 ELSE 0
          /\ \A i \in 1 .. (k - 1) - 1 + 1 : SubSeq(list, 1, k - 1)[i] = list[1 + i - 1]
      BY <3>1, <3>2, SubSeqProperties
    <3> QED BY <3>3 DEF S
  <2> QED BY <1>1, <1>2, <2>2
<1>5. /\ second \in Seq(R \ {id}) /\ Len(second) = n - k
      /\ \A i \in 1 .. n - k : second[i] = list[k + i]
  <2>1. \A i \in k + 1 .. n : list[i] \in R \ {id}
    BY <1>1, <1>2, <1>3
  <2>2. /\ SubSeq(list, k + 1, n) \in Seq(R \ {id})
        /\ Len(SubSeq(list, k + 1, n)) = IF k + 1 <= n THEN n - (k + 1) + 1 ELSE 0
        /\ \A i \in 1 .. n - (k + 1) + 1 : SubSeq(list, k + 1, n)[i] = list[(k + 1) + i - 1]
    <3>1. k + 1 \in Int /\ n \in Int
      BY <1>1, <1>2
    <3> DEFINE S == R \ {id}
    <3>2. \A i \in k + 1 .. n : list[i] \in S
      BY <2>1
    <3> HIDE DEF S
    <3>3. /\ SubSeq(list, k + 1, n) \in Seq(S)
          /\ Len(SubSeq(list, k + 1, n)) = IF k + 1 <= n THEN n - (k + 1) + 1 ELSE 0
          /\ \A i \in 1 .. n - (k + 1) + 1 : SubSeq(list, k + 1, n)[i] = list[(k + 1) + i - 1]
      BY <3>1, <3>2, SubSeqProperties
    <3> QED BY <3>3 DEF S
  <2> QED BY <1>1, <1>2, <2>2
<1> HIDE DEF first, second
<1>6. /\ new \in Seq(R \ {id}) /\ Len(new) = n - 1
      /\ \A i \in 1 .. n - 1 : new[i] = IF i < k THEN list[i] ELSE list[i + 1]
  <2>1. /\ new \in Seq(R \ {id}) /\ Len(new) = Len(first) + Len(second)
        /\ \A i \in 1 .. Len(first) + Len(second) :
             new[i] = IF i <= Len(first) THEN first[i] ELSE second[i - Len(first)]
    BY <1>4, <1>5, ConcatProperties
  <2>2. Len(first) + Len(second) = n - 1
    BY <1>1, <1>2, <1>4, <1>5
  <2>3. ASSUME NEW i \in 1 .. n - 1 PROVE new[i] = IF i < k THEN list[i] ELSE list[i + 1]
    <3>1. i <= Len(first) <=> i < k
      BY <1>1, <1>2, <1>4
    <3>2. CASE i < k
      <4>1. i \in 1 .. k - 1
        BY <1>2, <3>2
      <4> QED BY <1>4, <2>1, <2>2, <3>1, <3>2, <4>1
    <3>3. CASE ~ (i < k)
      <4>1. i - (k - 1) \in 1 .. n - k /\ k + (i - (k - 1)) = i + 1
        BY <1>1, <1>2, <3>3
      <4>2. new[i] = second[i - (k - 1)]
        BY <1>4, <2>1, <2>2, <3>1, <3>3
      <4> QED BY <1>5, <3>3, <4>1, <4>2
    <3> QED BY <3>2, <3>3
  <2> QED BY <2>1, <2>2, <2>3
<1> HIDE DEF new
<1>7. IsInjective(new)
  <2>1. DOMAIN new = 1 .. n - 1
    BY <1>6, LenProperties
  <2>2. \A i, j \in 1 .. n : list[i] = list[j] => i = j
    BY <1>1 DEF IsInjective
  <2> QED BY <1>1, <1>2, <1>6, <2>1, <2>2 DEF IsInjective
<1> QED BY <1>6, <1>7 DEF Without, RemoveAt, new, first, second, k, n

\* The lists of the rows, and all that CatalogInv does not speak of.
ListOf(roles) == {list \in Seq(roles) : IsInjective(list)}
CatalogRest ==
  /\ dependsOn \in [RoleIds -> SUBSET roleRows]
  /\ agentRoles \in [AgentIds -> ListOf(roleRows) \union {NoAgent}]
  /\ newRow # Nothing => newRow.list \in Lists
  /\ edits \in 0 .. MaxEdits

\* A list of Lists whose roles are there is a list of those roles,
LEMMA ListsOf ==
  ASSUME NEW list \in Lists, NEW roles, ToSet(list) \subseteq roles
  PROVE  list \in ListOf(roles)
<1>1. list \in Seq(RoleIds) /\ IsInjective(list)
  BY CatalogAssumption
<1>2. list \in [1 .. Len(list) -> roles] /\ Len(list) \in Nat
  BY <1>1, LenProperties DEF ToSet
<1>3. list \in Seq(roles)
  BY <1>2, SeqDef
<1> QED BY <1>1, <1>3 DEF ListOf

\* and of more roles,
LEMMA ListsGrow == ASSUME NEW R, NEW S, R \subseteq S PROVE ListOf(R) \subseteq ListOf(S)
BY SeqDef DEF ListOf

\* and has no others.
LEMMA ListsAreWithin == ASSUME NEW R, NEW list \in ListOf(R) PROVE ToSet(list) \subseteq R
BY LenProperties, ElementOfSeq DEF ListOf, ToSet

\* Every edit keeps the references of the rows within the rows: what deleteAiRole removes goes
\* from the lists and from the dependencies too.
LEMMA CatalogRestKeeps ==
  CatalogInv /\ CatalogRest /\ [CatalogNext]_catalogVars => CatalogRest'
<1> SUFFICES ASSUME CatalogInv, CatalogRest, [CatalogNext]_catalogVars PROVE CatalogRest'
  OBVIOUS
<1>0. /\ dependsOn \in [RoleIds -> SUBSET roleRows]
      /\ agentRoles \in [AgentIds -> ListOf(roleRows) \union {NoAgent}]
      /\ newRow # Nothing => newRow.list \in Lists
      /\ edits \in 0 .. MaxEdits /\ roleRows \subseteq RoleIds
      /\ newRow = Nothing \/ newRow.id \in CustomRoles \union {CustomAgent}
  BY DEF CatalogRest, CatalogInv, CatalogRows
<1>e. edits' = edits + 1 /\ edits < MaxEdits => edits' \in 0 .. MaxEdits
  BY <1>0, CatalogAssumption
<1>1. CASE SeedCatalog
  <2>1. ASSUME NEW r \in RoleIds PROVE dependsOn'[r] \subseteq roleRows'
    BY <1>0, <1>1, ShippedAssumption DEF SeedCatalog, SeededDependencies
  <2>2. ASSUME NEW a \in AgentIds PROVE agentRoles'[a] \in ListOf(roleRows') \union {NoAgent}
    <3>1. ListOf(roleRows) \subseteq ListOf(roleRows') /\ ListOf(DefaultRoles) \subseteq ListOf(roleRows')
      BY <1>1, ListsGrow DEF SeedCatalog
    <3>2. CASE a \in DefaultAgents
      <4>1. DefaultAgentRoles[a] \in ListOf(DefaultRoles)
        BY <3>2, ShippedAssumption DEF ListOf
      <4> QED BY <1>1, <3>1, <3>2, <4>1 DEF SeedCatalog
    <3>3. CASE a \notin DefaultAgents
      BY <1>0, <1>1, <3>1, <3>3 DEF SeedCatalog
    <3> QED BY <3>2, <3>3
  <2>3. /\ dependsOn' = [r \in RoleIds |-> dependsOn'[r]] /\ agentRoles' = [a \in AgentIds |-> agentRoles'[a]]
        /\ newRow' = newRow /\ edits' = edits
    BY <1>1 DEF SeedCatalog
  <2> QED BY <1>0, <2>1, <2>2, <2>3 DEF CatalogRest
<1>2. ASSUME NEW id, NEW list \in Lists, CreateRow(id, list) PROVE CatalogRest'
  <2>1. /\ newRow' = [id |-> id, list |-> list] /\ edits' \in 0 .. MaxEdits /\ dependsOn' = dependsOn
        /\ roleRows \subseteq roleRows'
        /\ agentRoles' = agentRoles \/ agentRoles' = [agentRoles EXCEPT ![id] = <<>>]
    BY <1>2, <1>e DEF CreateRow, Edit
  <2>2. <<>> \in ListOf(roleRows')
    BY DEF ListOf, IsInjective
  <2>3. ListOf(roleRows) \subseteq ListOf(roleRows')
    BY <2>1, ListsGrow
  <2>4. agentRoles' \in [AgentIds -> ListOf(roleRows') \union {NoAgent}]
    BY <1>0, <2>1, <2>2, <2>3
  <2>5. dependsOn' \in [RoleIds -> SUBSET roleRows']
    BY <1>0, <2>1
  <2> QED BY <2>1, <2>4, <2>5 DEF CatalogRest
<1>3. ASSUME NEW id, NEW list \in Lists, UpdateRole(id, list) \/ UpdateAgent(id, list) PROVE CatalogRest'
  <2>1. /\ newRow' = newRow /\ edits' \in 0 .. MaxEdits /\ roleRows' = roleRows /\ ToSet(list) \subseteq roleRows
        /\ \/ agentRoles' = agentRoles /\ dependsOn' = [dependsOn EXCEPT ![id] = ToSet(list)]
           \/ agentRoles' = [agentRoles EXCEPT ![id] = list] /\ dependsOn' = dependsOn
    BY <1>3, <1>e DEF UpdateRole, UpdateAgent, Edit
  <2>2. list \in ListOf(roleRows)
    BY <2>1, ListsOf
  <2>3. agentRoles' \in [AgentIds -> ListOf(roleRows') \union {NoAgent}]
    BY <1>0, <2>1, <2>2
  <2>4. dependsOn' \in [RoleIds -> SUBSET roleRows']
    BY <1>0, <2>1
  <2> QED BY <1>0, <2>1, <2>3, <2>4 DEF CatalogRest
<1>4. ASSUME NEW id, DeleteRole(id) PROVE CatalogRest'
  <2>1. /\ id \in roleRows /\ roleRows' = roleRows \ {id} /\ newRow' = newRow /\ edits' \in 0 .. MaxEdits
        /\ dependsOn' = [r \in RoleIds |-> IF r = id THEN {} ELSE dependsOn[r] \ {id}]
        /\ agentRoles' = [a \in AgentIds |-> IF id \in ToSet(agentRoles[a])
                                             THEN Without(agentRoles[a], id) ELSE agentRoles[a]]
    BY <1>4, <1>e DEF DeleteRole, Edit
  <2>2. dependsOn' \in [RoleIds -> SUBSET roleRows']
    BY <1>0, <2>1
  <2>3. ASSUME NEW a \in AgentIds PROVE agentRoles'[a] \in ListOf(roleRows') \union {NoAgent}
    <3>1. CASE id \notin ToSet(agentRoles[a])
      <4>1. agentRoles'[a] = agentRoles[a]
        BY <2>1, <3>1
      <4>2. ASSUME agentRoles[a] \in ListOf(roleRows) PROVE agentRoles[a] \in ListOf(roleRows')
        <5>1. ToSet(agentRoles[a]) \subseteq roleRows'
          BY <2>1, <3>1, <4>2, ListsAreWithin
        <5>2. /\ Len(agentRoles[a]) \in Nat /\ agentRoles[a] \in [1 .. Len(agentRoles[a]) -> roleRows']
              /\ IsInjective(agentRoles[a])
          BY <4>2, <5>1, LenProperties DEF ToSet, ListOf
        <5> QED BY <5>2, SeqDef DEF ListOf
      <4> QED BY <1>0, <4>1, <4>2
    <3>2. ASSUME id \in ToSet(agentRoles[a]), NEW R, agentRoles[a] \in ListOf(R), R \ {id} \subseteq roleRows'
          PROVE  agentRoles'[a] \in ListOf(roleRows')
      <4>1. Without(agentRoles[a], id) \in ListOf(R \ {id})
        BY <3>2, WithoutIsWithout DEF ListOf
      <4>2. agentRoles'[a] = Without(agentRoles[a], id)
        BY <2>1, <3>2
      <4> QED BY <3>2, <4>1, <4>2, ListsGrow
    <3>3. CASE id \in ToSet(agentRoles[a]) /\ agentRoles[a] = NoAgent
      <4>0. NoAgent \in Seq({"no agent"}) /\ DOMAIN NoAgent = {1} /\ NoAgent[1] = "no agent"
        BY DEF NoAgent
      <4>1. NoAgent \in ListOf({"no agent"}) /\ ToSet(NoAgent) = {"no agent"}
        BY <4>0 DEF ListOf, IsInjective, ToSet
      <4> QED BY <3>2, <3>3, <4>1
    <3>4. CASE id \in ToSet(agentRoles[a]) /\ agentRoles[a] \in ListOf(roleRows)
      BY <2>1, <3>2, <3>4
    <3> QED BY <1>0, <3>1, <3>3, <3>4
  <2>4. agentRoles' \in [AgentIds -> ListOf(roleRows') \union {NoAgent}]
    BY <2>1, <2>3
  <2> QED BY <1>0, <2>1, <2>2, <2>4 DEF CatalogRest
<1>5. ASSUME NEW id, DeleteAgent(id) PROVE CatalogRest'
  <2>1. /\ newRow' = newRow /\ edits' \in 0 .. MaxEdits /\ roleRows' = roleRows /\ dependsOn' = dependsOn
        /\ agentRoles' = [agentRoles EXCEPT ![id] = NoAgent]
    BY <1>5, <1>e DEF DeleteAgent, Edit
  <2>2. agentRoles' \in [AgentIds -> ListOf(roleRows') \union {NoAgent}]
    BY <1>0, <2>1
  <2> QED BY <1>0, <2>1, <2>2 DEF CatalogRest
<1>6. CASE CreateLinks
  <2>1. /\ newRow # Nothing /\ ToSet(newRow.list) \subseteq roleRows
        /\ newRow' = Nothing /\ edits' = edits /\ roleRows' = roleRows
        /\ \/ dependsOn' = [dependsOn EXCEPT ![newRow.id] = ToSet(newRow.list)] /\ agentRoles' = agentRoles
           \/ agentRoles' = [agentRoles EXCEPT ![newRow.id] = newRow.list] /\ dependsOn' = dependsOn
    BY <1>6 DEF CreateLinks
  <2>2. newRow.list \in ListOf(roleRows)
    BY <1>0, <2>1, ListsOf
  <2>3. agentRoles' \in [AgentIds -> ListOf(roleRows') \union {NoAgent}]
    BY <1>0, <2>1, <2>2
  <2>4. dependsOn' \in [RoleIds -> SUBSET roleRows']
    BY <1>0, <2>1
  <2> QED BY <1>0, <2>1, <2>3, <2>4 DEF CatalogRest
<1>7. CASE LinksFail
  BY <1>0, <1>7 DEF LinksFail, CatalogRest
<1>8. CASE \/ \E a \in AgentIds : SubmitPlanned(a)
           \/ ReadAgent \/ ReadDependencies \/ ForgetJob \/ UNCHANGED catalogVars
  <2>1. UNCHANGED editVars
    BY <1>8 DEF SubmitPlanned, ReadAgent, ReadDependencies, ForgetJob, catalogVars, editVars
  <2> QED BY <1>0, <2>1 DEF CatalogRest, editVars
<1> QED BY <1>1, <1>2, <1>3, <1>4, <1>5, <1>6, <1>7, <1>8 DEF CatalogNext, AdminStep

\* CatalogType: no agent has, and no role depends on, a role without a row.
THEOREM CatalogTypes == CatalogSpec => []CatalogType
<1>1. ASSUME CatalogInit PROVE CatalogRest
  <2>1. 0 \in 0 .. MaxEdits
    BY CatalogAssumption
  <2>2. \A a \in DefaultAgents : DefaultAgentRoles[a] \in ListOf(DefaultRoles)
    BY ShippedAssumption DEF ListOf
  <2>3. agentRoles \in [AgentIds -> ListOf(roleRows) \union {NoAgent}]
    BY <1>1, <2>2 DEF CatalogInit
  <2>4. dependsOn \in [RoleIds -> SUBSET roleRows]
    BY <1>1, ShippedAssumption DEF CatalogInit
  <2> QED BY <1>1, <2>1, <2>3, <2>4 DEF CatalogInit, CatalogRest
<1>2. CatalogInv /\ CatalogRest => CatalogType
  BY ListsAreWithin DEF CatalogInv, CatalogRows, CatalogRest, CatalogType
<1> QED BY <1>1, <1>2, CatalogRestKeeps, CatalogInvariant, PTL DEF CatalogSpec

-----------------------------------------------------------------------------
(* Who may do what in a workspace *)

\* The people, their requests, and the job of one workspace.
SpaceSpec == SpaceInit /\ [][SpaceNext]_spaceVars

\* Where a request may be, and what it knows there.
Stations == {"identity", "user", "role", "write", "audit"}
KnownAt(at) ==
  {"at", "person", "mail", "op", "arg"}
    \union (IF at = "identity" THEN {} ELSE {"row"})
    \union (IF at \in {"role", "write", "audit"} THEN {"user"} ELSE {})
    \union (IF at = "audit" THEN {"target"} ELSE {})

\* Of the ids given away there is a highest.
HasTop(ids) == ids \subseteq Nat /\ \E top \in ids : \A i \in ids : i <= top
IdsOf(entries) == {r.id : r \in entries} \union {0}

\* Person p with address m may act as user i.
MayActAs(p, m, i, history, signed) ==
  \E c \in history : c[2] = i /\ (c[1] = p \/ <<c[1], m>> \in signed)

\* A request that has found a user found it by its person or the address.
Sought(q, history, signed) ==
  \/ q = Quiet
  \/ /\ q.at \in Stations /\ q = [x \in KnownAt(q.at) |-> q[x]]
     /\ q.person \in People /\ q.mail \in Mails
     /\ q.at # "identity" => \A i \in q.row : MayActAs(q.person, q.mail, i, history, signed)

\* People with a user in common are linked by addresses they signed in with.
Linked(a, history, signed) ==
  \E c \in history : /\ c[2] = a[2] /\ c[1] # a[1]
                     /\ \E m \in Mails : <<a[1], m>> \in signed /\ <<c[1], m>> \in signed

\* Users are apart from each other, everybody is a user or was followed by another.
UsersFit ==
  /\ \A u \in users : u.id \in Nat /\ u.person \in People /\ u.mail \in Mails
  /\ HasTop(IdsOf(users))
  /\ \A u, v \in users : u.id = v.id \/ u.person = v.person \/ u.mail = v.mail => u = v
  /\ acted \subseteq People \X Nat /\ wrote \subseteq People \X Mails
  /\ \A u \in users : <<u.person, u.id>> \in acted /\ <<u.person, u.mail>> \in wrote
  /\ \A a \in acted : \E u \in users :
       u.id = a[2] /\ (u.person = a[1] \/ \E c \in acted : c[2] = a[2] /\ c[1] # a[1])
  /\ \A a, b \in acted : a[2] = b[2] /\ a[1] # b[1] => Linked(a, acted, wrote)

\* A removed row is gone, and its id is not to come.
Removals == {"remove", "delete"}
Gone(op, x, ids, people, hidden) ==
  /\ op = "remove" => x \in Nat /\ x <= ids /\ \A m \in people : m.id # x
  /\ op = "delete" => x \in Nat /\ x <= ids /\ \A s \in hidden : s.id # x

\* Request q is about to log that it did op to x.
Tells(q, op, x) == q.at = "audit" /\ q.op = op /\ q.target = x

\* What the log says, or a request is about to say, is so, and nobody else says it.
TrailFits ==
  /\ \A a \in trail : Gone(a.op, a.target, made.ids, members, secrets)
  /\ \A r \in Requests : request[r].at = "audit" =>
       Gone(request[r].op, request[r].target, made.ids, members, secrets)
  /\ \A a, b \in trail : a.op \in Removals /\ b.op = a.op /\ b.target = a.target => a = b
  /\ \A a \in trail, r \in Requests : a.op \in Removals => ~ Tells(request[r], a.op, a.target)
  /\ \A r, s \in Requests :
       r # s /\ request[r].at = "audit" /\ request[r].op \in Removals =>
         ~ Tells(request[s], request[r].op, request[r].target)

\* Ids of members and secrets are those given away so far.
RowsFit ==
  /\ made = [x \in {"requests", "moves", "ids"} |-> made[x]] /\ made.ids \in Nat
  /\ \A m \in members : m.id \in Nat /\ m.id <= made.ids
  /\ \A s \in secrets : s.id \in Nat /\ s.id <= made.ids

\* There is one workspace 1.
SpacesFit ==
  /\ HasTop(IdsOf(spaces))
  /\ \E w \in spaces : w.id = 1 /\ \A v \in spaces : v.id = 1 => v = w

\* Only its owner has secrets given to the job.
JobFits ==
  job # NoJob =>
    /\ job.at \in {"queued", "running"}
    /\ job = [x \in {"at", "by", "refs"} \union (IF job.at = "running" THEN {"given"} ELSE {}) |-> job[x]]
    /\ job.refs # {} => job.by = Owner1
    /\ job.at = "running" => \A s \in job.given : s.space = 1 /\ s.id \in job.refs

\* Requests know what they should.
RequestsFit ==
  /\ request = [r \in Requests |-> request[r]]
  /\ \A r \in Requests : Sought(request[r], acted, wrote)

\* The parts of the inductive invariant.
SpaceInv == UsersFit /\ RowsFit /\ SpacesFit /\ TrailFits /\ JobFits /\ RequestsFit

\* The highest id is Fresh's: nobody has the next one.
LEMMA FreshIsNew ==
  ASSUME NEW entries, HasTop(IdsOf(entries))
  PROVE  /\ Fresh(entries) \in Nat /\ Fresh(entries) \notin IdsOf(entries)
         /\ \A i \in IdsOf(entries) : i < Fresh(entries)
<1> DEFINE ids == IdsOf(entries)
<1>1. PICK top \in ids : \A i \in ids : i <= top
  BY DEF HasTop
<1>2. ids \subseteq Nat
  BY DEF HasTop
<1> HIDE DEF ids
<1>3. Max(ids) \in ids /\ \A i \in ids : Max(ids) >= i
  <2>1. \A i \in ids : top >= i
    BY <1>1, <1>2
  <2> QED BY <2>1 DEF Max
<1>4. Fresh(entries) = Max(ids) + 1
  BY DEF Fresh, ids, IdsOf
<1>5. \A i \in ids : i \in Nat /\ i <= Max(ids)
  BY <1>2, <1>3
<1> QED BY <1>3, <1>4, <1>5 DEF ids

\* One more id has a highest too.
LEMMA TopGrows ==
  ASSUME NEW ids, HasTop(ids), NEW n \in Nat PROVE HasTop(ids \union {n})
<1>1. PICK top \in ids : ids \subseteq Nat /\ \A i \in ids : i <= top
  BY DEF HasTop
<1>2. CASE n <= top
  BY <1>1, <1>2 DEF HasTop
<1>3. CASE n > top
  <2>1. \A i \in ids \union {n} : i <= n
    BY <1>1, <1>3
  <2> QED BY <1>1, <2>1 DEF HasTop
<1> QED BY <1>1, <1>2, <1>3

\* What is true of a request's past stays true.
LEMMA AsksStill ==
  ASSUME NEW q, NEW history, NEW signed, Sought(q, history, signed),
         NEW history2, history \subseteq history2, NEW signed2, signed \subseteq signed2
  PROVE  Sought(q, history2, signed2)
BY DEF Sought, MayActAs

\* A request that turns to another station keeps what it knows.
LEMMA Turned ==
  ASSUME NEW q, NEW history, NEW signed, Sought(q, history, signed), q.at \in {"role", "write"},
         NEW v
  PROVE  /\ Sought([q EXCEPT !.at = "write"], history, signed)
         /\ [q EXCEPT !.at = "write"].at = "write"
         /\ Sought([q EXCEPT !.at = "write", !.arg = v], history, signed)
         /\ [q EXCEPT !.at = "write", !.arg = v].at = "write"
<1>1. q # Quiet
  BY DEF Quiet
<1>2. /\ q = [x \in KnownAt("write") |-> q[x]] /\ q.person \in People /\ q.mail \in Mails
      /\ \A i \in q.row : MayActAs(q.person, q.mail, i, history, signed)
  BY <1>1 DEF Sought, KnownAt
<1>3. {"at", "person", "mail", "op", "arg", "row", "user"} = KnownAt("write")
  BY DEF KnownAt
<1> DEFINE e == [q EXCEPT !.at = "write"]
           f == [q EXCEPT !.at = "write", !.arg = v]
<1>4. /\ e = [x \in KnownAt("write") |-> e[x]] /\ e.at = "write" /\ e.row = q.row
      /\ e.person = q.person /\ e.mail = q.mail
  BY <1>2, <1>3
<1>5. /\ f = [x \in KnownAt("write") |-> f[x]] /\ f.at = "write" /\ f.row = q.row
      /\ f.person = q.person /\ f.mail = q.mail
  BY <1>2, <1>3
<1> HIDE DEF e, f
<1>6. Sought(e, history, signed) /\ Sought(f, history, signed)
  BY <1>2, <1>4, <1>5 DEF Sought, Stations
<1> QED BY <1>4, <1>5, <1>6 DEF e, f

\* A request that has changed something tells the log what.
LEMMA Announced ==
  ASSUME NEW q, NEW history, NEW signed, Sought(q, history, signed), q.at \in {"role", "write"},
         NEW v
  PROVE  LET e == Knowing([q EXCEPT !.at = "audit"], "target", v)
         IN  /\ Sought(e, history, signed) /\ e.at = "audit" /\ e.op = q.op /\ e.target = v
<1>1. q # Quiet
  BY DEF Quiet
<1>2. /\ q = [x \in KnownAt("write") |-> q[x]] /\ q.person \in People /\ q.mail \in Mails
      /\ \A i \in q.row : MayActAs(q.person, q.mail, i, history, signed)
  BY <1>1 DEF Sought, KnownAt
<1>3. {"at", "person", "mail", "op", "arg", "row", "user"} = KnownAt("write")
  BY DEF KnownAt
<1>4. KnownAt("audit") = KnownAt("write") \union {"target"}
  BY DEF KnownAt
<1> DEFINE d == [q EXCEPT !.at = "audit"]
           e == Knowing(d, "target", v)
<1>5. /\ d = [x \in KnownAt("write") |-> d[x]] /\ d.at = "audit" /\ d.row = q.row
      /\ d.person = q.person /\ d.mail = q.mail /\ d.op = q.op
  BY <1>2, <1>3
<1> HIDE DEF d
<1>7. e = [x \in KnownAt("audit") |-> IF x = "target" THEN v ELSE d[x]]
  BY <1>4, <1>5 DEF Knowing
<1> HIDE DEF e
<1>8. /\ e = [x \in KnownAt("audit") |-> e[x]] /\ e.at = "audit" /\ e.row = q.row
      /\ e.person = q.person /\ e.mail = q.mail /\ e.op = q.op /\ e.target = v
  BY <1>3, <1>4, <1>5, <1>7
<1>9. Sought(e, history, signed)
  BY <1>2, <1>8 DEF Sought, Stations
<1> QED BY <1>8, <1>9 DEF d, e

\* The rows of Ann and Bob, with the addresses a and b.
RowsOf(ann, bob, a, b, rest) ==
  /\ users = {[id |-> 1, person |-> ann, mail |-> a]}
                \union {[id |-> i, person |-> bob, mail |-> b] : i \in rest}
  /\ spaces = {[id |-> i, owner |-> i, slug |-> i] : i \in {1} \union rest}
  /\ members = {[id |-> i, user |-> i] : i \in {1} \union rest}
  /\ secrets = {[id |-> i, space |-> i, version |-> 1] : i \in {1} \union rest}

\* At first there are two users at most, and nobody asks.
LEMMA InitSpaceInv == SpaceInit => SpaceInv
<1> SUFFICES ASSUME SpaceInit PROVE SpaceInv
  OBVIOUS
<1>0. PICK ann, bob, a, b, rest :
        /\ ann \in People /\ bob \in People /\ ann # bob /\ a \in Mails /\ b \in Mails /\ a # b
        /\ rest \in {{}, {2}} /\ RowsOf(ann, bob, a, b, rest)
  <2> DEFINE first == CHOOSE p \in People : TRUE
             other == CHOOSE p \in People \ {first} : TRUE
             m == CHOOSE n \in Mails : TRUE
             n == CHOOSE k \in Mails \ {m} : TRUE
  <2>1. first \in People /\ \E p \in People : p # first
    BY AccessAssumption
  <2>2. other \in People /\ other # first
    BY <2>1
  <2>3. m \in Mails /\ \E k \in Mails : k # m
    BY AccessAssumption
  <2>4. n \in Mails /\ n # m
    BY <2>3
  <2>5. PICK rest \in {{}, {2}} : RowsOf(first, other, m, n, rest)
    BY Zenon DEF SpaceInit, RowsOf
  <2> HIDE DEF first, other, m, n
  <2> QED BY <2>1, <2>2, <2>3, <2>4, <2>5
<1>1. /\ ann \in People /\ bob \in People /\ ann # bob /\ a \in Mails /\ b \in Mails /\ a # b
      /\ rest \in {{}, {2}}
      /\ users = {[id |-> 1, person |-> ann, mail |-> a]}
                    \union {[id |-> i, person |-> bob, mail |-> b] : i \in rest}
      /\ spaces = {[id |-> i, owner |-> i, slug |-> i] : i \in {1} \union rest}
      /\ members = {[id |-> i, user |-> i] : i \in {1} \union rest}
      /\ secrets = {[id |-> i, space |-> i, version |-> 1] : i \in {1} \union rest}
  BY <1>0, Zenon DEF RowsOf
<1>2. /\ acted = {<<u.person, u.id>> : u \in users} /\ wrote = {<<u.person, u.mail>> : u \in users}
      /\ job = NoJob /\ request = [r \in Requests |-> Quiet] /\ trail = {}
      /\ made = [requests |-> 0, moves |-> 0, ids |-> 2]
  BY DEF SpaceInit
<1>3. \A i \in rest : i = 2
  BY <1>1
<1>4. UsersFit
  <2>1. \A u \in users : \/ u.id = 1 /\ u.person = ann /\ u.mail = a
                         \/ u.id = 2 /\ u.person = bob /\ u.mail = b
    BY <1>1, <1>3
  <2>2. \A u, v \in users : u.id = v.id \/ u.person = v.person \/ u.mail = v.mail => u = v
    BY <1>1, <1>3
  <2>3. HasTop(IdsOf(users))
    <3>1. \/ IdsOf(users) = {0, 1} \/ IdsOf(users) = {0, 1, 2}
      <4>1. CASE rest = {}
        <5>1. users = {[id |-> 1, person |-> ann, mail |-> a]}
          BY <1>1, <4>1
        <5> QED BY <5>1 DEF IdsOf
      <4>2. CASE rest = {2}
        <5>1. users = {[id |-> 1, person |-> ann, mail |-> a], [id |-> 2, person |-> bob, mail |-> b]}
          BY <1>1, <4>2
        <5> QED BY <5>1 DEF IdsOf
      <4> QED BY <1>1, <4>1, <4>2
    <3> QED BY <3>1 DEF HasTop
  <2>4. \A x, y \in acted : x[2] = y[2] => x[1] = y[1]
    BY <1>2, <2>2
  <2>5. /\ acted \subseteq People \X Nat /\ wrote \subseteq People \X Mails
        /\ \A u \in users : <<u.person, u.id>> \in acted /\ <<u.person, u.mail>> \in wrote
        /\ \A x \in acted : \E u \in users : u.id = x[2] /\ u.person = x[1]
    BY <1>1, <1>2, <2>1
  <2> QED BY <1>1, <2>1, <2>2, <2>3, <2>4, <2>5 DEF UsersFit
<1>5. RowsFit
  BY <1>1, <1>2, <1>3 DEF RowsFit
<1>6. SpacesFit
  <2>1. HasTop(IdsOf(spaces))
    <3>1. \/ IdsOf(spaces) = {0, 1} \/ IdsOf(spaces) = {0, 1, 2}
      <4>1. CASE rest = {}
        <5>1. spaces = {[id |-> 1, owner |-> 1, slug |-> 1]}
          BY <1>1, <4>1
        <5> QED BY <5>1 DEF IdsOf
      <4>2. CASE rest = {2}
        <5>1. spaces = {[id |-> 1, owner |-> 1, slug |-> 1], [id |-> 2, owner |-> 2, slug |-> 2]}
          BY <1>1, <4>2
        <5> QED BY <5>1 DEF IdsOf
      <4> QED BY <1>1, <4>1, <4>2
    <3> QED BY <3>1 DEF HasTop
  <2>2. [id |-> 1, owner |-> 1, slug |-> 1] \in spaces
    BY <1>1
  <2>3. \A v \in spaces : v.id = 1 => v = [id |-> 1, owner |-> 1, slug |-> 1]
    BY <1>1
  <2> QED BY <2>1, <2>2, <2>3 DEF SpacesFit
<1>7. \A r \in Requests : request[r] = Quiet /\ request[r].at = "none"
  BY <1>2 DEF Quiet
<1>8. TrailFits
  BY <1>2, <1>7 DEF TrailFits, Tells
<1>9. JobFits /\ RequestsFit
  BY <1>2, <1>7 DEF JobFits, RequestsFit, Sought
<1> QED BY <1>4, <1>5, <1>6, <1>8, <1>9 DEF SpaceInv

\* Rows with ids are kept, removed, or added with an id that nobody has had.
IdsGrow(entries, entries2, ids, ids2) ==
  \A m \in entries2 : (\E n \in entries : n.id = m.id) \/ (m.id \in Nat /\ ids < m.id /\ m.id <= ids2)

\* Ids are not used again.
LEMMA GoneStill ==
  ASSUME NEW op, NEW x, NEW ids \in Nat, NEW ids2 \in Nat, ids <= ids2,
         NEW people, NEW people2, IdsGrow(people, people2, ids, ids2),
         NEW hidden, NEW hidden2, IdsGrow(hidden, hidden2, ids, ids2),
         Gone(op, x, ids, people, hidden)
  PROVE  Gone(op, x, ids2, people2, hidden2)
<1>1. ASSUME op = "remove" PROVE x \in Nat /\ x <= ids2 /\ \A m \in people2 : m.id # x
  BY <1>1 DEF Gone, IdsGrow
<1>2. ASSUME op = "delete" PROVE x \in Nat /\ x <= ids2 /\ \A m \in hidden2 : m.id # x
  BY <1>2 DEF Gone, IdsGrow
<1> QED BY <1>1, <1>2 DEF Gone

\* The log stays true if a request tells of nothing, or of what nobody else tells.
LEMMA TrailStill ==
  ASSUME SpaceInv, NEW r \in Requests, NEW q, request' = [request EXCEPT ![r] = q],
         trail' = trail, made'.ids \in Nat, made.ids <= made'.ids,
         IdsGrow(members, members', made.ids, made'.ids),
         IdsGrow(secrets, secrets', made.ids, made'.ids),
         q.at = "audit" /\ q.op \in Removals =>
           /\ Gone(q.op, q.target, made'.ids, members', secrets')
           /\ \A a \in trail : ~ (a.op = q.op /\ a.target = q.target)
           /\ \A s \in Requests : s # r => ~ Tells(request[s], q.op, q.target)
  PROVE  TrailFits'
<1>1. made.ids \in Nat /\ TrailFits /\ request = [s \in Requests |-> request[s]]
  BY DEF SpaceInv, RowsFit, RequestsFit
<1>2. request'[r] = q /\ \A s \in Requests : s # r => request'[s] = request[s]
  BY <1>1
<1>3. \A a \in trail : Gone(a.op, a.target, made'.ids, members', secrets')
  BY <1>1, GoneStill DEF TrailFits
<1>4. ASSUME NEW s \in Requests, request'[s].at = "audit"
      PROVE  Gone(request'[s].op, request'[s].target, made'.ids, members', secrets')
  <2>1. CASE s = r
    BY <1>2, <1>4, <2>1 DEF Gone, Removals
  <2>2. CASE s # r
    <3>1. Gone(request[s].op, request[s].target, made.ids, members, secrets)
      BY <1>1, <1>2, <1>4, <2>2 DEF TrailFits
    <3>2. Gone(request[s].op, request[s].target, made'.ids, members', secrets')
      BY <1>1, <3>1, GoneStill
    <3> QED BY <1>2, <2>2, <3>2
  <2> QED BY <2>1, <2>2
<1>5. ASSUME NEW a \in trail, NEW s \in Requests, a.op \in Removals
      PROVE  ~ Tells(request'[s], a.op, a.target)
  <2>1. CASE s = r
    BY <1>2, <1>5, <2>1 DEF Tells
  <2>2. CASE s # r
    BY <1>1, <1>2, <1>5, <2>2 DEF TrailFits
  <2> QED BY <2>1, <2>2
<1>6. ASSUME NEW s \in Requests, NEW t \in Requests, s # t,
             request'[s].at = "audit", request'[s].op \in Removals
      PROVE  ~ Tells(request'[t], request'[s].op, request'[s].target)
  <2>1. CASE s = r
    BY <1>2, <1>6, <2>1
  <2>2. CASE s # r /\ t = r
    BY <1>2, <1>6, <2>2 DEF Tells
  <2>3. CASE s # r /\ t # r
    BY <1>1, <1>2, <1>6, <2>3 DEF TrailFits
  <2> QED BY <2>1, <2>2, <2>3
<1>7. \A a, b \in trail : a.op \in Removals /\ b.op = a.op /\ b.target = a.target => a = b
  BY <1>1 DEF TrailFits
<1> QED BY <1>3, <1>4, <1>5, <1>6, <1>7 DEF TrailFits

\* A request that changes nothing but itself.
LEMMA RequestOnly ==
  ASSUME SpaceInv, NEW r \in Requests, NEW q, request' = [request EXCEPT ![r] = q],
         UNCHANGED <<accessRows, acted, wrote, made>>, Sought(q, acted, wrote),
         q.at = "audit" => q.op \notin Removals
  PROVE  SpaceInv'
<1>1. UNCHANGED <<users, spaces, members, secrets, job, trail, acted, wrote, made>>
  BY DEF accessRows
<1>2. UsersFit' /\ RowsFit' /\ SpacesFit'
  BY <1>1 DEF SpaceInv, UsersFit, RowsFit, SpacesFit
<1>3. JobFits'
  BY <1>1 DEF SpaceInv, JobFits, Owner1
<1>4. RequestsFit'
  BY <1>1 DEF SpaceInv, RequestsFit
<1>5. TrailFits'
  <2>1. made.ids \in Nat /\ made' = made
    BY <1>1 DEF SpaceInv, RowsFit
  <2>2. IdsGrow(members, members', made.ids, made'.ids) /\ IdsGrow(secrets, secrets', made.ids, made'.ids)
    BY <1>1, <2>1 DEF IdsGrow
  <2>3. trail' = trail /\ made'.ids \in Nat /\ made.ids <= made'.ids
    BY <1>1, <2>1
  <2>4. q.at = "audit" /\ q.op \in Removals =>
          /\ Gone(q.op, q.target, made'.ids, members', secrets')
          /\ \A a \in trail : ~ (a.op = q.op /\ a.target = q.target)
          /\ \A s \in Requests : s # r => ~ Tells(request[s], q.op, q.target)
    OBVIOUS
  <2> QED BY <2>2, <2>3, <2>4, TrailStill, Zenon
<1> QED BY <1>2, <1>3, <1>4, <1>5 DEF SpaceInv

\* A request that changes a row, the job, or the counts.
LEMMA RowsStep ==
  ASSUME SpaceInv, NEW r \in Requests, NEW q, request' = [request EXCEPT ![r] = q],
         UNCHANGED <<users, acted, wrote, trail>>, Sought(q, acted, wrote),
         RowsFit', SpacesFit', JobFits', made.ids <= made'.ids,
         IdsGrow(members, members', made.ids, made'.ids),
         IdsGrow(secrets, secrets', made.ids, made'.ids),
         q.at = "audit" /\ q.op \in Removals =>
           /\ Gone(q.op, q.target, made'.ids, members', secrets')
           /\ \A a \in trail : ~ (a.op = q.op /\ a.target = q.target)
           /\ \A s \in Requests : s # r => ~ Tells(request[s], q.op, q.target)
  PROVE  SpaceInv'
<1>1. UsersFit'
  BY DEF SpaceInv, UsersFit
<1>2. RequestsFit'
  BY DEF SpaceInv, RequestsFit
<1>3. trail' = trail /\ made'.ids \in Nat
  BY DEF RowsFit
<1>4. q.at = "audit" /\ q.op \in Removals =>
        /\ Gone(q.op, q.target, made'.ids, members', secrets')
        /\ \A a \in trail : ~ (a.op = q.op /\ a.target = q.target)
        /\ \A s \in Requests : s # r => ~ Tells(request[s], q.op, q.target)
  OBVIOUS
<1>5. TrailFits'
  BY <1>3, <1>4, TrailStill, Zenon
<1> QED BY <1>1, <1>2, <1>5 DEF SpaceInv

\* What a request knows, and a request that changes.
LEMMA RequestAsks ==
  ASSUME SpaceInv, NEW r \in Requests
  PROVE  /\ Sought(request[r], acted, wrote)
         /\ \A q : [request EXCEPT ![r] = q] = [s \in Requests |-> IF s = r THEN q ELSE request[s]]
BY DEF SpaceInv, RequestsFit

\* A request that ends changes nothing.
LEMMA CloseKeepsInv ==
  ASSUME SpaceInv, NEW r \in Requests, Closes(r), UNCHANGED <<accessRows, acted, wrote, made>>
  PROVE  SpaceInv'
<1>1. request' = [request EXCEPT ![r] = Quiet] /\ Sought(Quiet, acted, wrote) /\ Quiet.at # "audit"
  BY DEF Closes, Sought, Quiet
<1> QED BY <1>1, RequestOnly

\* A request that goes on to its change.
LEMMA GoKeepsInv ==
  ASSUME SpaceInv, NEW r \in Requests, request[r].at \in {"role", "write"}, NEW v,
         \/ request' = [request EXCEPT ![r] = [@ EXCEPT !.at = "write"]]
         \/ request' = [request EXCEPT ![r] = [@ EXCEPT !.at = "write", !.arg = v]],
         UNCHANGED <<accessRows, acted, wrote, made>>
  PROVE  SpaceInv'
<1> DEFINE e == [request[r] EXCEPT !.at = "write"]
           f == [request[r] EXCEPT !.at = "write", !.arg = v]
<1>1. request' = [request EXCEPT ![r] = e] \/ request' = [request EXCEPT ![r] = f]
  BY DEF SpaceInv, RequestsFit
<1>2. Sought(request[r], acted, wrote)
  BY RequestAsks
<1>3. Sought(e, acted, wrote) /\ e.at = "write" /\ Sought(f, acted, wrote) /\ f.at = "write"
  BY <1>2, Turned
<1> HIDE DEF e, f
<1> QED BY <1>1, <1>3, RequestOnly

\* A request that says what it has done.
LEMMA SaysWhat ==
  ASSUME SpaceInv, NEW r \in Requests, request[r].at \in {"role", "write"}, NEW x, Says(r, x)
  PROVE  \E q : /\ request' = [request EXCEPT ![r] = q] /\ Sought(q, acted, wrote)
                /\ q.at = "audit" /\ q.op = request[r].op /\ q.target = x
<1> DEFINE e == Knowing([request[r] EXCEPT !.at = "audit"], "target", x)
<1>1. request' = [request EXCEPT ![r] = e]
  BY DEF SpaceInv, RequestsFit, Says
<1>2. Sought(request[r], acted, wrote)
  BY RequestAsks
<1>3. Sought(e, acted, wrote) /\ e.at = "audit" /\ e.op = request[r].op /\ e.target = x
  BY <1>2, Announced
<1> HIDE DEF e
<1> QED BY <1>1, <1>3

\* A request that has nothing removed and tells so changes nothing else.
LEMMA SayKeepsInv ==
  ASSUME SpaceInv, NEW r \in Requests, request[r].at \in {"role", "write"}, NEW x, Says(r, x),
         request[r].op \notin Removals, UNCHANGED <<accessRows, acted, wrote, made>>
  PROVE  SpaceInv'
<1>1. PICK q : /\ request' = [request EXCEPT ![r] = q] /\ Sought(q, acted, wrote)
               /\ q.at = "audit" /\ q.op = request[r].op /\ q.target = x
  BY SaysWhat
<1> QED BY <1>1, RequestOnly

\* A request begins with the address its person has then.
LEMMA BeginKeepsInv ==
  ASSUME SpaceInv, NEW r \in Requests, NEW p \in People, NEW op \in Operations,
         mail[p] \in Mails, BeginRequest(r, p, op)
  PROVE  SpaceInv'
<1>1. PICK arg \in Arguments(op) :
        request' = [request EXCEPT ![r] =
          [at |-> "identity", person |-> p, mail |-> mail[p], op |-> op, arg |-> arg]]
  BY DEF BeginRequest
<1> DEFINE q == [at |-> "identity", person |-> p, mail |-> mail[p], op |-> op, arg |-> arg]
<1>2. Sought(q, acted, wrote) /\ q.at = "identity"
  BY DEF Sought, KnownAt, Stations
<1>3. request' = [request EXCEPT ![r] = q]
  BY <1>1
<1> HIDE DEF q
<1>4. /\ UNCHANGED <<users, spaces, members, secrets, job, trail, acted, wrote>>
      /\ made' = [made EXCEPT !.requests = @ + 1]
  BY DEF BeginRequest, accessRows
<1>5. made'.ids = made.ids /\ made.ids \in Nat /\ RowsFit'
  BY <1>4 DEF SpaceInv, RowsFit
<1>6. SpacesFit' /\ JobFits'
  BY <1>4 DEF SpaceInv, SpacesFit, JobFits, Owner1
<1>7. IdsGrow(members, members', made.ids, made'.ids) /\ IdsGrow(secrets, secrets', made.ids, made'.ids)
  BY <1>4 DEF IdsGrow
<1>8. made.ids <= made'.ids
  BY <1>5
<1> QED BY <1>2, <1>3, <1>4, <1>5, <1>6, <1>7, <1>8, RowsStep

\* upsertUserIdentity finds the user of the identity, or of the address.
LEMMA ReadKeepsInv ==
  ASSUME SpaceInv, NEW r \in Requests, ReadUser(r) PROVE SpaceInv'
<1> DEFINE p == request[r]
           mine == {u \in users : u.person = p.person}
           same == {u \in users : u.mail = p.mail}
           found == IF mine # {} THEN mine ELSE same
           row == {u.id : u \in found}
           d == [p EXCEPT !.at = "user"]
           q == Knowing(d, "row", row)
<1>1. p.at = "identity" /\ UNCHANGED <<accessRows, acted, wrote, made>>
  BY DEF ReadUser
<1>2. request' = [request EXCEPT ![r] = q]
  BY DEF ReadUser, SpaceInv, RequestsFit
<1>3. Sought(p, acted, wrote)
  BY RequestAsks
<1>4. \A i \in row : MayActAs(p.person, p.mail, i, acted, wrote)
  <2> SUFFICES ASSUME NEW u \in users, u.person = p.person \/ u.mail = p.mail
               PROVE  MayActAs(p.person, p.mail, u.id, acted, wrote)
    OBVIOUS
  <2>1. <<u.person, u.id>> \in acted /\ <<u.person, u.mail>> \in wrote
    BY DEF SpaceInv, UsersFit
  <2> QED BY <2>1 DEF MayActAs
<1> HIDE DEF row
<1>5. /\ p.person \in People /\ p.mail \in Mails
      /\ p = [x \in {"at", "person", "mail", "op", "arg"} |-> p[x]]
  BY <1>1, <1>3 DEF Sought, KnownAt, Quiet
<1>6. KnownAt("user") = {"at", "person", "mail", "op", "arg", "row"}
  BY DEF KnownAt
<1> HIDE DEF p
<1>7. /\ d = [x \in {"at", "person", "mail", "op", "arg"} |-> d[x]] /\ d.at = "user"
      /\ d.person = p.person /\ d.mail = p.mail
  BY <1>5
<1> HIDE DEF d
<1>8. q = [x \in KnownAt("user") |-> IF x = "row" THEN row ELSE d[x]]
  BY <1>6, <1>7 DEF Knowing
<1> HIDE DEF q
<1>9. /\ q = [x \in KnownAt("user") |-> q[x]] /\ q.at = "user" /\ q.row = row
      /\ q.person = p.person /\ q.mail = p.mail
  BY <1>6, <1>7, <1>8
<1>10. Sought(q, acted, wrote) /\ q.at # "audit"
  BY <1>4, <1>5, <1>9 DEF Sought, Stations
<1> QED BY <1>1, <1>2, <1>10, RequestOnly

\* A user written for an identity that has it, or that was found by the address, links people.
LEMMA WriteKeepsUsers ==
  ASSUME UsersFit, NEW p \in People, NEW m \in Mails, NEW id \in Nat,
         \/ id \notin IdsOf(users) /\ \A u \in users : u.id # id
         \/ MayActAs(p, m, id, acted, wrote),
         UniqueUser([id |-> id, person |-> p, mail |-> m], {u \in users : u.id # id}),
         users' = {u \in users : u.id # id} \union {[id |-> id, person |-> p, mail |-> m]},
         acted' = acted \union {<<p, id>>}, wrote' = wrote \union {<<p, m>>}
  PROVE  UsersFit'
<1> DEFINE new == [id |-> id, person |-> p, mail |-> m]
           others == {u \in users : u.id # id}
<1>1. new.id = id /\ new.person = p /\ new.mail = m
  OBVIOUS
<1>2. \A o \in others : o.person # p /\ o.mail # m /\ o.id # id /\ o \in users
  BY DEF UniqueUser
<1>3. users' = others \union {new}
  OBVIOUS
<1>4. \A u \in users : u.id # id => u \in others
  OBVIOUS
<1> HIDE DEF new, others
<1>5. (\A u \in users : u.id \in Nat /\ u.person \in People /\ u.mail \in Mails)'
  BY <1>1, <1>2, <1>3 DEF UsersFit
<1>6. HasTop(IdsOf(users'))
  <2>1. HasTop(IdsOf(users) \union {id})
    BY TopGrows DEF UsersFit
  <2>2. IdsOf(users) \union {id} = IdsOf(users')
    <3>1. \A i \in IdsOf(users) \union {id} : i \in IdsOf(users')
      BY <1>1, <1>3, <1>4 DEF IdsOf
    <3>2. \A i \in IdsOf(users') : i \in IdsOf(users) \union {id}
      BY <1>1, <1>2, <1>3 DEF IdsOf
    <3> QED BY <3>1, <3>2
  <2> QED BY <2>1, <2>2
<1>7. (\A u, v \in users : u.id = v.id \/ u.person = v.person \/ u.mail = v.mail => u = v)'
  BY <1>1, <1>2, <1>3 DEF UsersFit
<1>8. (acted \subseteq People \X Nat /\ wrote \subseteq People \X Mails)'
  BY DEF UsersFit
<1>9. (\A u \in users : <<u.person, u.id>> \in acted /\ <<u.person, u.mail>> \in wrote)'
  BY <1>1, <1>2, <1>3 DEF UsersFit
<1>10. ASSUME NEW a \in acted'
       PROVE  \E u \in users' : /\ u.id = a[2]
                                /\ u.person = a[1] \/ \E c \in acted' : c[2] = a[2] /\ c[1] # a[1]
  <2>1. CASE a[2] = id
    <3>1. new \in users' /\ <<p, id>> \in acted'
      BY <1>3
    <3>2. new.id = a[2]
      BY <1>1, <2>1
    <3>3. CASE p = a[1]
      BY <1>1, <3>1, <3>2, <3>3
    <3>4. CASE p # a[1]
      BY <1>1, <2>1, <3>1, <3>2, <3>4
    <3> QED BY <3>3, <3>4
  <2>2. CASE a[2] # id
    <3>1. a \in acted
      BY <2>2
    <3>2. PICK u \in users : /\ u.id = a[2]
                             /\ u.person = a[1] \/ \E c \in acted : c[2] = a[2] /\ c[1] # a[1]
      BY <3>1 DEF UsersFit
    <3>3. u \in users'
      BY <1>3, <1>4, <2>2, <3>2
    <3> QED BY <3>2, <3>3
  <2> QED BY <2>1, <2>2
<1>11. \A a \in acted : Linked(a, acted, wrote) => Linked(a, acted', wrote')
  BY DEF Linked
<1>12. \A a \in acted : a[2] = id => \/ a[1] = p
                                     \/ \E c \in acted : c[2] = id /\ c[1] = p
                                     \/ \E c \in acted : c[2] = id /\ c[1] # p /\ <<c[1], m>> \in wrote
  BY DEF UsersFit, MayActAs
<1>13. ASSUME NEW a \in acted', NEW b \in acted', a[2] = b[2], a[1] # b[1]
       PROVE  Linked(a, acted', wrote')
  <2>1. CASE a \in acted /\ b \in acted
    BY <1>11, <1>13, <2>1 DEF UsersFit
  <2>2. CASE a \notin acted
    <3>1. a = <<p, id>> /\ b \in acted /\ b[2] = id
      BY <1>13, <2>2
    <3>2. ~ \E c \in acted : c[2] = id /\ c[1] = p
      BY <2>2, <3>1 DEF UsersFit
    <3>3. PICK c \in acted : c[2] = id /\ c[1] # p /\ <<c[1], m>> \in wrote
      BY <1>12, <1>13, <3>1, <3>2
    <3>4. <<p, m>> \in wrote' /\ <<c[1], m>> \in wrote'
      BY <3>3
    <3>5. a[1] = p /\ a[2] = id
      BY <3>1
    <3> QED BY <3>3, <3>4, <3>5 DEF Linked
  <2>3. CASE a \in acted /\ b \notin acted
    <3>1. b = <<p, id>> /\ b[1] = p /\ b[2] = id /\ a[2] = id /\ a[1] # p
      BY <1>13, <2>3
    <3>2. ~ \E c \in acted : c[2] = id /\ c[1] = p
      BY <2>3, <3>1 DEF UsersFit
    <3>3. PICK c \in acted : c[2] = id /\ c[1] # p /\ <<c[1], m>> \in wrote
      BY <1>12, <2>3, <3>1, <3>2
    <3>4. CASE c[1] = a[1]
      <4>1. <<p, m>> \in wrote' /\ <<a[1], m>> \in wrote' /\ b \in acted'
        BY <3>3, <3>4
      <4> QED BY <3>1, <4>1 DEF Linked
    <3>5. CASE c[1] # a[1]
      BY <1>11, <2>3, <3>1, <3>3, <3>5 DEF UsersFit
    <3> QED BY <3>4, <3>5
  <2> QED BY <2>1, <2>2, <2>3
<1> QED BY <1>5, <1>6, <1>7, <1>8, <1>9, <1>10, <1>13 DEF UsersFit

\* upsertUserIdentity updates what was found, or makes a user; a clash ends the request.
LEMMA WriteKeepsInv ==
  ASSUME SpaceInv, NEW r \in Requests, WriteUser(r) PROVE SpaceInv'
<1> DEFINE p == request[r]
           id == IF p.row = {} THEN Fresh(users) ELSE CHOOSE i \in p.row : TRUE
           new == [id |-> id, person |-> p.person, mail |-> p.mail]
           others == {u \in users : u.id # id}
           d == [p EXCEPT !.at = "role"]
           q == Knowing(d, "user", id)
<1>1. p.at = "user" /\ UNCHANGED <<spaces, members, secrets, job, trail, made>>
  BY DEF WriteUser
<1>2. CASE ~ UniqueUser(new, others)
  <2>1. Closes(r) /\ UNCHANGED <<accessRows, acted, wrote, made>>
    BY <1>1, <1>2 DEF WriteUser, Closes, accessRows
  <2> QED BY <2>1, CloseKeepsInv
<1>3. CASE UniqueUser(new, others)
  <2>1. /\ request' = [request EXCEPT ![r] = q] /\ users' = others \union {new}
        /\ acted' = acted \union {<<p.person, id>>} /\ wrote' = wrote \union {<<p.person, p.mail>>}
    BY <1>3 DEF WriteUser, SpaceInv, RequestsFit
  <2>2. Sought(p, acted, wrote)
    BY RequestAsks
  <2>3. /\ p.person \in People /\ p.mail \in Mails
        /\ \A i \in p.row : MayActAs(p.person, p.mail, i, acted, wrote)
        /\ p = [x \in {"at", "person", "mail", "op", "arg", "row"} |-> p[x]]
    BY <1>1, <2>2 DEF Sought, KnownAt, Quiet
  <2>4. /\ id \in Nat
        /\ \/ id \notin IdsOf(users) /\ \A u \in users : u.id # id
           \/ MayActAs(p.person, p.mail, id, acted, wrote)
    <3>1. CASE p.row = {}
      <4>1. id = Fresh(users)
        BY <3>1
      <4>2. Fresh(users) \in Nat /\ Fresh(users) \notin IdsOf(users)
        BY FreshIsNew DEF SpaceInv, UsersFit
      <4>3. \A u \in users : u.id # Fresh(users)
        BY <4>2 DEF IdsOf
      <4> HIDE DEF id
      <4> QED BY <4>1, <4>2, <4>3
    <3>2. CASE p.row # {}
      <4>1. id \in p.row
        BY <3>2
      <4>2. MayActAs(p.person, p.mail, id, acted, wrote)
        BY <2>3, <4>1
      <4> HIDE DEF id
      <4>3. id \in Nat
        BY <4>2 DEF MayActAs, SpaceInv, UsersFit
      <4> QED BY <4>2, <4>3
    <3> QED BY <3>1, <3>2
  <2> HIDE DEF id
  <2>5. UsersFit'
    BY <1>3, <2>1, <2>3, <2>4, WriteKeepsUsers DEF SpaceInv
  <2> HIDE DEF p
  <2>6. /\ d = [x \in {"at", "person", "mail", "op", "arg", "row"} |-> d[x]] /\ d.at = "role"
        /\ d.person = p.person /\ d.mail = p.mail /\ d.row = p.row
    BY <2>3
  <2>7. KnownAt("role") = {"at", "person", "mail", "op", "arg", "row", "user"}
    BY DEF KnownAt
  <2> HIDE DEF d
  <2>8. q = [x \in KnownAt("role") |-> IF x = "user" THEN id ELSE d[x]]
    BY <2>6, <2>7 DEF Knowing
  <2> HIDE DEF q
  <2>9. /\ q = [x \in KnownAt("role") |-> q[x]] /\ q.at = "role" /\ q.row = p.row
        /\ q.person = p.person /\ q.mail = p.mail
    BY <2>6, <2>7, <2>8
  <2>10. Sought(q, acted, wrote) /\ q.at # "audit"
    BY <2>3, <2>9 DEF Sought, Stations
  <2>11. acted \subseteq acted' /\ wrote \subseteq wrote'
    BY <2>1
  <2>12. Sought(q, acted', wrote') /\ \A s \in Requests : Sought(request[s], acted', wrote')
    BY <2>10, <2>11, AsksStill DEF SpaceInv, RequestsFit
  <2>13. request' = [s \in Requests |-> IF s = r THEN q ELSE request[s]]
    BY <2>1, RequestAsks
  <2>14. RequestsFit'
    BY <2>12, <2>13 DEF RequestsFit
  <2>15. RowsFit' /\ SpacesFit' /\ JobFits'
    BY <1>1 DEF SpaceInv, RowsFit, SpacesFit, JobFits, Owner1
  <2>16. /\ trail' = trail /\ made'.ids \in Nat /\ made.ids <= made'.ids
         /\ IdsGrow(members, members', made.ids, made'.ids) /\ IdsGrow(secrets, secrets', made.ids, made'.ids)
    BY <1>1 DEF SpaceInv, RowsFit, IdsGrow
  <2>17. TrailFits'
    BY <2>1, <2>10, <2>16, TrailStill
  <2> QED BY <2>5, <2>14, <2>15, <2>17 DEF SpaceInv
<1> QED BY <1>2, <1>3

\* The requests that only read.
LEMMA ReadersKeepInv ==
  ASSUME SpaceInv, NEW r \in Requests,
         \/ FindSlug(r) \/ Refuse(r) \/ FindUser(r) \/ FindMembership(r) \/ FindSecret(r)
         \/ ListRows(r) \/ LoseHandler(r)
  PROVE  SpaceInv'
<1>1. CASE FindSlug(r)
  <2>1. request[r].at \in {"role", "write"} /\ UNCHANGED <<accessRows, acted, wrote, made>>
    BY <1>1 DEF FindSlug
  <2>2. \E v : request' = [request EXCEPT ![r] = [@ EXCEPT !.at = "write", !.arg = v]]
    BY <1>1 DEF FindSlug
  <2> QED BY <2>1, <2>2, GoKeepsInv
<1>2. CASE Refuse(r) \/ ListRows(r) \/ LoseHandler(r)
  BY <1>2, CloseKeepsInv DEF Refuse, ListRows, LoseHandler
<1>3. CASE FindUser(r)
  <2>1. /\ request[r].at \in {"role", "write"} /\ UNCHANGED <<accessRows, acted, wrote, made>>
        /\ request[r].op \notin Removals
    BY <1>3 DEF FindUser, Enters, Removals
  <2>2. \/ Closes(r) \/ \E x : Says(r, x)
        \/ \E v : request' = [request EXCEPT ![r].at = "write", ![r].arg = v]
    BY <1>3 DEF FindUser
  <2>3. CASE \E v : request' = [request EXCEPT ![r].at = "write", ![r].arg = v]
    <3>1. PICK v : request' = [request EXCEPT ![r].at = "write", ![r].arg = v]
      BY <2>3
    <3>2. request' = [request EXCEPT ![r] = [@ EXCEPT !.at = "write", !.arg = v]]
      <4> DEFINE p == request[r]
                 e == [p EXCEPT !.at = "write"]
                 f == [e EXCEPT !.arg = v]
                 g == [p EXCEPT !.at = "write", !.arg = v]
      <4>1. request = [s \in Requests |-> request[s]]
        BY DEF SpaceInv, RequestsFit
      <4>2. request' = [s \in Requests |-> IF s = r THEN f ELSE request[s]]
        BY <3>1, <4>1
      <4>3. f = g
        OBVIOUS
      <4>4. [request EXCEPT ![r] = [@ EXCEPT !.at = "write", !.arg = v]]
              = [s \in Requests |-> IF s = r THEN g ELSE request[s]]
        BY <4>1
      <4> QED BY <4>2, <4>3, <4>4
    <3> QED BY <2>1, <3>2, GoKeepsInv
  <2> QED BY <2>1, <2>2, <2>3, SayKeepsInv, CloseKeepsInv
<1>4. CASE FindMembership(r) \/ FindSecret(r)
  <2>1. /\ request[r].at \in {"role", "write"} /\ UNCHANGED <<accessRows, acted, wrote, made>>
        /\ Goes(r, "write") \/ Closes(r)
    BY <1>4 DEF FindMembership, FindSecret, Enters
  <2>2. Goes(r, "write") => request' = [request EXCEPT ![r] = [@ EXCEPT !.at = "write"]]
    BY DEF Goes
  <2> QED BY <2>1, <2>2, GoKeepsInv, CloseKeepsInv
<1> QED BY <1>1, <1>2, <1>3, <1>4

\* A new workspace is not workspace 1.
LEMMA WorkspaceKeepsInv ==
  ASSUME SpaceInv, NEW r \in Requests, InsertWorkspace(r) PROVE SpaceInv'
<1>1. /\ request[r].at \in {"role", "write"} /\ request[r].op \notin Removals
      /\ UNCHANGED <<users, members, secrets, job, trail, acted, wrote, made>>
  BY DEF InsertWorkspace, Removals
<1>2. CASE Closes(r) /\ UNCHANGED spaces
  BY <1>1, <1>2, CloseKeepsInv DEF accessRows
<1>3. ASSUME NEW w, w.id = Fresh(spaces), spaces' = spaces \union {w}, Says(r, w.id)
      PROVE  SpaceInv'
  <2>1. PICK q : /\ request' = [request EXCEPT ![r] = q] /\ Sought(q, acted, wrote)
                 /\ q.at = "audit" /\ q.op = request[r].op /\ q.target = w.id
    BY <1>1, <1>3, SaysWhat
  <2>2. RowsFit' /\ made.ids <= made'.ids
    BY <1>1 DEF SpaceInv, RowsFit
  <2>3. /\ Fresh(spaces) \in Nat /\ Fresh(spaces) \notin IdsOf(spaces) /\ HasTop(IdsOf(spaces))
    BY FreshIsNew DEF SpaceInv, SpacesFit
  <2>4. PICK one \in spaces : one.id = 1 /\ \A v \in spaces : v.id = 1 => v = one
    BY DEF SpaceInv, SpacesFit
  <2>5. w.id # 1
    BY <1>3, <2>3, <2>4 DEF IdsOf
  <2>6. \A v \in spaces' : v.id = 1 => v = one
    BY <1>3, <2>4, <2>5
  <2>7. HasTop(IdsOf(spaces'))
    <3>1. HasTop(IdsOf(spaces) \union {w.id})
      BY <1>3, <2>3, TopGrows
    <3>2. IdsOf(spaces') = IdsOf(spaces) \union {w.id}
      BY <1>3 DEF IdsOf
    <3> QED BY <3>1, <3>2
  <2>8. SpacesFit'
    BY <1>3, <2>4, <2>6, <2>7 DEF SpacesFit
  <2>9. Owner1' = Owner1
    <3>1. (CHOOSE v \in spaces : v.id = 1) = one
      BY <2>4
    <3>2. (CHOOSE v \in spaces' : v.id = 1) = one
      BY <1>3, <2>4, <2>6
    <3> QED BY <3>1, <3>2 DEF Owner1
  <2>10. JobFits'
    BY <1>1, <2>9 DEF SpaceInv, JobFits
  <2>11. IdsGrow(members, members', made.ids, made'.ids) /\ IdsGrow(secrets, secrets', made.ids, made'.ids)
    BY <1>1 DEF IdsGrow
  <2> QED BY <1>1, <2>1, <2>2, <2>8, <2>10, <2>11, RowsStep
<1>4. \/ Closes(r) /\ UNCHANGED spaces
      \/ \E w : w.id = Fresh(spaces) /\ spaces' = spaces \union {w} /\ Says(r, w.id)
  <2> DEFINE w == [id |-> Fresh(spaces), owner |-> request[r].user, slug |-> request[r].arg]
  <2>1. w.id = Fresh(spaces)
    OBVIOUS
  <2>2. \/ Closes(r) /\ UNCHANGED spaces
        \/ spaces' = spaces \union {w} /\ Says(r, Fresh(spaces))
    BY DEF InsertWorkspace
  <2> HIDE DEF w
  <2> QED BY <2>1, <2>2
<1> QED BY <1>2, <1>3, <1>4

\* Where spaces, job and the rules about them are left alone.
LEMMA JobStays ==
  ASSUME SpaceInv, UNCHANGED <<spaces, job>> PROVE SpacesFit' /\ JobFits'
BY DEF SpaceInv, SpacesFit, JobFits, Owner1

\* A row is added with the next id, by an operation that removes none.
LEMMA AddedKeepsInv ==
  ASSUME SpaceInv, NEW r \in Requests, request[r].at \in {"role", "write"},
         request[r].op \notin Removals, Says(r, NextId), TakeId,
         UNCHANGED <<users, spaces, job, trail, acted, wrote>>, NEW row, row.id = NextId,
         \/ members' = members \union {row} /\ secrets' = secrets
         \/ secrets' = secrets \union {row} /\ members' = members
  PROVE  SpaceInv'
<1>1. PICK q : /\ request' = [request EXCEPT ![r] = q] /\ Sought(q, acted, wrote)
               /\ q.at = "audit" /\ q.op = request[r].op
  BY SaysWhat
<1>2. /\ made.ids \in Nat /\ made'.ids = made.ids + 1
      /\ made' = [x \in {"requests", "moves", "ids"} |-> made'[x]]
  BY DEF SpaceInv, RowsFit, TakeId
<1>3. row.id = made'.ids
  BY <1>2 DEF NextId
<1>4. RowsFit'
  BY <1>2, <1>3 DEF SpaceInv, RowsFit
<1>5. IdsGrow(members, members', made.ids, made'.ids) /\ IdsGrow(secrets, secrets', made.ids, made'.ids)
  BY <1>2, <1>3 DEF IdsGrow
<1>6. made.ids <= made'.ids
  BY <1>2
<1>7. SpacesFit' /\ JobFits'
  BY JobStays
<1> QED BY <1>1, <1>4, <1>5, <1>6, <1>7, RowsStep

\* addWorkspaceMember and createWorkspaceSecretForUser.
LEMMA AddersKeepInv ==
  ASSUME SpaceInv, NEW r \in Requests, CreateMembership(r) \/ CreateSecret(r) PROVE SpaceInv'
<1>1. CASE CreateSecret(r)
  <2> DEFINE row == [id |-> NextId, space |-> 1, version |-> 1]
  <2>1. row.id = NextId
    OBVIOUS
  <2>2. /\ request[r].at \in {"role", "write"} /\ request[r].op \notin Removals
        /\ secrets' = secrets \union {row} /\ members' = members /\ Says(r, NextId) /\ TakeId
        /\ UNCHANGED <<users, spaces, job, trail, acted, wrote>>
    BY <1>1 DEF CreateSecret, Enters, Removals
  <2> HIDE DEF row
  <2> QED BY <2>1, <2>2, AddedKeepsInv
<1>2. CASE CreateMembership(r)
  <2> DEFINE row == [id |-> NextId, user |-> request[r].arg]
  <2>1. row.id = NextId
    OBVIOUS
  <2>2. /\ request[r].at \in {"role", "write"} /\ request[r].op \notin Removals
        /\ secrets' = secrets /\ UNCHANGED <<users, spaces, job, trail, acted, wrote>>
        /\ \/ Closes(r) /\ UNCHANGED <<members, made>>
           \/ members' = members \union {row} /\ Says(r, NextId) /\ TakeId
    BY <1>2 DEF CreateMembership, Removals
  <2> HIDE DEF row
  <2>3. CASE Closes(r) /\ UNCHANGED <<members, made>>
    BY <2>2, <2>3, CloseKeepsInv DEF accessRows
  <2> QED BY <2>1, <2>2, <2>3, AddedKeepsInv
<1> QED BY <1>1, <1>2

\* A row that somebody removes is one that nobody says is gone.
LEMMA RemovedOnce ==
  ASSUME SpaceInv, NEW r \in Requests, NEW x, NEW op \in Removals,
         \/ op = "remove" /\ \E m \in members : m.id = x
         \/ op = "delete" /\ \E s \in secrets : s.id = x
  PROVE  /\ x \in Nat /\ x <= made.ids
         /\ \A a \in trail : ~ (a.op = op /\ a.target = x)
         /\ \A s \in Requests : s # r => ~ Tells(request[s], op, x)
<1>1. x \in Nat /\ x <= made.ids
  BY DEF SpaceInv, RowsFit
<1>2. ~ Gone(op, x, made.ids, members, secrets)
  BY DEF Gone
<1>3. \A a \in trail : ~ (a.op = op /\ a.target = x)
  BY <1>2, Zenon DEF SpaceInv, TrailFits
<1>4. \A s \in Requests : s # r => ~ Tells(request[s], op, x)
  BY <1>2, Zenon DEF SpaceInv, TrailFits, Tells
<1> QED BY <1>1, <1>3, <1>4

\* removeWorkspaceMember: of two requests that looked the row up, one deletes it.
LEMMA RemoveKeepsInv ==
  ASSUME SpaceInv, NEW r \in Requests, DeleteMembership(r) PROVE SpaceInv'
<1> DEFINE x == request[r].arg
<1>1. /\ request[r].at \in {"role", "write"} /\ request[r].op = "remove"
      /\ UNCHANGED <<users, spaces, secrets, job, trail, acted, wrote, made>>
  BY DEF DeleteMembership
<1>2. CASE Closes(r) /\ UNCHANGED members
  BY <1>1, <1>2, CloseKeepsInv DEF accessRows
<1>3. CASE (\E m \in members : m.id = x) /\ members' = {m \in members : m.id # x} /\ Says(r, x)
  <2> HIDE DEF x
  <2>1. PICK q : /\ request' = [request EXCEPT ![r] = q] /\ Sought(q, acted, wrote)
                 /\ q.at = "audit" /\ q.op = "remove" /\ q.target = x
    BY <1>1, <1>3, SaysWhat
  <2>2. RowsFit' /\ made.ids <= made'.ids
    BY <1>1, <1>3 DEF SpaceInv, RowsFit
  <2>3. SpacesFit' /\ JobFits'
    BY <1>1, JobStays
  <2>4. IdsGrow(members, members', made.ids, made'.ids) /\ IdsGrow(secrets, secrets', made.ids, made'.ids)
    BY <1>1, <1>3 DEF IdsGrow
  <2>5. /\ x \in Nat /\ x <= made.ids
        /\ \A a \in trail : ~ (a.op = "remove" /\ a.target = x)
        /\ \A s \in Requests : s # r => ~ Tells(request[s], "remove", x)
    BY <1>3, RemovedOnce DEF Removals
  <2>6. Gone("remove", x, made'.ids, members', secrets')
    BY <1>1, <1>3, <2>5 DEF Gone
  <2> QED BY <1>1, <2>1, <2>2, <2>3, <2>4, <2>5, <2>6, RowsStep
<1> QED BY <1>2, <1>3 DEF DeleteMembership, Removes

\* Secrets are updated and deleted by their id.
LEMMA SecretKeepsInv ==
  ASSUME SpaceInv, NEW r \in Requests, WriteSecret(r) PROVE SpaceInv'
<1> DEFINE x == request[r].arg
           others == {s \in secrets : s.id # x}
           row == [id |-> x, space |-> 1, version |-> 2]
<1>1. /\ request[r].at \in {"role", "write"} /\ request[r].op \in {"update", "delete"}
      /\ UNCHANGED <<users, spaces, members, job, trail, acted, wrote, made>>
  BY DEF WriteSecret
<1>2. CASE Closes(r) /\ UNCHANGED secrets
  BY <1>1, <1>2, CloseKeepsInv DEF accessRows
<1>3. CASE /\ others # secrets /\ Says(r, x)
           /\ secrets' = IF request[r].op = "delete" THEN others ELSE others \union {row}
  <2>1. PICK q : /\ request' = [request EXCEPT ![r] = q] /\ Sought(q, acted, wrote)
                 /\ q.at = "audit" /\ q.op = request[r].op /\ q.target = x
    BY <1>1, <1>3, SaysWhat
  <2>2. PICK former \in secrets : former.id = x
    BY <1>3
  <2>3. row.id = x /\ others \subseteq secrets /\ \A s \in others : s.id # x
    OBVIOUS
  <2> HIDE DEF row, others, x
  <2>4. \A s \in secrets' : \E t \in secrets : t.id = s.id
    BY <1>3, <2>2, <2>3
  <2>5. RowsFit' /\ made.ids <= made'.ids
    BY <1>1, <2>4 DEF SpaceInv, RowsFit
  <2>6. SpacesFit' /\ JobFits'
    BY <1>1, JobStays
  <2>7. IdsGrow(members, members', made.ids, made'.ids) /\ IdsGrow(secrets, secrets', made.ids, made'.ids)
    BY <1>1, <2>4 DEF IdsGrow
  <2>8. CASE request[r].op = "update"
    <3>1. q.op \notin Removals
      BY <2>1, <2>8 DEF Removals
    <3> QED BY <1>1, <2>1, <2>5, <2>6, <2>7, <3>1, RowsStep
  <2>9. CASE request[r].op = "delete"
    <3>1. /\ x \in Nat /\ x <= made.ids
          /\ \A a \in trail : ~ (a.op = "delete" /\ a.target = x)
          /\ \A s \in Requests : s # r => ~ Tells(request[s], "delete", x)
      BY <2>2, RemovedOnce DEF Removals
    <3>2. Gone("delete", x, made'.ids, members', secrets')
      BY <1>1, <1>3, <2>3, <2>9, <3>1 DEF Gone
    <3> QED BY <1>1, <2>1, <2>5, <2>6, <2>7, <2>9, <3>1, <3>2, RowsStep
  <2> QED BY <1>1, <2>8, <2>9
<1> QED BY <1>2, <1>3 DEF WriteSecret

\* Only an owner names secrets for the job.
LEMMA SubmitKeepsInv ==
  ASSUME SpaceInv, NEW r \in Requests, SubmitJob(r) PROVE SpaceInv'
<1>1. /\ request[r].at \in {"role", "write"} /\ request[r].op = "submit" /\ Says(r, 1)
      /\ UNCHANGED <<users, spaces, members, secrets, trail, acted, wrote, made>>
      /\ Suffices(request[r], RoleIn1(request[r].user))
      /\ job' = [at |-> "queued", by |-> request[r].user, refs |-> request[r].arg]
  BY DEF SubmitJob, Enters
<1>2. PICK q : /\ request' = [request EXCEPT ![r] = q] /\ Sought(q, acted, wrote)
               /\ q.at = "audit" /\ q.op = "submit"
  BY <1>1, SaysWhat
<1>3. request[r].arg # {} => request[r].user = Owner1
  BY <1>1 DEF Suffices, RoleIn1
<1>4. Owner1' = Owner1
  BY <1>1 DEF Owner1
<1>5. JobFits'
  <2> DEFINE new == [at |-> "queued", by |-> request[r].user, refs |-> request[r].arg]
  <2>1. /\ new.at = "queued" /\ new = [x \in {"at", "by", "refs"} |-> new[x]]
        /\ new.by = request[r].user /\ new.refs = request[r].arg /\ job' = new
    BY <1>1
  <2> HIDE DEF new
  <2> QED BY <1>3, <1>4, <2>1 DEF JobFits
<1>6. SpacesFit' /\ RowsFit' /\ made.ids <= made'.ids
  BY <1>1 DEF SpaceInv, SpacesFit, RowsFit
<1>7. IdsGrow(members, members', made.ids, made'.ids) /\ IdsGrow(secrets, secrets', made.ids, made'.ids)
  BY <1>1 DEF IdsGrow
<1>8. q.op \notin Removals
  BY <1>2 DEF Removals
<1> QED BY <1>1, <1>2, <1>5, <1>6, <1>7, <1>8, RowsStep

\* recordAuditLog tells what its request has done, once.
LEMMA TrailKeepsInv ==
  ASSUME SpaceInv, NEW r \in Requests, WriteTrail(r) PROVE SpaceInv'
<1> DEFINE new == [op |-> request[r].op, target |-> request[r].target, of |-> r]
<1>1. /\ request[r].at = "audit" /\ trail' = trail \union {new} /\ Closes(r)
      /\ UNCHANGED <<users, spaces, members, secrets, job, acted, wrote, made>>
  BY DEF WriteTrail
<1>2. new.op = request[r].op /\ new.target = request[r].target
  OBVIOUS
<1> HIDE DEF new
<1>3. request' = [s \in Requests |-> IF s = r THEN Quiet ELSE request[s]]
  BY <1>1, RequestAsks DEF Closes
<1>4. Sought(Quiet, acted, wrote) /\ Quiet.at = "none"
  BY DEF Sought, Quiet
<1>5. RequestsFit'
  BY <1>1, <1>3, <1>4 DEF SpaceInv, RequestsFit
<1>6. UsersFit' /\ RowsFit' /\ SpacesFit' /\ JobFits'
  BY <1>1 DEF SpaceInv, UsersFit, RowsFit, SpacesFit, JobFits, Owner1
<1>7. \A s \in Requests : \/ request'[s] = request[s] /\ s # r
                          \/ request'[s].at = "none"
  BY <1>3, <1>4
<1>8. TrailFits'
  <2>1. \A a \in trail' : Gone(a.op, a.target, made.ids, members, secrets)
    BY <1>1, <1>2 DEF SpaceInv, TrailFits
  <2>2. ASSUME NEW s \in Requests, request'[s].at = "audit"
        PROVE  request'[s] = request[s] /\ s # r
    BY <1>7, <2>2
  <2>3. \A s \in Requests : request'[s].at = "audit" =>
          Gone(request'[s].op, request'[s].target, made.ids, members, secrets)
    BY <2>2 DEF SpaceInv, TrailFits
  <2>4. ASSUME NEW a \in trail', NEW b \in trail', a.op \in Removals, b.op = a.op, b.target = a.target
        PROVE  a = b
    BY <1>1, <1>2, <2>4 DEF SpaceInv, TrailFits, Tells
  <2>5. ASSUME NEW a \in trail', NEW s \in Requests, a.op \in Removals, Tells(request'[s], a.op, a.target)
        PROVE  FALSE
    <3>1. request'[s] = request[s] /\ s # r
      BY <2>2, <2>5 DEF Tells
    <3> QED BY <1>1, <1>2, <2>5, <3>1 DEF SpaceInv, TrailFits
  <2>6. ASSUME NEW s \in Requests, NEW t \in Requests, s # t, request'[s].at = "audit",
               request'[s].op \in Removals, Tells(request'[t], request'[s].op, request'[s].target)
        PROVE  FALSE
    <3>1. request'[s] = request[s] /\ request'[t] = request[t]
      BY <2>2, <2>6 DEF Tells
    <3> QED BY <2>6, <3>1 DEF SpaceInv, TrailFits
  <2> QED BY <1>1, <2>1, <2>3, <2>4, <2>5, <2>6 DEF TrailFits
<1> QED BY <1>5, <1>6, <1>8 DEF SpaceInv

\* What is neither about a request nor the log.
LEMMA RequestsStay ==
  ASSUME SpaceInv, UNCHANGED <<users, members, secrets, request, trail, acted, wrote>>,
         made'.ids = made.ids
  PROVE  UsersFit' /\ TrailFits' /\ RequestsFit'
<1>1. UsersFit' /\ RequestsFit'
  BY DEF SpaceInv, UsersFit, RequestsFit
<1>2. TrailFits'
  BY DEF SpaceInv, TrailFits
<1> QED BY <1>1, <1>2

\* resolveWorkspaceSecrets gives the job those it names, of its workspace.
LEMMA ClaimKeepsInv ==
  ASSUME SpaceInv, ClaimJob PROVE SpaceInv'
<1> DEFINE d == [job EXCEPT !.at = "running"]
           new == Knowing(d, "given", Resolved(job.refs))
<1>1. /\ job # NoJob /\ job.at = "queued" /\ job' = new
      /\ UNCHANGED <<users, spaces, members, secrets, request, trail, acted, wrote, made>>
  BY DEF ClaimJob
<1>2. /\ job = [x \in {"at", "by", "refs"} |-> job[x]]
      /\ job.refs # {} => job.by = Owner1
  BY <1>1 DEF SpaceInv, JobFits
<1>3. /\ d = [x \in {"at", "by", "refs"} |-> d[x]] /\ d.at = "running"
      /\ d.by = job.by /\ d.refs = job.refs
  BY <1>2
<1> HIDE DEF d
<1>4. new = [x \in {"at", "by", "refs", "given"} |-> IF x = "given" THEN Resolved(job.refs) ELSE d[x]]
  BY <1>3 DEF Knowing
<1> HIDE DEF new
<1>5. /\ new.at = "running" /\ new = [x \in {"at", "by", "refs"} \union {"given"} |-> new[x]]
      /\ new.by = job.by /\ new.refs = job.refs /\ new.given = Resolved(job.refs)
  BY <1>3, <1>4
<1>6. Owner1' = Owner1
  BY <1>1 DEF Owner1
<1>7. JobFits'
  BY <1>1, <1>2, <1>5, <1>6 DEF JobFits, Resolved
<1>8. RowsFit' /\ SpacesFit'
  BY <1>1 DEF SpaceInv, RowsFit, SpacesFit
<1> QED BY <1>1, <1>7, <1>8, RequestsStay DEF SpaceInv

\* A change of address leaves the rows alone,
LEMMA MailKeepsInv ==
  ASSUME SpaceInv, NEW p \in People, NEW m \in Mails, ChangeMail(p, m) PROVE SpaceInv'
<1>1. /\ made' = [made EXCEPT !.moves = @ + 1]
      /\ UNCHANGED <<users, spaces, members, secrets, job, trail, request, acted, wrote>>
  BY DEF ChangeMail, accessRows
<1>2. made'.ids = made.ids /\ RowsFit'
  BY <1>1 DEF SpaceInv, RowsFit
<1>3. SpacesFit' /\ JobFits'
  BY <1>1, JobStays
<1> QED BY <1>1, <1>2, <1>3, RequestsStay DEF SpaceInv

\* and every person has an address.
LEMMA MailsStay ==
  ASSUME mail \in [People -> Mails], [SpaceNext]_spaceVars PROVE mail' \in [People -> Mails]
<1>1. CASE UNCHANGED spaceVars
  BY <1>1 DEF spaceVars
<1>2. ASSUME NEW p \in People, NEW m \in Mails, ChangeMail(p, m) PROVE mail' \in [People -> Mails]
  BY <1>2 DEF ChangeMail
<1>3. ASSUME NEW r \in Requests, HandlerStep(r) \/ \E p \in People, op \in Operations : BeginRequest(r, p, op)
      PROVE  mail' = mail
  BY <1>3 DEF HandlerStep, BeginRequest, ReadUser, WriteUser, FindSlug, Refuse, FindUser, FindMembership,
       FindSecret, ListRows, InsertWorkspace, CreateMembership, DeleteMembership, CreateSecret,
       WriteSecret, SubmitJob, WriteTrail, LoseHandler
<1>4. ClaimJob => mail' = mail
  BY DEF ClaimJob
<1> QED BY <1>1, <1>2, <1>3, <1>4 DEF SpaceNext

\* Every step keeps the invariant.
LEMMA NextSpaceInv ==
  ASSUME SpaceInv, mail \in [People -> Mails], [SpaceNext]_spaceVars PROVE SpaceInv'
<1>1. CASE UNCHANGED spaceVars
  <2>1. UNCHANGED <<users, spaces, members, secrets, job, trail, request, acted, wrote, made>>
    BY <1>1 DEF spaceVars, accessRows
  <2>2. RowsFit' /\ SpacesFit' /\ JobFits'
    BY <2>1 DEF SpaceInv, RowsFit, SpacesFit, JobFits, Owner1
  <2> QED BY <2>1, <2>2, RequestsStay DEF SpaceInv
<1>2. ASSUME NEW r \in Requests, HandlerStep(r) PROVE SpaceInv'
  BY <1>2, ReadKeepsInv, WriteKeepsInv, ReadersKeepInv, WorkspaceKeepsInv, AddersKeepInv,
     RemoveKeepsInv, SecretKeepsInv, SubmitKeepsInv, TrailKeepsInv, Zenon DEF HandlerStep
<1>3. ASSUME NEW r \in Requests, NEW p \in People, NEW op \in Operations, BeginRequest(r, p, op)
      PROVE  SpaceInv'
  BY <1>3, BeginKeepsInv
<1>4. ASSUME NEW p \in People, NEW m \in Mails, ChangeMail(p, m) PROVE SpaceInv'
  BY <1>4, MailKeepsInv
<1>5. ClaimJob => SpaceInv'
  BY ClaimKeepsInv
<1> QED BY <1>1, <1>2, <1>3, <1>4, <1>5, Zenon DEF SpaceNext

\* Requests that read, then write, keep the rows apart: the invariant is inductive.
THEOREM SpaceInvariant == SpaceSpec => []SpaceInv
<1> DEFINE Whole == SpaceInv /\ mail \in [People -> Mails]
<1>1. SpaceInit => Whole
  <2>1. SpaceInit => mail \in [People -> Mails]
    <3> DEFINE first == CHOOSE p \in People : TRUE
               m == CHOOSE k \in Mails : TRUE
               n == CHOOSE k \in Mails \ {m} : TRUE
    <3>1. m \in Mails /\ \E k \in Mails : k # m
      BY AccessAssumption
    <3>2. n \in Mails
      BY <3>1
    <3>3. SpaceInit => mail = [p \in People |-> IF p = first THEN m ELSE n]
      BY DEF SpaceInit
    <3> HIDE DEF first, m, n
    <3> QED BY <3>1, <3>2, <3>3
  <2> QED BY <2>1, InitSpaceInv
<1>2. Whole /\ [SpaceNext]_spaceVars => Whole'
  BY MailsStay, NextSpaceInv
<1> QED BY <1>1, <1>2, PTL DEF SpaceSpec

\* The invariant says what is promised.
LEMMA InvKeepsAccess ==
  ASSUME SpaceInv PROVE AccessIsKept
<1>1. ASSUME NEW a \in acted, NEW b \in acted, a[2] = b[2], a[1] # b[1]
      PROVE  \E c \in acted : /\ c[2] = a[2] /\ c[1] # a[1]
                              /\ \E m \in Mails : <<a[1], m>> \in wrote /\ <<c[1], m>> \in wrote
  BY <1>1 DEF SpaceInv, UsersFit, Linked
<1>2. ASSUME NEW a \in acted, NEW b \in acted, a[1] = b[1], a[2] # b[2]
      PROVE  \E c \in acted : c[1] # a[1] /\ c[2] \in {a[2], b[2]}
  BY <1>2 DEF SpaceInv, UsersFit
<1>3. TrailFollowsChanges
  BY DEF SpaceInv, TrailFits, TrailFollowsChanges, Gone, Removals
<1>4. SecretsStayHome
  BY DEF SpaceInv, JobFits, SecretsStayHome
<1> QED BY <1>1, <1>2, <1>3, <1>4 DEF AccessIsKept, PeopleKeepTheirUser

\* Users stay apart, what was logged as removed stays away, and a job gets its own
\* workspace's secrets, from its owner.
THEOREM PeopleAndRowsStayApart == SpaceSpec => []AccessIsKept
<1>1. SpaceInv => AccessIsKept
  BY InvKeepsAccess
<1> QED BY <1>1, SpaceInvariant, PTL

\* The ids of the rows of User.
UserIds == {u.id : u \in users}

\* What a request asks for, and what it has found so far.
AskTyped(q, ids) ==
  q # Quiet =>
    /\ q.op \in Operations
    /\ q.at \in {"role", "write", "audit"} => q.user \in ids
    /\ q.at = "write" /\ q.op = "add" => q.arg \in ids
    /\ q.at = "write" /\ q.op = "workspace" => q.arg \in Nat

AsksTyped   == \A r \in Requests : AskTyped(request[r], UserIds)
\* Slugs are numbers, and owners, members and authors of records are there.
SpacesTyped == IsFiniteSet(spaces) /\ \A w \in spaces : w.slug \in Nat /\ w.owner \in UserIds
RowsTyped   ==
  /\ \A m \in members : m.user \in UserIds
  /\ \A s \in secrets : s.space \in {1, 2} /\ s.version \in {1, 2}
  /\ \A a \in trail : a.op \in Operations

\* What SpaceInv does not speak of.
SpaceRest == mail \in [People -> Mails] /\ AsksTyped /\ SpacesTyped /\ RowsTyped

\* A set of naturals has a least element, which is its Min.
LEMMA MinIsIn ==
  ASSUME NEW T \in SUBSET Nat, T # {}
  PROVE  Min(T) \in T
<1> DEFINE R == OpToRel(<, Nat)
<1>1. IsWellFoundedOn(R, Nat)
  BY NatLessThanWellFounded
<1>2. PICK n \in T : \A m \in T : ~ (<<m, n>> \in R)
  <2> HIDE DEF R
  <2> QED BY <1>1, WFMin
<1>3. \A m \in T : n <= m
  <2> TAKE m \in T
  <2>1. m \in Nat /\ n \in Nat
    OBVIOUS
  <2>2. m < n => <<m, n>> \in R
    BY <2>1 DEF OpToRel
  <2>3. ~ (m < n)
    BY <1>2, <2>2
  <2> QED BY <2>1, <2>3
<1> QED BY <1>3 DEF Min

\* nextWorkspaceSlug finds one, for one more than are taken cannot all be taken.
LEMMA SlugIsFound ==
  ASSUME IsFiniteSet(spaces)
  PROVE  LET taken == {w.slug : w \in spaces}
         IN  Min((1 .. Cardinality(taken) + 1) \ taken) \in Nat
<1> DEFINE taken == {w.slug : w \in spaces}
           free == (1 .. Cardinality(taken) + 1) \ taken
<1>1. IsFiniteSet(taken)
  <2>1. taken = {w.slug : w \in spaces}
    OBVIOUS
  <2> HIDE DEF taken
  <2> DEFINE f == [w \in spaces |-> w.slug]
  <2>2. f \in Surjection(spaces, taken)
    BY <2>1 DEF Surjection
  <2> QED BY <2>2, FS_Surjection
<1> HIDE DEF taken
<1>2. Cardinality(taken) \in Nat
  BY <1>1, FS_CardinalityType
<1>3. PICK n \in Nat : n = Cardinality(taken)
  BY <1>2
<1>4. free # {}
  <2> SUFFICES ASSUME free = {} PROVE FALSE
    OBVIOUS
  <2>1. 1 .. n + 1 \in SUBSET taken
    BY <1>3
  <2>2. IsFiniteSet(1 .. n + 1) /\ Cardinality(1 .. n + 1) = n + 1
    BY FS_Interval
  <2>3. Cardinality(1 .. n + 1) <= Cardinality(taken)
    BY <1>1, <2>1, FS_Subset
  <2> QED BY <1>3, <2>2, <2>3
<1>5. free \in SUBSET Nat
  BY <1>2
<1> HIDE DEF free
<1>6. Min(free) \in Nat
  BY <1>4, <1>5, MinIsIn
<1> QED BY <1>6 DEF free, taken

\* A record has these fields.
HasFields(q, fields) == q = [x \in fields |-> q[x]]

\* A record with one more field, at another station.
Advanced(q, at, field, v) == Knowing([q EXCEPT !.at = at], field, v)

\* What goes on knows what it knew.
LEMMA KnowsMore ==
  ASSUME NEW q, NEW fields, HasFields(q, fields), {"at", "op"} \subseteq fields,
         NEW field, field \notin {"at", "op"}, NEW v, NEW at,
         NEW more, more = Advanced(q, at, field, v)
  PROVE  /\ more.at = at /\ more.op = q.op /\ more[field] = v
         /\ \A x \in fields \ {"at", field} : more[x] = q[x]
<1> DEFINE d == [q EXCEPT !.at = at]
<1>1. d = [x \in fields |-> d[x]] /\ d.at = at /\ \A x \in fields \ {"at"} : d[x] = q[x]
  BY DEF HasFields
<1> HIDE DEF d
<1> DEFINE e == Knowing(d, field, v)
<1>2. e = [x \in fields \union {field} |-> IF x = field THEN v ELSE d[x]]
  BY <1>1 DEF Knowing
<1> HIDE DEF e
<1>3. e.at = at /\ e.op = q.op /\ e[field] = v /\ \A x \in fields \ {"at", field} : e[x] = q[x]
  BY <1>1, <1>2
<1> QED BY <1>3 DEF e, d, Advanced

\* More users leave what was found.
LEMMA AskedStill ==
  ASSUME NEW q, NEW ids, NEW ids2, ids \subseteq ids2, AskTyped(q, ids)
  PROVE  AskTyped(q, ids2)
BY DEF AskTyped

\* One request moves, and users are only added.
LEMMA OneAsks ==
  ASSUME SpaceInv, AsksTyped, NEW r \in Requests, NEW q, request' = [request EXCEPT ![r] = q],
         UserIds \subseteq UserIds', AskTyped(q, UserIds')
  PROVE  AsksTyped'
<1>1. \A s \in Requests : request'[s] = IF s = r THEN q ELSE request[s]
  BY DEF SpaceInv, RequestsFit
<1>2. \A s \in Requests : AskTyped(request[s], UserIds')
  BY AskedStill DEF AsksTyped
<1>3. \A s \in Requests : AskTyped(request'[s], UserIds')
  BY <1>1, <1>2
<1> QED BY <1>3 DEF AsksTyped, AskTyped

\* What a request is, that has a role to look up or is about to write.
LEMMA AskFields ==
  ASSUME SpaceInv, NEW r \in Requests, request[r].at \in Stations
  PROVE  /\ request[r] = [x \in KnownAt(request[r].at) |-> request[r][x]]
         /\ {"at", "op", "arg"} \subseteq KnownAt(request[r].at)
         /\ request[r].at \in {"role", "write", "audit"} => "user" \in KnownAt(request[r].at)
         /\ request[r] # Quiet
<1>1. request[r] # Quiet
  BY DEF Quiet, Stations
<1> QED BY <1>1, RequestAsks DEF Sought, KnownAt

\* Requests are a function, whose values change one by one.
LEMMA RequestRows ==
  ASSUME SpaceInv PROVE request = [s \in Requests |-> request[s]]
BY DEF SpaceInv, RequestsFit

\* A request that closes,
LEMMA ClosesTyped ==
  ASSUME SpaceInv, AsksTyped, NEW r \in Requests, UserIds \subseteq UserIds', Closes(r)
  PROVE  AsksTyped'
<1>1. AskTyped(Quiet, UserIds')
  BY DEF AskTyped
<1> QED BY <1>1, OneAsks DEF Closes

\* or tells what it has done,
LEMMA SaysTyped ==
  ASSUME SpaceInv, AsksTyped, NEW r \in Requests, UserIds \subseteq UserIds',
         NEW x, request[r].at \in {"role", "write"}, Says(r, x)
  PROVE  AsksTyped'
<1> DEFINE q == request[r]
           e == Knowing([q EXCEPT !.at = "audit"], "target", x)
<1>1. request' = [request EXCEPT ![r] = e]
  BY RequestRows DEF Says
<1>2. e.at = "audit" /\ e.op = q.op /\ e.user = q.user
  <2>1. /\ HasFields(q, KnownAt(q.at)) /\ {"at", "op"} \subseteq KnownAt(q.at)
        /\ "user" \in KnownAt(q.at)
    BY AskFields DEF Stations, HasFields
  <2> HIDE DEF q
  <2>2. "target" \notin {"at", "op"} /\ "user" \notin {"at", "target"}
    OBVIOUS
  <2>3. e = Advanced(q, "audit", "target", x)
    BY DEF Advanced
  <2> HIDE DEF e
  <2>4. /\ e.at = "audit" /\ e.op = q.op /\ e["target"] = x
        /\ \A f \in KnownAt(q.at) \ {"at", "target"} : e[f] = q[f]
    BY <2>1, <2>2, <2>3, KnowsMore
  <2> QED BY <2>1, <2>2, <2>4
<1>3. q.op \in Operations /\ q.user \in UserIds
  BY AskFields DEF AsksTyped, AskTyped, Stations
<1> HIDE DEF e, q
<1>4. AskTyped(e, UserIds')
  BY <1>2, <1>3 DEF AskTyped
<1> QED BY <1>1, <1>4, OneAsks

\* or goes on to write what it has found,
LEMMA FindsTyped ==
  ASSUME SpaceInv, AsksTyped, NEW r \in Requests, UserIds \subseteq UserIds',
         NEW v, request[r].at = "role",
         request' = [request EXCEPT ![r] = [@ EXCEPT !.at = "write", !.arg = v]],
         request[r].op = "add" => v \in UserIds, request[r].op = "workspace" => v \in Nat
  PROVE  AsksTyped'
<1> DEFINE q == request[r]
           e == [q EXCEPT !.at = "write", !.arg = v]
<1>1. request' = [request EXCEPT ![r] = e]
  BY RequestRows
<1>2. e.at = "write" /\ e.op = q.op /\ e.user = q.user /\ e.arg = v
  <2>1. q = [y \in KnownAt(q.at) |-> q[y]] /\ {"at", "op", "arg", "user"} \subseteq KnownAt(q.at)
    BY AskFields DEF Stations
  <2> HIDE DEF q
  <2> QED BY <2>1
<1>3. q.op \in Operations /\ q.user \in UserIds
  BY AskFields DEF AsksTyped, AskTyped, Stations
<1>4. (q.op = "add" => v \in UserIds) /\ (q.op = "workspace" => v \in Nat)
  OBVIOUS
<1> HIDE DEF e, q
<1>5. AskTyped(e, UserIds')
  BY <1>2, <1>3, <1>4 DEF AskTyped
<1> QED BY <1>1, <1>5, OneAsks

\* or what it was told.
LEMMA GoesTyped ==
  ASSUME SpaceInv, AsksTyped, NEW r \in Requests, UserIds \subseteq UserIds',
         request[r].at = "role", request[r].op \notin {"add", "workspace"}, Goes(r, "write")
  PROVE  AsksTyped'
<1> DEFINE q == request[r]
           e == [q EXCEPT !.at = "write"]
<1>1. request' = [request EXCEPT ![r] = e]
  BY RequestRows DEF Goes
<1>2. e.at = "write" /\ e.op = q.op /\ e.user = q.user
  <2>1. q = [y \in KnownAt(q.at) |-> q[y]] /\ {"at", "op", "arg", "user"} \subseteq KnownAt(q.at)
    BY AskFields DEF Stations
  <2> HIDE DEF q
  <2> QED BY <2>1
<1>3. q.op \in Operations /\ q.user \in UserIds
  BY AskFields DEF AsksTyped, AskTyped, Stations
<1>4. q.op \notin {"add", "workspace"}
  OBVIOUS
<1> HIDE DEF e, q
<1>5. AskTyped(e, UserIds')
  BY <1>2, <1>3, <1>4 DEF AskTyped
<1> QED BY <1>1, <1>5, OneAsks

\* Where rows and users stay.
LEMMA RowsTypedStill ==
  ASSUME SpacesTyped, RowsTyped, UNCHANGED <<spaces, members, secrets, trail>>, UserIds \subseteq UserIds'
  PROVE  SpacesTyped' /\ RowsTyped'
<1>1. /\ \A w \in spaces : w.slug \in Nat /\ w.owner \in UserIds'
      /\ \A m \in members : m.user \in UserIds'
  BY DEF SpacesTyped, RowsTyped
<1> QED BY <1>1 DEF SpacesTyped, RowsTyped

\* The handlers that read, and the audit log.
LEMMA ReadersKeepTypes ==
  ASSUME SpaceInv, SpaceRest, NEW r \in Requests,
         \/ FindSlug(r) \/ Refuse(r) \/ FindUser(r) \/ FindMembership(r) \/ FindSecret(r)
         \/ ListRows(r) \/ LoseHandler(r) \/ WriteTrail(r)
  PROVE  AsksTyped' /\ SpacesTyped' /\ RowsTyped'
<1>1. UNCHANGED <<users, spaces, members, secrets>> /\ UserIds' = UserIds
  BY DEF FindSlug, Refuse, FindUser, FindMembership, FindSecret, ListRows, LoseHandler, WriteTrail,
     accessRows, UserIds
<1>2. AsksTyped /\ SpacesTyped /\ RowsTyped
  BY DEF SpaceRest
<1>3. ASSUME Refuse(r) \/ ListRows(r) \/ LoseHandler(r) \/ WriteTrail(r) PROVE AsksTyped'
  <2>1. Closes(r)
    BY <1>3 DEF Refuse, ListRows, LoseHandler, WriteTrail
  <2> QED BY <1>1, <1>2, <2>1, ClosesTyped
<1>4. ASSUME FindSlug(r) PROVE AsksTyped'
  <2> DEFINE taken == {w.slug : w \in spaces}
             slug == Min((1 .. Cardinality(taken) + 1) \ taken)
  <2>1. slug \in Nat
    BY <1>2, SlugIsFound DEF SpacesTyped
  <2>2. /\ request[r].at = "role" /\ request[r].op = "workspace"
        /\ request' = [request EXCEPT ![r] = [@ EXCEPT !.at = "write", !.arg = slug]]
    BY <1>4 DEF FindSlug
  <2> HIDE DEF slug
  <2> QED BY <1>1, <1>2, <2>1, <2>2, FindsTyped
<1>5. ASSUME FindUser(r) PROVE AsksTyped'
  <2>1. request[r].at = "role" /\ request[r].op = "add"
    BY <1>5 DEF FindUser, Enters
  <2>2. \/ Closes(r) \/ \E x : Says(r, x)
        \/ \E u \in users : request' = [request EXCEPT ![r].at = "write", ![r].arg = u.id]
    BY <1>5 DEF FindUser
  <2>3. ASSUME NEW u \in users, request' = [request EXCEPT ![r].at = "write", ![r].arg = u.id]
        PROVE  AsksTyped'
    <3> DEFINE v == u.id
    <3>1. request' = [request EXCEPT ![r] = [@ EXCEPT !.at = "write", !.arg = v]]
      <4> DEFINE p == request[r]
                 e == [p EXCEPT !.at = "write"]
                 f == [e EXCEPT !.arg = v]
                 g == [p EXCEPT !.at = "write", !.arg = v]
      <4>1. request = [s \in Requests |-> request[s]]
        BY DEF SpaceInv, RequestsFit
      <4>2. request' = [s \in Requests |-> IF s = r THEN f ELSE request[s]]
        BY <2>3, <4>1
      <4>3. f = g
        OBVIOUS
      <4>4. [request EXCEPT ![r] = [@ EXCEPT !.at = "write", !.arg = v]]
              = [s \in Requests |-> IF s = r THEN g ELSE request[s]]
        BY <4>1
      <4> QED BY <4>2, <4>3, <4>4
    <3>2. v \in UserIds
      BY DEF UserIds
    <3> HIDE DEF v
    <3> QED BY <1>1, <1>2, <2>1, <3>1, <3>2, FindsTyped
  <2> QED BY <1>1, <1>2, <2>1, <2>2, <2>3, ClosesTyped, SaysTyped
<1>6. ASSUME FindMembership(r) \/ FindSecret(r) PROVE AsksTyped'
  <2>1. /\ request[r].at = "role" /\ request[r].op \notin {"add", "workspace"}
        /\ Goes(r, "write") \/ Closes(r)
    BY <1>6 DEF FindMembership, FindSecret, Enters
  <2> QED BY <1>1, <1>2, <2>1, ClosesTyped, GoesTyped
<1>7. AsksTyped'
  BY <1>3, <1>4, <1>5, <1>6
<1>8. SpacesTyped' /\ RowsTyped'
  <2>1. CASE ~ WriteTrail(r)
    <3>1. trail' = trail
      BY <2>1 DEF FindSlug, Refuse, FindUser, FindMembership, FindSecret, ListRows, LoseHandler, accessRows
    <3> QED BY <1>1, <1>2, <3>1, RowsTypedStill
  <2>2. CASE WriteTrail(r)
    <3>1. /\ trail' = trail \union {[op |-> request[r].op, target |-> request[r].target, of |-> r]}
          /\ request[r].at = "audit"
      BY <2>2 DEF WriteTrail
    <3>2. request[r].op \in Operations
      BY <1>2, <3>1, AskFields DEF AsksTyped, AskTyped, Stations
    <3>3. \A a \in trail' : a.op \in Operations
      BY <1>2, <3>1, <3>2 DEF RowsTyped
    <3> QED BY <1>1, <1>2, <3>3 DEF SpacesTyped, RowsTyped
  <2> QED BY <2>1, <2>2
<1> QED BY <1>7, <1>8

\* The handlers that write rows.
LEMMA WritersKeepTypes ==
  ASSUME SpaceInv, SpaceRest, NEW r \in Requests,
         \/ InsertWorkspace(r) \/ CreateMembership(r) \/ DeleteMembership(r)
         \/ CreateSecret(r) \/ WriteSecret(r) \/ SubmitJob(r)
  PROVE  AsksTyped' /\ SpacesTyped' /\ RowsTyped'
<1>1. UNCHANGED <<users, trail>> /\ UserIds' = UserIds
  BY DEF InsertWorkspace, CreateMembership, DeleteMembership, CreateSecret, WriteSecret, SubmitJob, UserIds
<1>2. AsksTyped /\ SpacesTyped /\ RowsTyped
  BY DEF SpaceRest
<1>3. AsksTyped'
  <2>1. request[r].at \in {"role", "write"} /\ (Closes(r) \/ \E x : Says(r, x))
    BY DEF InsertWorkspace, CreateMembership, DeleteMembership, CreateSecret, WriteSecret, SubmitJob, Enters
  <2> QED BY <1>1, <1>2, <2>1, ClosesTyped, SaysTyped
<1>4. SpacesTyped'
  <2>1. CASE UNCHANGED spaces
    BY <1>1, <1>2, <2>1 DEF SpacesTyped
  <2>2. CASE ~ UNCHANGED spaces
    <3>1. /\ InsertWorkspace(r)
          /\ spaces' = spaces \union {[id |-> Fresh(spaces), owner |-> request[r].user, slug |-> request[r].arg]}
      BY <2>2 DEF InsertWorkspace, CreateMembership, DeleteMembership, CreateSecret, WriteSecret, SubmitJob
    <3>2. request[r].user \in UserIds /\ request[r].arg \in Nat
      BY <1>2, <3>1, AskFields DEF InsertWorkspace, AsksTyped, AskTyped, Stations
    <3>3. IsFiniteSet(spaces')
      BY <1>2, <3>1, FS_AddElement DEF SpacesTyped
    <3> QED BY <1>1, <1>2, <3>1, <3>2, <3>3 DEF SpacesTyped
  <2> QED BY <2>1, <2>2
<1>5. \A m \in members' : m.user \in UserIds
  <2>1. CASE CreateMembership(r)
    <3>1. request[r].arg \in UserIds
      BY <1>2, <2>1, AskFields DEF CreateMembership, AsksTyped, AskTyped, Stations
    <3> QED BY <1>2, <2>1, <3>1 DEF CreateMembership, RowsTyped
  <2>2. CASE ~ CreateMembership(r)
    <3>1. members' \subseteq members
      BY <2>2 DEF InsertWorkspace, DeleteMembership, CreateSecret, WriteSecret, SubmitJob
    <3> QED BY <1>2, <3>1 DEF RowsTyped
  <2> QED BY <2>1, <2>2
<1>6. \A s \in secrets' : s.space \in {1, 2} /\ s.version \in {1, 2}
  <2>1. \A s \in secrets' : s \in secrets \/ (s.space = 1 /\ s.version \in {1, 2})
    BY DEF InsertWorkspace, CreateMembership, DeleteMembership, CreateSecret, WriteSecret, SubmitJob
  <2> QED BY <1>2, <2>1 DEF RowsTyped
<1> QED BY <1>1, <1>2, <1>3, <1>4, <1>5, <1>6 DEF RowsTyped

\* The identity: a user's row is read, then written.
LEMMA IdentityKeepsTypes ==
  ASSUME SpaceInv, SpaceRest, NEW r \in Requests, ReadUser(r) \/ WriteUser(r)
  PROVE  AsksTyped' /\ SpacesTyped' /\ RowsTyped'
<1>0. request = [s \in Requests |-> request[s]] /\ AsksTyped /\ SpacesTyped /\ RowsTyped
  BY DEF SpaceInv, RequestsFit, SpaceRest
<1> DEFINE q == request[r]
<1>1. /\ q.at \in {"identity", "user"} /\ q.op \in Operations
      /\ q = [x \in KnownAt(q.at) |-> q[x]] /\ {"at", "op"} \subseteq KnownAt(q.at)
  BY <1>0, AskFields DEF ReadUser, WriteUser, AsksTyped, AskTyped, Stations
<1>2. CASE ReadUser(r)
  <2>1. PICK v : request' = [request EXCEPT ![r] = Knowing([q EXCEPT !.at = "user"], "row", v)]
    <3>1. \E v : request' = [request EXCEPT ![r] = Knowing([@ EXCEPT !.at = "user"], "row", v)]
      BY <1>2 DEF ReadUser
    <3> QED BY <1>0, <3>1
  <2> DEFINE e == Knowing([q EXCEPT !.at = "user"], "row", v)
  <2>2. e.at = "user" /\ e.op = q.op
    <3>1. HasFields(q, KnownAt(q.at)) /\ {"at", "op"} \subseteq KnownAt(q.at)
      BY <1>1 DEF HasFields
    <3> HIDE DEF q
    <3>2. "row" \notin {"at", "op"} /\ e = Advanced(q, "user", "row", v)
      BY DEF Advanced
    <3> HIDE DEF e
    <3>3. e.at = "user" /\ e.op = q.op /\ e["row"] = v
      BY <3>1, <3>2, KnowsMore
    <3> QED BY <3>3
  <2>3. request' = [request EXCEPT ![r] = e]
    BY <2>1
  <2> HIDE DEF e, q
  <2>4. AskTyped(e, UserIds')
    BY <1>1, <2>2 DEF AskTyped
  <2>5. UNCHANGED <<users, spaces, members, secrets, trail>> /\ UserIds' = UserIds
    BY <1>2 DEF ReadUser, accessRows, UserIds
  <2> QED BY <1>0, <2>3, <2>4, <2>5, OneAsks, RowsTypedStill
<1>3. CASE WriteUser(r)
  <2> DEFINE id == IF q.row = {} THEN Fresh(users) ELSE CHOOSE i \in q.row : TRUE
             others == {u \in users : u.id # id}
             new == [id |-> id, person |-> q.person, mail |-> q.mail]
             e == Knowing([q EXCEPT !.at = "role"], "user", id)
  <2>1. \/ users' = others \union {new} /\ request' = [request EXCEPT ![r] = e]
        \/ users' = users /\ Closes(r)
    BY <1>0, <1>3 DEF WriteUser, Closes
  <2>2. UNCHANGED <<spaces, members, secrets, trail>>
    BY <1>3 DEF WriteUser
  <2>3. e.at = "role" /\ e.op = q.op /\ e.user = id
    <3>1. HasFields(q, KnownAt(q.at)) /\ {"at", "op"} \subseteq KnownAt(q.at)
      BY <1>1 DEF HasFields
    <3> HIDE DEF q, id
    <3>2. "user" \notin {"at", "op"} /\ e = Advanced(q, "role", "user", id)
      BY DEF Advanced
    <3> HIDE DEF e
    <3>3. e.at = "role" /\ e.op = q.op /\ e["user"] = id
      BY <3>1, <3>2, KnowsMore
    <3> QED BY <3>3
  <2>4. new.id = id
    OBVIOUS
  <2>5. CASE users' = others \union {new} /\ request' = [request EXCEPT ![r] = e]
    <3> HIDE DEF e, new, id, q
    <3>1. UserIds \subseteq UserIds' /\ id \in UserIds'
      BY <2>4, <2>5 DEF UserIds
    <3>2. AskTyped(e, UserIds')
      BY <1>1, <2>3, <3>1 DEF AskTyped
    <3> QED BY <1>0, <2>2, <2>5, <3>1, <3>2, OneAsks, RowsTypedStill
  <2>6. CASE users' = users /\ Closes(r)
    <3>1. UserIds \subseteq UserIds'
      BY <2>6 DEF UserIds
    <3> QED BY <1>0, <2>2, <2>6, <3>1, ClosesTyped, RowsTypedStill
  <2> QED BY <2>1, <2>5, <2>6
<1> QED BY <1>2, <1>3

\* Every step of a request keeps the types.
LEMMA SpaceRestKeeps == SpaceInv /\ SpaceRest /\ [SpaceNext]_spaceVars => SpaceRest'
<1> SUFFICES ASSUME SpaceInv, SpaceRest, [SpaceNext]_spaceVars PROVE SpaceRest'
  OBVIOUS
<1>1. mail' \in [People -> Mails] /\ mail \in [People -> Mails] /\ AsksTyped /\ SpacesTyped /\ RowsTyped
  BY MailsStay DEF SpaceRest
<1>2. ASSUME NEW r \in Requests, HandlerStep(r) PROVE SpaceRest'
  BY <1>1, <1>2, ReadersKeepTypes, WritersKeepTypes, IdentityKeepsTypes DEF HandlerStep, SpaceRest
<1>3. ASSUME NEW r \in Requests, NEW p \in People, NEW op \in Operations, BeginRequest(r, p, op)
      PROVE  SpaceRest'
  <2>1. PICK arg : request' = [request EXCEPT ![r] =
                    [at |-> "identity", person |-> p, mail |-> mail[p], op |-> op, arg |-> arg]]
    BY <1>3 DEF BeginRequest
  <2> DEFINE q == [at |-> "identity", person |-> p, mail |-> mail[p], op |-> op, arg |-> arg]
  <2>2. AskTyped(q, UserIds')
    BY DEF AskTyped
  <2> HIDE DEF q
  <2>3. UNCHANGED <<users, spaces, members, secrets, trail>> /\ UserIds' = UserIds
    BY <1>3 DEF BeginRequest, accessRows, UserIds
  <2>4. request' = [request EXCEPT ![r] = q]
    BY <2>1 DEF q
  <2> QED BY <1>1, <2>2, <2>3, <2>4, OneAsks, RowsTypedStill DEF SpaceRest
<1>4. ASSUME UNCHANGED <<users, spaces, members, secrets, trail, request>> PROVE SpaceRest'
  BY <1>1, <1>4 DEF SpaceRest, AsksTyped, SpacesTyped, RowsTyped, UserIds
<1>5. ASSUME NEW p \in People, NEW m \in Mails, ChangeMail(p, m) PROVE SpaceRest'
  BY <1>4, <1>5 DEF ChangeMail, accessRows
<1>6. ClaimJob \/ UNCHANGED spaceVars => SpaceRest'
  BY <1>4 DEF ClaimJob, spaceVars, accessRows
<1> QED BY <1>2, <1>3, <1>5, <1>6, Zenon DEF SpaceNext

\* At first they are so.
LEMMA InitSpaceRest == SpaceInit => SpaceRest
<1> SUFFICES ASSUME SpaceInit PROVE SpaceRest
  OBVIOUS
<1>1. mail \in [People -> Mails]
  <2> DEFINE first == CHOOSE p \in People : TRUE
             m == CHOOSE k \in Mails : TRUE
             n == CHOOSE k \in Mails \ {m} : TRUE
  <2>1. m \in Mails /\ \E k \in Mails : k # m
    BY AccessAssumption
  <2>2. n \in Mails
    BY <2>1
  <2>3. mail = [p \in People |-> IF p = first THEN m ELSE n]
    BY DEF SpaceInit
  <2> HIDE DEF first, m, n
  <2> QED BY <2>1, <2>2, <2>3
<1>2. PICK ann, bob, a, b, rest : rest \in {{}, {2}} /\ RowsOf(ann, bob, a, b, rest)
  <2> DEFINE first == CHOOSE p \in People : TRUE
             other == CHOOSE p \in People \ {first} : TRUE
             m == CHOOSE n \in Mails : TRUE
             n == CHOOSE k \in Mails \ {m} : TRUE
  <2>1. PICK rest \in {{}, {2}} : RowsOf(first, other, m, n, rest)
    BY Zenon DEF SpaceInit, RowsOf
  <2> HIDE DEF first, other, m, n
  <2> QED BY <2>1
<1>3. /\ users = {[id |-> 1, person |-> ann, mail |-> a]}
                    \union {[id |-> i, person |-> bob, mail |-> b] : i \in rest}
      /\ spaces = {[id |-> i, owner |-> i, slug |-> i] : i \in {1} \union rest}
      /\ members = {[id |-> i, user |-> i] : i \in {1} \union rest}
      /\ secrets = {[id |-> i, space |-> i, version |-> 1] : i \in {1} \union rest}
  BY <1>2, Zenon DEF RowsOf
<1>4. trail = {} /\ \A r \in Requests : request[r] = Quiet
  BY DEF SpaceInit
<1>5. \A i \in {1} \union rest : i \in UserIds /\ i \in {1, 2}
  <2>1. [id |-> 1, person |-> ann, mail |-> a] \in users
    BY <1>3
  <2>2. \A i \in rest : [id |-> i, person |-> bob, mail |-> b] \in users
    BY <1>3
  <2>3. 1 \in UserIds
    BY <2>1 DEF UserIds
  <2>4. ASSUME NEW i \in rest PROVE i \in UserIds
    <3> DEFINE u == [id |-> i, person |-> bob, mail |-> b]
    <3>1. u \in users /\ u.id = i
      BY <2>2
    <3> HIDE DEF u
    <3> QED BY <3>1 DEF UserIds
  <2> QED BY <1>2, <2>3, <2>4
<1>6. IsFiniteSet(spaces)
  <2>1. \/ spaces = {[id |-> 1, owner |-> 1, slug |-> 1]}
        \/ spaces = {[id |-> 1, owner |-> 1, slug |-> 1]} \union {[id |-> 2, owner |-> 2, slug |-> 2]}
    BY <1>2, <1>3
  <2>2. \A x, y : IsFiniteSet({x}) /\ IsFiniteSet({x} \union {y})
    BY FS_Singleton, FS_AddElement
  <2> QED BY <2>1, <2>2
<1>7. RowsTyped
  BY <1>3, <1>4, <1>5 DEF RowsTyped
<1>8. SpacesTyped
  BY <1>3, <1>5, <1>6 DEF SpacesTyped
<1>9. AsksTyped
  BY <1>4 DEF AsksTyped, AskTyped
<1> QED BY <1>1, <1>7, <1>8, <1>9 DEF SpaceRest

\* SpaceType: workspaces and memberships name users that exist, and nextWorkspaceSlug finds a
\* slug, for every set of requests, of people and of operations.
THEOREM SpaceTypes == SpaceSpec => []SpaceType
<1>1. ASSUME SpaceInv, SpaceRest PROVE SpaceType
  <2>1. \A i \in UserIds : \E u \in users : u.id = i
    BY DEF UserIds
  <2>2. \A w \in spaces : w.id \in Nat
    BY <1>1 DEF SpaceInv, SpacesFit, HasTop, IdsOf
  <2>3. \A w \in spaces : w.slug \in Nat /\ \E u \in users : u.id = w.owner
    BY <1>1, <2>1 DEF SpaceRest, SpacesTyped
  <2>4. \A m \in members : m.id \in Nat /\ \E u \in users : u.id = m.user
    BY <1>1, <2>1 DEF SpaceInv, RowsFit, SpaceRest, RowsTyped
  <2>5. /\ \A s \in secrets : s.id \in Nat /\ s.space \in {1, 2} /\ s.version \in {1, 2}
        /\ \A x \in trail : x.op \in Operations
    BY <1>1 DEF SpaceInv, RowsFit, SpaceRest, RowsTyped
  <2>6. \A r \in Requests : request[r] = Quiet \/ request[r].op \in Operations
    BY <1>1 DEF SpaceRest, AsksTyped, AskTyped
  <2>7. /\ \A u \in users : u.id \in Nat /\ u.person \in People /\ u.mail \in Mails
        /\ acted \subseteq People \X Nat /\ wrote \subseteq People \X Mails
    BY <1>1 DEF SpaceInv, UsersFit
  <2>8. job = NoJob \/ job.at \in {"queued", "running"}
    BY <1>1 DEF SpaceInv, JobFits
  <2>9. mail \in [People -> Mails]
    BY <1>1 DEF SpaceRest
  <2> QED BY <2>2, <2>3, <2>4, <2>5, <2>6, <2>7, <2>8, <2>9 DEF SpaceType
<1>2. SpaceInv /\ SpaceRest /\ [SpaceNext]_spaceVars => SpaceInv' /\ SpaceRest'
  BY NextSpaceInv, SpaceRestKeeps DEF SpaceRest
<1> QED BY <1>1, <1>2, InitSpaceInv, InitSpaceRest, PTL DEF SpaceSpec
=============================================================================
