--------------------------- MODULE RoleScheduler ---------------------------
(***************************************************************************)
(* executeAuditJobCore with executeRolesWithGraph: the roles of one agent  *)
(* run as a dependency graph, up to a limit at a time, in one process.     *)
(* Between two awaits the loop is alone; at an await, launched roles go on *)
(* and a user may request a cancellation.                                  *)
(*                                                                         *)
(* The loop's place (phase):                                               *)
(*   planning  the levels loop of buildRoleExecutionGraph                  *)
(*   top       the head of the while loop                                  *)
(*   launch    launchReadyRoles, told that no cancellation was requested   *)
(*   race      Promise.race of the running roles                           *)
(*   check     asking for a cancellation after a role                      *)
(*   ended     the result is settled, the process still alive              *)
(*   exited    no role is left to hold the process                         *)
(***************************************************************************)
EXTENDS RoleExecution

CONSTANTS
  Plans,            \* the plans an agent may have
  RoleMaxConcurrency,  \* AI_WORKER_ROLE_MAX_CONCURRENCY
  Cancellable       \* FALSE in the sandbox, whose runtime answers "not requested"

ASSUME SchedulerAssumption ==
  /\ Plans \subseteq PlanType
  /\ RoleMaxConcurrency \in Nat
  /\ Cancellable \in BOOLEAN

VARIABLES
  plan,
  level,      \* the level each role was placed on, 0 before
  depth,      \* number of levels
  width,      \* maxWidth: roles on the largest level
  phase,
  pending,    \* pendingRoleIds
  running,    \* running: launched, not yet taken by the race
  outputs,    \* outputsByRoleId and completedRoleIds
  seen,       \* priorOutputs each role was launched with
  requested,  \* the job's cancelRequestedAt is set
  cancelSeen, \* cancellationRequested, the loop's own flag
  outcome,    \* "none", then how executeRolesWithGraph returned or threw
  report

vars == <<body, plan, level, depth, width, phase, pending, running, outputs, seen,
          requested, cancelSeen, outcome, report>>

graphVars == <<plan, level, depth, width>>
loopVars  == <<pending, running, outputs, seen, report>>

Outcomes == {"succeeded", "failed", "cancelled", "stalled", "cyclic"}

NoReport == [k \in {} |-> {}]

Init ==
  /\ plan \in Plans
  /\ body       = [r \in Roles |-> IdleBody]
  /\ level      = [r \in Roles |-> 0]
  /\ depth      = 0
  /\ width      = 0
  /\ phase      = "planning"
  /\ pending    = Roles
  /\ running    = {}
  /\ outputs    = {}
  /\ seen       = [r \in Roles |-> {}]
  /\ requested  = FALSE
  /\ cancelSeen = FALSE
  /\ outcome    = "none"
  /\ report     = NoReport

Placed == {r \in Roles : level[r] # 0}

End(result) == phase' = "ended" /\ outcome' = result

-----------------------------------------------------------------------------
(* buildRoleExecutionGraph *)

\* One round: every role whose dependencies are placed makes the next level.
PlaceLevel ==
  /\ phase = "planning"
  /\ Placed # Roles
  /\ LET next == NextLevel(plan, Placed)
     IN  /\ next # {}
         /\ level' = [r \in Roles |-> IF r \in next THEN depth + 1 ELSE level[r]]
         /\ depth' = depth + 1
         /\ width' = IF Cardinality(next) > width THEN Cardinality(next) ELSE width
  /\ UNCHANGED <<body, plan, phase, requested, cancelSeen, outcome, loopVars>>

\* Mutant: the loop tries again when a round places nothing.
TryAgain ==
  /\ phase = "planning"
  /\ Placed # Roles
  /\ NextLevel(plan, Placed) = {}
  /\ UNCHANGED vars

\* "AI role dependency graph contains a cycle."
RejectCycle ==
  /\ phase = "planning"
  /\ Placed # Roles
  /\ NextLevel(plan, Placed) = {}
  /\ End("cyclic")
  /\ UNCHANGED <<body, graphVars, requested, cancelSeen, loopVars>>

GraphBuilt ==
  /\ phase = "planning"
  /\ Placed = Roles
  /\ phase' = "top"
  /\ UNCHANGED <<body, graphVars, requested, cancelSeen, outcome, loopVars>>

AtLeastOne(n) == IF n > 1 THEN n ELSE 1

\* Mutant: one slot is kept back.
OneSlotLess ==
  IF AtLeastOne(RoleMaxConcurrency) < AtLeastOne(width)
  THEN AtLeastOne(RoleMaxConcurrency)
  ELSE AtLeastOne(width) - 1

\* effectiveConcurrency: no more than asked for, and no more than the widest level.
EffectiveConcurrency ==
  IF AtLeastOne(RoleMaxConcurrency) < AtLeastOne(width)
  THEN AtLeastOne(RoleMaxConcurrency)
  ELSE AtLeastOne(width)

-----------------------------------------------------------------------------
(* executeRolesWithGraph *)

\* The loop's condition fails: a cancellation seen by now comes too late.
AllCompleted ==
  /\ phase = "top"
  /\ outputs = Roles
  /\ End("succeeded")
  /\ report' = ReportOf(plan)
  /\ UNCHANGED <<body, graphVars, pending, running, outputs, seen, requested, cancelSeen>>

\* launchReadyRoles asks for a cancellation first, unless it knows of one.
CheckBeforeLaunch ==
  /\ phase = "top"
  /\ outputs # Roles
  /\ cancelSeen' = (cancelSeen \/ (Cancellable /\ requested))
  /\ phase' = IF cancelSeen' THEN "race" ELSE "launch"
  /\ UNCHANGED <<body, graphVars, loopVars, requested, outcome>>

\* Mutant: a dependency counts as met once it was launched.
ReadyOnLaunch(r) == Dependencies(plan, r) \subseteq outputs \union running

Ready(r) == Dependencies(plan, r) \subseteq outputs

\* launchReadyRoles: as many ready roles as there are open slots, in list order.
LaunchReadyRoles ==
  /\ phase = "launch"
  /\ LET open  == EffectiveConcurrency - Cardinality(running)
         batch == FirstOf({r \in pending : Ready(r)}, open)
     IN  /\ pending' = pending \ batch
         /\ running' = running \union batch
         /\ body' = [r \in Roles |-> IF r \in batch THEN StartedBody(plan.kind[r]) ELSE body[r]]
         /\ seen' = [r \in Roles |->
                       IF r \in batch THEN Declared(plan, r) \intersect outputs ELSE seen[r]]
  /\ phase' = "race"
  /\ UNCHANGED <<graphVars, outputs, report, requested, cancelSeen, outcome>>

\* Nothing runs: the job was cancelled, or the graph is stuck.
StopIdle ==
  /\ phase = "race"
  /\ running = {}
  /\ End(IF cancelSeen THEN "cancelled" ELSE "stalled")
  /\ UNCHANGED <<body, graphVars, loopVars, requested, cancelSeen>>

\* The race gives a role that left an output.
TakeOutput(r) ==
  /\ phase = "race"
  /\ r \in running
  /\ body[r].at = "output"
  /\ running' = running \ {r}
  /\ outputs' = outputs \union {r}
  /\ phase' = "check"
  /\ UNCHANGED <<body, graphVars, pending, seen, report, requested, cancelSeen, outcome>>

\* The race gives a role that threw: so does the loop, whatever else still runs.
TakeError(r) ==
  /\ phase = "race"
  /\ r \in running
  /\ body[r].at = "error"
  /\ running' = running \ {r}
  /\ End("failed")
  /\ UNCHANGED <<body, graphVars, pending, outputs, seen, report, requested, cancelSeen>>

CheckAfterRole ==
  /\ phase = "check"
  /\ cancelSeen' = (cancelSeen \/ (Cancellable /\ requested))
  /\ phase' = "top"
  /\ UNCHANGED <<body, graphVars, loopVars, requested, outcome>>

\* Nothing awaits the roles that still run, but they keep the process alive.
Exit ==
  /\ phase = "ended"
  /\ \A r \in running : body[r].at \in Settled
  /\ phase' = "exited"
  /\ UNCHANGED <<body, graphVars, loopVars, requested, cancelSeen, outcome>>

\* A launched role goes on by itself.
Work(r) ==
  /\ phase # "exited"
  /\ r \in running
  /\ RoleStep(r, plan.kind[r])
  /\ UNCHANGED <<graphVars, phase, loopVars, requested, cancelSeen, outcome>>

RequestCancellation ==
  /\ ~ requested
  /\ phase # "exited"
  /\ requested' = TRUE
  /\ UNCHANGED <<body, graphVars, phase, loopVars, cancelSeen, outcome>>

LoopStep ==
  \/ PlaceLevel \/ RejectCycle \/ GraphBuilt
  \/ AllCompleted \/ CheckBeforeLaunch \/ LaunchReadyRoles \/ StopIdle
  \/ \E r \in Roles : TakeOutput(r) \/ TakeError(r)
  \/ CheckAfterRole \/ Exit

Next == LoopStep \/ (\E r \in Roles : Work(r)) \/ RequestCancellation

Spec == Init /\ [][Next]_vars

-----------------------------------------------------------------------------
(* Properties *)

TypeInv ==
  /\ plan \in Plans
  /\ body \in [Roles -> BodyType]
  /\ level \in [Roles -> Nat]
  /\ depth \in Nat
  /\ width \in Nat
  /\ phase \in {"planning", "top", "launch", "race", "check", "ended", "exited"}
  /\ pending \subseteq Roles
  /\ running \subseteq Roles
  /\ outputs \subseteq Roles
  /\ seen \in [Roles -> SUBSET Roles]
  /\ requested \in BOOLEAN
  /\ cancelSeen \in BOOLEAN
  /\ outcome \in Outcomes \union {"none"}

\* A placed role stands above its dependencies, so the levels order the graph.
LevelInv ==
  /\ \A r \in Placed :
       /\ level[r] <= depth
       /\ \A d \in Dependencies(plan, r) : d \in Placed /\ level[d] < level[r]
  /\ phase \in {"top", "launch", "race", "check"} => Placed = Roles
  /\ outcome \notin {"none", "cyclic"} => Placed = Roles
  /\ phase = "planning" => pending = Roles
  /\ outcome = "cyclic" => pending = Roles

\* Each role waits, runs, or has given its output; only the one that failed does none.
RolesInv ==
  /\ pending \intersect (running \union outputs) = {}
  /\ running \intersect outputs = {}
  /\ phase \in {"planning", "top", "launch", "race", "check"} <=> outcome = "none"
  /\ outcome = "none" => pending \union running \union outputs = Roles
  /\ \A r \in pending : body[r] = IdleBody
  /\ \A r \in running : body[r].at # "idle"
  /\ phase = "launch" => ~ cancelSeen
  /\ phase \in {"launch", "race"} => outputs # Roles
  /\ phase = "race" => cancelSeen \/ running # {}
  /\ outcome = "succeeded" => outputs = Roles

\* What a launched role was waiting for is there, and it was handed over.
LaunchInv ==
  \A r \in Roles \ pending :
    /\ Dependencies(plan, r) \subseteq outputs
    /\ seen[r] = Declared(plan, r)

\* An exclusive role is launched when all exclusive roles before it are done.
ExclusiveInv ==
  \A e \in plan.exclusive \ pending : \A q \in plan.exclusive : q < e => q \in outputs

\* No more roles run than were asked for.
ConcurrencyInv == Cardinality(running) <= AtLeastOne(RoleMaxConcurrency)

IInv ==
  /\ TypeInv /\ AttemptsInv /\ LevelInv /\ RolesInv /\ LaunchInv /\ ExclusiveInv
  /\ ConcurrencyInv
  /\ outcome # "stalled"

\* A launched role has been given the output of every role it declares a dependency
\* on, whatever the order in which the others finished (dependencyOutputsForRole
\* drops a missing one silently).
DependenciesFirst ==
  \A r \in Roles : r \notin pending =>
    /\ Declared(plan, r) \subseteq outputs
    /\ seen[r] = Declared(plan, r)

\* Browser, Playwright and handoff roles never overlap, not even a failed run's
\* orphans: they share ports, the dev server and the artifact directories.
ExclusiveAlone == \A a, b \in running \intersect plan.exclusive : a = b

\* The loop never finds itself with nothing running and nothing to launch: the error
\* "AI role execution graph stalled" is unreachable.
NeverStalls == outcome # "stalled"

\* Roles that wait for one another in a circle, the synthetic edges included.
HasCycle(p) ==
  \E S \in SUBSET Roles :
    S # {} /\ \A r \in S : Dependencies(p, r) \intersect S # {}

\* The levels loop rejects exactly the graphs with a cycle.
GraphVerdict ==
  /\ outcome = "cyclic" => HasCycle(plan)
  /\ outcome \notin {"none", "cyclic"} => ~ HasCycle(plan)

\* A report has one finding per dedupe key: that of the first role in the role list
\* to report it, with the highest severity any role gave it, in whatever order the
\* roles finished.
ReportMergesFindings ==
  outcome = "succeeded" =>
    LET Found(k) == {x \in Roles \X Findings : x[2] \in plan.findings[x[1]] /\ x[2].key = k}
    IN  /\ DOMAIN report = {k \in FindingKeys : Found(k) # {}}
        /\ \A k \in DOMAIN report :
             /\ \E x \in Found(k) : x[1] = report[k].role
             /\ \E x \in Found(k) : x[2].severity = report[k].severity
             /\ \A x \in Found(k) :
                  report[k].role <= x[1] /\ report[k].severity >= x[2].severity

\* executeRolesWithGraph implements the promise made of a plan.
Promise == INSTANCE PlanExecution WITH
  waiting <- pending, active <- running, done <- outputs, result <- outcome,
  Limit <- AtLeastOne(RoleMaxConcurrency)

KeepsPlanPromise == Promise!Safety
=============================================================================
