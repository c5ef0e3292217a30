--------------------------- MODULE PlanExecution ---------------------------
(***************************************************************************)
(* What docs/architecture/ai-agent-runtime.md promises of a plan: roles    *)
(* execute through an explicit dependency graph, independent roles may run *)
(* at the same time up to a limit, and roles on the shared runtime never   *)
(* do.  How a scheduler finds its order is left open.                      *)
(***************************************************************************)
EXTENDS RoleGraph

CONSTANTS Plans, Limit

VARIABLES
  plan,
  waiting,  \* roles not yet started
  active,   \* roles started, whose result was not taken
  done,     \* roles that gave their output
  result    \* "none", then how the execution ended

vars == <<plan, waiting, active, done, result>>

Init ==
  /\ plan \in Plans
  /\ waiting = Roles
  /\ active = {}
  /\ done = {}
  /\ result = "none"

\* Start some roles whose dependencies gave their outputs.
Start(S) ==
  /\ result = "none"
  /\ S # {} /\ S \subseteq waiting
  /\ \A r \in S : Declared(plan, r) \subseteq done
  /\ \A a, b \in (active \union S) \intersect plan.exclusive : a = b
  /\ Cardinality(active \union S) <= Limit
  /\ waiting' = waiting \ S
  /\ active' = active \union S
  /\ UNCHANGED <<plan, done, result>>

Give(r) ==
  /\ result = "none"
  /\ r \in active
  /\ active' = active \ {r}
  /\ done' = done \union {r}
  /\ UNCHANGED <<plan, waiting, result>>

\* One role's failure ends the execution; the others are left behind.
Fail(r) ==
  /\ result = "none"
  /\ r \in active
  /\ active' = active \ {r}
  /\ result' = "failed"
  /\ UNCHANGED <<plan, waiting, done>>

Succeed ==
  /\ result = "none"
  /\ done = Roles
  /\ result' = "succeeded"
  /\ UNCHANGED <<plan, waiting, active, done>>

\* A cancellation is honoured when no role is at work.
Cancel ==
  /\ result = "none"
  /\ active = {} /\ done # Roles
  /\ result' = "cancelled"
  /\ UNCHANGED <<plan, waiting, active, done>>

\* A plan without an order is refused before any role starts.
Refuse ==
  /\ result = "none"
  /\ waiting = Roles
  /\ result' = "cyclic"
  /\ UNCHANGED <<plan, waiting, active, done>>

Next ==
  \/ \E S \in SUBSET waiting : Start(S)
  \/ \E r \in active : Give(r) \/ Fail(r)
  \/ Succeed \/ Cancel \/ Refuse

Safety == Init /\ [][Next]_vars

\* An execution does not go on for ever.
Spec == Safety /\ <>(result # "none")
=============================================================================
