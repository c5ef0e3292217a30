----------------------- MODULE RoleScheduler_proofs ------------------------
(***************************************************************************)
(* Proofs about the role scheduler for every plan, number of roles and     *)
(* concurrency, and about the sandbox that runs it.  IInv is inductive; the*)
(* properties of the run follow from it.  A pending role on the least level*)
(* waits for none but finished roles, so the loop always has something to  *)
(* launch (NeverStalls).  An analysis is an execution of RoleScheduler, so *)
(* all this holds of the sandbox.  For a remediation RemediationInv says   *)
(* which tree the last validation saw, and that a loop that goes on has not*)
(* passed one.  What the folds of ReportOf compute is shown by the least   *)
(* counterexample: the report they build is FirstReports.                  *)
(***************************************************************************)
EXTENDS SandboxCore, TLAPS, WellFoundedInduction, FiniteSetTheorems

-----------------------------------------------------------------------------
(* Roles, levels and dependencies *)

\* A set of naturals has a least element.
LEMMA SmallestOf ==
  ASSUME NEW T \in SUBSET Nat, T # {}
  PROVE  \E n \in T : \A m \in T : n <= m
<1> DEFINE R == OpToRel(<, Nat)
<1>1. IsWellFoundedOn(R, Nat)
  BY NatLessThanWellFounded
<1>2. PICK n \in T : \A m \in T : ~ (<<m, n>> \in R)
  <2> HIDE DEF R
  <2> QED BY <1>1, WFMin
<1>3. \A m \in T : n <= m
  <2> TAKE m \in T
  <2>1. m \in Nat /\ n \in Nat
    OBVIOUS
  <2>2. m < n => <<m, n>> \in R
    BY <2>1 DEF OpToRel
  <2>3. ~ (m < n)
    BY <1>2, <2>2
  <2> QED BY <2>1, <2>3
<1> QED BY <1>3

\* Among some roles, one has the least rank.
LEMMA LeastRole ==
  ASSUME NEW T \in SUBSET Roles, T # {}, NEW f \in [Roles -> Nat]
  PROVE  \E r \in T : \A q \in T : f[r] <= f[q]
<1> DEFINE V == {f[r] : r \in T}
<1>1. V \in SUBSET Nat /\ V # {}
  OBVIOUS
<1>2. PICK n \in V : \A m \in V : n <= m
  <2> HIDE DEF V
  <2> QED BY <1>1, SmallestOf
<1> QED BY <1>2

LEMMA RolesAreFinite ==
  /\ Roles \subseteq Nat
  /\ IsFiniteSet(Roles)
  /\ \A T \in SUBSET Roles : IsFiniteSet(T) /\ Cardinality(T) \in Nat
<1>1. Roles \subseteq Nat /\ IsFiniteSet(Roles)
  BY NumRolesAssumption, FS_Interval DEF Roles
<1>2. \A T \in SUBSET Roles : IsFiniteSet(T) /\ Cardinality(T) \in Nat
  BY <1>1, FS_Subset, FS_CardinalityType
<1> QED BY <1>1, <1>2

\* A batch of at least one takes a role when there is one, and no more than its size.
LEMMA FirstOfSome ==
  ASSUME NEW S \in SUBSET Roles, S # {}, NEW n \in Int, n >= 1
  PROVE  FirstOf(S, n) # {}
<1> DEFINE id == [r \in Roles |-> r]
<1>1. id \in [Roles -> Nat]
  BY RolesAreFinite
<1>2. PICK r \in S : \A q \in S : r <= q
  <2>1. \E r \in S : \A q \in S : id[r] <= id[q]
    <3> HIDE DEF id
    <3> QED BY <1>1, LeastRole
  <2>2. \A q \in S : id[q] = q
    OBVIOUS
  <2> QED BY <2>1, <2>2
<1>3. {q \in S : q < r} = {}
  <2> SUFFICES ASSUME NEW q \in S PROVE ~ (q < r)
    OBVIOUS
  <2>1. q \in Nat /\ r \in Nat /\ r <= q
    BY <1>2, RolesAreFinite
  <2> QED BY <2>1
<1>4. Cardinality({q \in S : q < r}) = 0
  BY <1>3, FS_EmptySet
<1>5. r \in FirstOf(S, n)
  <2>1. Cardinality({q \in S : q < r}) < n
    BY <1>4
  <2> QED BY <2>1 DEF FirstOf
<1> QED BY <1>5

LEMMA LargestOf ==
  ASSUME NEW T \in SUBSET Roles, T # {}
  PROVE  \E x \in T : \A y \in T : y <= x
<1> DEFINE f == [r \in Roles |-> NumRoles - r]
<1>1. f \in [Roles -> Nat]
  BY NumRolesAssumption DEF Roles
<1>2. PICK x \in T : \A y \in T : f[x] <= f[y]
  <2> HIDE DEF f
  <2> QED BY <1>1, LeastRole
<1>3. \A y \in T : f[y] = NumRoles - y /\ y \in Nat
  BY RolesAreFinite
<1>4. \A y \in T : y <= x
  <2> TAKE y \in T
  <2>1. f[x] <= f[y] /\ f[x] = NumRoles - x /\ f[y] = NumRoles - y
    BY <1>2, <1>3
  <2> HIDE DEF f
  <2>2. x \in Nat /\ y \in Nat /\ NumRoles \in Nat
    BY <1>3, NumRolesAssumption
  <2> QED BY <2>1, <2>2
<1> QED BY <1>4

LEMMA FirstOfBound ==
  ASSUME NEW S \in SUBSET Roles, NEW n \in Int
  PROVE  /\ FirstOf(S, n) \subseteq S
         /\ n < 1 => FirstOf(S, n) = {}
         /\ n >= 0 => Cardinality(FirstOf(S, n)) <= n
<1> DEFINE T == FirstOf(S, n)
           Before(x) == {q \in S : q < x}
<1>1. T \subseteq S
  BY DEF FirstOf
<1>2. \A x \in T : /\ IsFiniteSet(Before(x))
                   /\ Cardinality(Before(x)) \in Nat
                   /\ Cardinality(Before(x)) < n
  <2> TAKE x \in T
  <2>1. Before(x) \in SUBSET Roles
    OBVIOUS
  <2>2. Cardinality(Before(x)) < n
    BY DEF FirstOf
  <2> QED BY <2>1, <2>2, RolesAreFinite
<1>3. n < 1 => T = {}
  <2> HIDE DEF T, Before
  <2> QED BY <1>2
<1>4. ASSUME n >= 0, T # {} PROVE Cardinality(T) <= n
  <2> HIDE DEF T
  <2>1. PICK x \in T : \A y \in T : y <= x
    BY <1>1, <1>4, LargestOf
  <2>2. T \ {x} \subseteq Before(x)
    <3>1. \A y \in T : y \in Nat
      BY <1>1, RolesAreFinite
    <3> QED BY <1>1, <2>1, <3>1
  <2>3. Cardinality(T \ {x}) <= Cardinality(Before(x)) /\ IsFiniteSet(T \ {x})
    BY <1>2, <2>2, FS_Subset
  <2>4. IsFiniteSet(T)
    BY <1>1, RolesAreFinite
  <2>5. Cardinality(T \ {x}) = Cardinality(T) - 1
    BY <2>4, FS_RemoveElement
  <2>6. Cardinality(T) \in Nat /\ Cardinality(T \ {x}) \in Nat
    BY <2>3, <2>4, FS_CardinalityType
  <2> HIDE DEF Before
  <2> QED BY <1>2, <2>3, <2>5, <2>6
<1>5. n >= 0 /\ T = {} => Cardinality(T) <= n
  BY FS_EmptySet
<1> QED BY <1>1, <1>3, <1>4, <1>5

LEMMA DependenciesAreRoles ==
  ASSUME NEW p \in PlanType, NEW r \in Roles
  PROVE  Dependencies(p, r) \subseteq Roles /\ Declared(p, r) \subseteq Dependencies(p, r)
BY DEF PlanType, Dependencies, Declared, PreviousExclusive

\* The exclusive role just before another one is at or after any earlier one.
LEMMA NearestExclusive ==
  ASSUME NEW p \in PlanType, NEW e \in p.exclusive, NEW q \in p.exclusive, q < e
  PROVE  \E x \in Dependencies(p, e) \intersect p.exclusive : q <= x /\ x < e
<1> DEFINE T == {x \in p.exclusive : x < e}
<1>1. p.exclusive \subseteq Roles
  BY DEF PlanType
<1>2. PICK x \in T : \A y \in T : y <= x
  <2>1. T \in SUBSET Roles /\ T # {}
    BY <1>1
  <2> HIDE DEF T
  <2> QED BY <2>1, LargestOf
<1>3. x \in PreviousExclusive(p, e)
  BY <1>2 DEF PreviousExclusive
<1>4. x \in Dependencies(p, e)
  BY <1>3 DEF Dependencies
<1> QED BY <1>2, <1>4

-----------------------------------------------------------------------------
(* The invariant holds at first and every step keeps it *)

LEMMA PlanIsPlan == TypeInv => plan \in PlanType
BY SchedulerAssumption DEF TypeInv

LEMMA WidthOfSlots ==
  TypeInv => /\ EffectiveConcurrency \in Nat
             /\ EffectiveConcurrency >= 1
             /\ EffectiveConcurrency <= AtLeastOne(RoleMaxConcurrency)
BY SchedulerAssumption DEF TypeInv, EffectiveConcurrency, AtLeastOne

LEMMA InitKeeps == Init => IInv
<1> SUFFICES ASSUME Init PROVE IInv
  OBVIOUS
<1> USE DEF Init
<1>1. TypeInv
  <2>1. IdleBody \in BodyType
    BY MaxCodexAttemptsAssumption DEF IdleBody, Body, BodyType
  <2>2. body \in [Roles -> BodyType]
    BY <2>1
  <2> QED BY <2>2 DEF TypeInv
<1>2. AttemptsInv
  BY DEF AttemptsInv, IdleBody, Body
<1>3. LevelInv
  BY DEF LevelInv, Placed
<1>4. RolesInv
  BY DEF RolesInv
<1>5. LaunchInv /\ ExclusiveInv
  <2>1. plan.exclusive \subseteq Roles
    BY <1>1, PlanIsPlan DEF PlanType
  <2> QED BY <2>1 DEF LaunchInv, ExclusiveInv
<1>6. ConcurrencyInv
  BY FS_EmptySet, SchedulerAssumption DEF ConcurrencyInv, AtLeastOne
<1> QED BY <1>1, <1>2, <1>3, <1>4, <1>5, <1>6 DEF IInv

\* A step that leaves the scheduling state as it is.
LEMMA StutterKeeps ==
  ASSUME IInv, UNCHANGED <<body, graphVars, pending, running, outputs, seen, phase, outcome>>,
         requested' \in BOOLEAN, cancelSeen' = cancelSeen
  PROVE  IInv'
<1> USE DEF graphVars
<1>1. TypeInv' /\ AttemptsInv'
  BY DEF IInv, TypeInv, AttemptsInv
<1>2. LevelInv'
  BY DEF IInv, LevelInv, Placed, Dependencies, Declared, PreviousExclusive
<1>3. RolesInv' /\ ConcurrencyInv'
  BY DEF IInv, RolesInv, ConcurrencyInv
<1>4. LaunchInv' /\ ExclusiveInv'
  BY DEF IInv, LaunchInv, ExclusiveInv, Dependencies, Declared, PreviousExclusive
<1> QED BY <1>1, <1>2, <1>3, <1>4 DEF IInv

LEMMA PlaceLevelKeeps == IInv /\ PlaceLevel => IInv'
<1> SUFFICES ASSUME IInv, PlaceLevel PROVE IInv'
  OBVIOUS
<1> DEFINE next == NextLevel(plan, Placed)
<1>1. next \subseteq Roles \ Placed
  BY DEF NextLevel
<1>2. TypeInv'
  <2>1. Cardinality(next) \in Nat
    BY <1>1, RolesAreFinite
  <2>2. level' \in [Roles -> Nat] /\ depth' \in Nat /\ width' \in Nat
    BY <2>1 DEF IInv, TypeInv, PlaceLevel
  <2> QED BY <2>2 DEF IInv, TypeInv, PlaceLevel, loopVars
<1>3. AttemptsInv'
  BY DEF IInv, AttemptsInv, PlaceLevel
<1>4. LevelInv'
  <2>0. /\ depth \in Nat /\ depth' = depth + 1
        /\ level \in [Roles -> Nat]
        /\ \A r \in Roles : level'[r] = IF r \in next THEN depth + 1 ELSE level[r]
    BY DEF IInv, TypeInv, PlaceLevel
  <2>1. Placed' = Placed \union next
    <3> HIDE DEF next
    <3> QED BY <1>1, <2>0 DEF Placed
  <2>2. ASSUME NEW r \in Placed'
        PROVE  /\ level'[r] <= depth'
               /\ \A d \in Dependencies(plan, r) : d \in Placed' /\ level'[d] < level'[r]
    <3>1. r \in Roles /\ Placed \subseteq Roles
      BY DEF Placed
    <3>2. CASE r \in next
      <4>1. Dependencies(plan, r) \subseteq Placed
        BY <3>2 DEF NextLevel
      <4>2. \A d \in Placed : level'[d] = level[d] /\ level[d] <= depth /\ level[d] \in Nat
        BY <1>1, <2>0 DEF IInv, LevelInv, Placed
      <4>3. level'[r] = depth + 1
        BY <2>0, <3>1, <3>2
      <4> HIDE DEF next
      <4> QED BY <2>0, <2>1, <4>1, <4>2, <4>3
    <3>3. CASE r \in Placed
      <4>1. r \notin next
        BY <1>1, <3>3
      <4>2. \A d \in Dependencies(plan, r) : d \in Placed /\ level[d] < level[r]
        BY <3>3 DEF IInv, LevelInv
      <4>3. \A d \in Placed : level'[d] = level[d]
        BY <1>1, <2>0 DEF Placed
      <4>4. level[r] <= depth /\ level[r] \in Nat
        BY <2>0, <3>1, <3>3 DEF IInv, LevelInv
      <4> HIDE DEF next
      <4> QED BY <2>0, <2>1, <3>3, <4>2, <4>3, <4>4
    <3> QED BY <2>1, <2>2, <3>2, <3>3
  <2>3. phase' = "planning" /\ outcome' = outcome /\ pending' = pending /\ plan' = plan
    BY DEF PlaceLevel, loopVars
  <2>4. \A r \in Placed' : /\ level'[r] <= depth'
                           /\ \A d \in Dependencies(plan', r) :
                                d \in Placed' /\ level'[d] < level'[r]
    BY <2>2, <2>3
  <2>5. outcome = "none" /\ pending = Roles
    BY DEF IInv, LevelInv, RolesInv, PlaceLevel
  <2> QED BY <2>3, <2>4, <2>5 DEF LevelInv
<1>5. RolesInv' /\ ConcurrencyInv'
  BY DEF IInv, RolesInv, ConcurrencyInv, PlaceLevel, loopVars
<1>6. LaunchInv' /\ ExclusiveInv'
  BY DEF IInv, LaunchInv, ExclusiveInv, PlaceLevel, loopVars,
         Dependencies, Declared, PreviousExclusive
<1> QED BY <1>2, <1>3, <1>4, <1>5, <1>6 DEF IInv, PlaceLevel

\* A step that only moves the loop, ends it, or notes a cancellation.
LEMMA LoopMoves ==
  ASSUME IInv, phase # "planning",
         UNCHANGED <<body, graphVars, pending, running, outputs, seen>>,
         requested' \in BOOLEAN, cancelSeen' \in BOOLEAN,
         phase' \in {"top", "launch", "race", "check", "ended", "exited"},
         outcome' \in (Outcomes \union {"none"}) \ {"stalled"},
         phase' \in {"top", "launch", "race", "check"} <=> outcome' = "none",
         phase' \in {"top", "launch", "race", "check"} => phase \in {"top", "launch", "race", "check"},
         phase \in {"ended", "exited"} => outcome' = outcome,
         phase \notin {"ended", "exited"} => outcome' # "cyclic",
         phase' = "launch" => ~ cancelSeen' /\ outputs # Roles,
         phase' = "race" => outputs # Roles /\ (cancelSeen' \/ running # {}),
         outcome' = "succeeded" => outputs = Roles
  PROVE  IInv'
<1> USE DEF graphVars
<1>1. TypeInv' /\ AttemptsInv'
  BY DEF IInv, TypeInv, AttemptsInv
<1>2. LevelInv'
  <2>1. \A r \in Placed' : /\ level'[r] <= depth'
                           /\ \A d \in Dependencies(plan', r) :
                                d \in Placed' /\ level'[d] < level'[r]
    BY DEF IInv, LevelInv, Placed
  <2>2. Placed' = Placed
    BY DEF Placed
  <2>3. outcome' \notin {"none", "cyclic"} => Placed = Roles
    BY DEF IInv, LevelInv, TypeInv
  <2> QED BY <2>1, <2>2, <2>3 DEF IInv, LevelInv
<1>3. RolesInv' /\ ConcurrencyInv'
  BY DEF IInv, RolesInv, ConcurrencyInv
<1>4. LaunchInv' /\ ExclusiveInv'
  BY DEF IInv, LaunchInv, ExclusiveInv, Dependencies, Declared, PreviousExclusive
<1> QED BY <1>1, <1>2, <1>3, <1>4 DEF IInv

LEMMA RejectCycleKeeps == IInv /\ RejectCycle => IInv'
<1> SUFFICES ASSUME IInv, RejectCycle PROVE IInv'
  OBVIOUS
<1> USE DEF RejectCycle, End, graphVars, loopVars
<1>1. TypeInv' /\ AttemptsInv'
  BY DEF IInv, TypeInv, AttemptsInv, Outcomes
<1>2. LevelInv'
  BY DEF IInv, LevelInv, Placed, Dependencies, Declared, PreviousExclusive
<1>3. RolesInv' /\ ConcurrencyInv'
  BY DEF IInv, RolesInv, ConcurrencyInv
<1>4. LaunchInv' /\ ExclusiveInv'
  BY DEF IInv, LaunchInv, ExclusiveInv, Dependencies, Declared, PreviousExclusive
<1> QED BY <1>1, <1>2, <1>3, <1>4 DEF IInv

LEMMA GraphBuiltKeeps == IInv /\ GraphBuilt => IInv'
<1> SUFFICES ASSUME IInv, GraphBuilt PROVE IInv'
  OBVIOUS
<1> USE DEF GraphBuilt, graphVars, loopVars
<1>1. TypeInv' /\ AttemptsInv'
  BY DEF IInv, TypeInv, AttemptsInv
<1>2. LevelInv'
  BY DEF IInv, LevelInv, RolesInv, Placed, Dependencies, Declared, PreviousExclusive
<1>3. RolesInv' /\ ConcurrencyInv'
  BY DEF IInv, RolesInv, ConcurrencyInv
<1>4. LaunchInv' /\ ExclusiveInv'
  BY DEF IInv, LaunchInv, ExclusiveInv, Dependencies, Declared, PreviousExclusive
<1> QED BY <1>1, <1>2, <1>3, <1>4 DEF IInv

\* With nothing running and work left, a pending role on the least level is ready:
\* each role it waits for is on a lower level, so not pending, so done.
LEMMA SomeRoleIsReady ==
  ASSUME IInv, phase = "launch", running = {}
  PROVE  {r \in pending : Ready(r)} # {}
<1>1. pending \subseteq Roles /\ pending # {}
  BY DEF IInv, TypeInv, RolesInv
<1>2. PICK r \in pending : \A q \in pending : level[r] <= level[q]
  BY <1>1, LeastRole DEF IInv, TypeInv
<1>3. Placed = Roles /\ r \in Roles
  BY <1>1 DEF IInv, LevelInv
<1>4. \A d \in Dependencies(plan, r) : d \in outputs
  <2> TAKE d \in Dependencies(plan, r)
  <2>1. d \in Roles /\ level[d] < level[r]
    BY <1>3 DEF IInv, LevelInv, Placed
  <2>2. level[d] \in Nat /\ level[r] \in Nat
    BY <1>3, <2>1 DEF IInv, TypeInv
  <2>3. d \notin pending
    BY <1>2, <2>1, <2>2
  <2> QED BY <2>1, <2>3 DEF IInv, RolesInv
<1> QED BY <1>4 DEF Ready

LEMMA LaunchKeeps == IInv /\ LaunchReadyRoles => IInv'
<1> SUFFICES ASSUME IInv, LaunchReadyRoles PROVE IInv'
  OBVIOUS
<1> DEFINE open  == EffectiveConcurrency - Cardinality(running)
           ready == {r \in pending : Ready(r)}
           batch == FirstOf(ready, open)
<1>1. /\ phase = "launch" /\ phase' = "race"
      /\ pending' = pending \ batch /\ running' = running \union batch
      /\ body' = [r \in Roles |-> IF r \in batch THEN StartedBody(plan.kind[r]) ELSE body[r]]
      /\ seen' = [r \in Roles |->
                    IF r \in batch THEN Declared(plan, r) \intersect outputs ELSE seen[r]]
      /\ plan' = plan /\ level' = level /\ depth' = depth /\ width' = width
      /\ outputs' = outputs /\ requested' = requested /\ cancelSeen' = cancelSeen
      /\ outcome' = outcome
  BY DEF LaunchReadyRoles, graphVars
<1>2. /\ pending \subseteq Roles /\ running \subseteq Roles /\ outputs \subseteq Roles
      /\ plan \in PlanType
  BY PlanIsPlan DEF IInv, TypeInv
<1>3. /\ Cardinality(running) \in Nat
      /\ EffectiveConcurrency \in Nat /\ EffectiveConcurrency >= 1
      /\ EffectiveConcurrency <= AtLeastOne(RoleMaxConcurrency)
      /\ open \in Int
  BY <1>2, RolesAreFinite, WidthOfSlots DEF IInv
<1>4. ready \subseteq pending /\ ready \in SUBSET Roles
  BY <1>2
<1>5. batch \subseteq ready /\ (open < 1 => batch = {}) /\ (open >= 0 => Cardinality(batch) <= open)
  <2> HIDE DEF ready, open
  <2> QED BY <1>3, <1>4, FirstOfBound
<1>6. \A r \in batch : r \in pending /\ r \in Roles /\ Dependencies(plan, r) \subseteq outputs
  <2> HIDE DEF batch
  <2> QED BY <1>2, <1>5 DEF Ready
<1>7. running' # {}
  <2>1. CASE running # {}
    BY <1>1, <2>1
  <2>2. CASE running = {}
    <3>1. ready # {} /\ open >= 1
      BY <1>1, <1>3, <2>2, SomeRoleIsReady, FS_EmptySet
    <3>2. batch # {}
      <4> HIDE DEF ready, open
      <4> QED BY <1>3, <1>4, <3>1, FirstOfSome
    <3> QED BY <1>1, <3>2
  <2> QED BY <2>1, <2>2
<1>8. ConcurrencyInv'
  <2>1. CASE open < 1
    BY <1>1, <1>5, <2>1 DEF IInv, ConcurrencyInv
  <2>2. CASE open >= 1
    <3>1. batch \in SUBSET Roles
      BY <1>4, <1>5
    <3> HIDE DEF batch
    <3>2. /\ IsFiniteSet(running) /\ IsFiniteSet(batch)
          /\ Cardinality(batch) \in Nat
          /\ Cardinality(running \intersect batch) \in Nat
      BY <1>2, <3>1, RolesAreFinite
    <3>3. Cardinality(running') =
            Cardinality(running) + Cardinality(batch) - Cardinality(running \intersect batch)
      BY <1>1, <3>2, FS_Union
    <3>4. Cardinality(batch) <= EffectiveConcurrency - Cardinality(running)
      BY <1>3, <1>5, <2>2
    <3>5. AtLeastOne(RoleMaxConcurrency) \in Nat
      BY SchedulerAssumption DEF AtLeastOne
    <3> QED BY <1>3, <3>2, <3>3, <3>4, <3>5, <1>1 DEF ConcurrencyInv
  <2> QED BY <1>3, <2>1, <2>2
<1> HIDE DEF batch
<1>9. TypeInv' /\ AttemptsInv'
  <2>1. \A r \in Roles : plan.kind[r] \in Kinds
    BY <1>2 DEF PlanType
  <2>2. \A k \in Kinds : /\ StartedBody(k) \in BodyType
                         /\ StartedBody(k).attempts = 0
    BY MaxCodexAttemptsAssumption DEF Kinds, StartedBody, Body, BodyType
  <2>3. body' \in [Roles -> BodyType]
    BY <1>1, <2>1, <2>2 DEF IInv, TypeInv
  <2>4. seen' \in [Roles -> SUBSET Roles]
    BY <1>1, <1>2 DEF IInv, TypeInv
  <2>5. pending' \subseteq Roles /\ running' \subseteq Roles
    BY <1>1, <1>2, <1>6
  <2>6. TypeInv'
    BY <1>1, <2>3, <2>4, <2>5 DEF IInv, TypeInv
  <2>7. ASSUME NEW r \in Roles
        PROVE  /\ body'[r].at = "native" => body'[r].attempts = 0
               /\ body'[r].at = "codex" => body'[r].attempts < MaxCodexAttempts
    <3>1. CASE r \in batch
      BY <1>1, <2>1, <2>2, <3>1, MaxCodexAttemptsAssumption
    <3>2. CASE r \notin batch
      BY <1>1, <3>2 DEF IInv, AttemptsInv
    <3> QED BY <3>1, <3>2
  <2> QED BY <2>6, <2>7 DEF AttemptsInv
<1>10. LevelInv'
  BY <1>1 DEF IInv, LevelInv, RolesInv, Placed
<1>11. RolesInv'
  <2>1. \A r \in batch : body'[r].at # "idle"
    <3>1. \A r \in Roles : StartedBody(plan.kind[r]).at # "idle"
      BY DEF StartedBody, Body
    <3> QED BY <1>1, <1>6, <3>1
  <2>2. \A r \in Roles : r \notin batch => body'[r] = body[r]
    BY <1>1
  <2>3. \A r \in running' : body'[r].at # "idle"
    BY <1>1, <1>2, <2>1, <2>2 DEF IInv, RolesInv
  <2>4. \A r \in pending' : body'[r] = IdleBody
    BY <1>1, <1>2, <2>2 DEF IInv, RolesInv
  <2>5. /\ pending' \intersect (running' \union outputs') = {}
        /\ running' \intersect outputs' = {}
        /\ pending' \union running' \union outputs' = Roles
    BY <1>1, <1>2, <1>6 DEF IInv, RolesInv
  <2> QED BY <1>1, <1>7, <2>3, <2>4, <2>5 DEF IInv, RolesInv
<1>12. LaunchInv'
  <2> SUFFICES ASSUME NEW r \in Roles \ pending'
               PROVE  Dependencies(plan, r) \subseteq outputs /\ seen'[r] = Declared(plan, r)
    BY <1>1 DEF LaunchInv
  <2>1. CASE r \in batch
    <3>1. Declared(plan, r) \subseteq outputs
      BY <1>2, <1>6, <2>1, DependenciesAreRoles
    <3> QED BY <1>1, <1>6, <2>1, <3>1
  <2>2. CASE r \notin batch
    BY <1>1, <2>2 DEF IInv, LaunchInv
  <2> QED BY <2>1, <2>2
<1>13. ExclusiveInv'
  <2> SUFFICES ASSUME NEW e \in plan.exclusive \ pending', NEW q \in plan.exclusive, q < e
               PROVE  q \in outputs
    BY <1>1 DEF ExclusiveInv
  <2>1. CASE e \notin pending
    BY <2>1 DEF IInv, ExclusiveInv
  <2>2. CASE e \in pending
    <3>1. e \in batch
      BY <1>1, <2>2
    <3>2. PICK x \in Dependencies(plan, e) \intersect plan.exclusive : q <= x /\ x < e
      BY <1>2, NearestExclusive
    <3>3. x \in outputs
      BY <1>6, <3>1, <3>2
    <3>4. x \notin pending
      BY <3>3 DEF IInv, RolesInv
    <3>5. q < x => q \in outputs
      BY <3>2, <3>4 DEF IInv, ExclusiveInv
    <3>6. x \in Nat /\ q \in Nat
      BY <1>2, <3>2, RolesAreFinite DEF PlanType
    <3> QED BY <3>2, <3>3, <3>5, <3>6
  <2> QED BY <2>1, <2>2
<1> QED BY <1>1, <1>8, <1>9, <1>10, <1>11, <1>12, <1>13 DEF IInv

LEMMA LoopStepsKeep ==
  IInv /\ (AllCompleted \/ CheckBeforeLaunch \/ StopIdle \/ CheckAfterRole \/ Exit) => IInv'
<1> USE DEF graphVars, loopVars
<1>0. IInv => requested \in BOOLEAN /\ cancelSeen \in BOOLEAN /\ Cancellable \in BOOLEAN
  BY SchedulerAssumption DEF IInv, TypeInv
<1>1. ASSUME IInv, AllCompleted PROVE IInv'
  BY <1>0, <1>1, LoopMoves DEF AllCompleted, End, Outcomes
<1>2. ASSUME IInv, CheckBeforeLaunch PROVE IInv'
  <2>1. /\ phase = "top" /\ phase' \in {"race", "launch"}
        /\ cancelSeen' \in BOOLEAN /\ outcome = "none" /\ outcome' = "none"
        /\ phase' = "launch" <=> ~ cancelSeen'
    BY <1>0, <1>2 DEF CheckBeforeLaunch, IInv, RolesInv
  <2> QED BY <1>0, <1>2, <2>1, LoopMoves DEF CheckBeforeLaunch
<1>3. ASSUME IInv, StopIdle PROVE IInv'
  <2>1. cancelSeen
    BY <1>3 DEF StopIdle, IInv, RolesInv
  <2> QED BY <1>0, <1>3, <2>1, LoopMoves DEF StopIdle, End, Outcomes
<1>4. ASSUME IInv, CheckAfterRole PROVE IInv'
  <2>1. outcome = "none" /\ cancelSeen' \in BOOLEAN
    BY <1>0, <1>4 DEF CheckAfterRole, IInv, RolesInv
  <2> QED BY <1>0, <1>4, <2>1, LoopMoves DEF CheckAfterRole
<1>5. ASSUME IInv, Exit PROVE IInv'
  <2>1. outcome \in Outcomes \ {"stalled"} /\ (outcome = "succeeded" => outputs = Roles)
    BY <1>5 DEF Exit, IInv, TypeInv, RolesInv
  <2>2. /\ phase = "ended" /\ phase' = "exited" /\ outcome' = outcome
        /\ UNCHANGED <<body, graphVars, pending, running, outputs, seen, requested, cancelSeen>>
    BY <1>5 DEF Exit
  <2>3. outcome \in (Outcomes \union {"none"}) \ {"stalled"} /\ outcome # "none"
    BY <2>1 DEF Outcomes
  <2> HIDE DEF graphVars, loopVars
  <2> QED BY <1>0, <1>5, <2>1, <2>2, <2>3, LoopMoves
<1> QED BY <1>1, <1>2, <1>3, <1>4, <1>5

LEMMA TakeOutputKeeps == ASSUME NEW r \in Roles PROVE IInv /\ TakeOutput(r) => IInv'
<1> SUFFICES ASSUME IInv, TakeOutput(r) PROVE IInv'
  OBVIOUS
<1> USE DEF TakeOutput, graphVars
<1>1. TypeInv' /\ AttemptsInv'
  BY DEF IInv, TypeInv, AttemptsInv
<1>2. LevelInv'
  BY DEF IInv, LevelInv, RolesInv, Placed, Dependencies, Declared, PreviousExclusive
<1>3. RolesInv'
  BY DEF IInv, TypeInv, RolesInv
<1>4. LaunchInv'
  BY DEF IInv, LaunchInv, Dependencies, Declared, PreviousExclusive
<1>5. ExclusiveInv'
  BY DEF IInv, ExclusiveInv
<1>6. ConcurrencyInv'
  <2>1. IsFiniteSet(running) /\ Cardinality(running) \in Nat
    BY RolesAreFinite DEF IInv, TypeInv
  <2>2. Cardinality(running') = Cardinality(running) - 1
    BY <2>1, FS_RemoveElement
  <2>3. AtLeastOne(RoleMaxConcurrency) \in Nat
    BY SchedulerAssumption DEF AtLeastOne
  <2> QED BY <2>1, <2>2, <2>3 DEF IInv, ConcurrencyInv
<1> QED BY <1>1, <1>2, <1>3, <1>4, <1>5, <1>6 DEF IInv

LEMMA TakeErrorKeeps == ASSUME NEW r \in Roles PROVE IInv /\ TakeError(r) => IInv'
<1> SUFFICES ASSUME IInv, TakeError(r) PROVE IInv'
  OBVIOUS
<1> USE DEF TakeError, End, graphVars
<1>1. TypeInv' /\ AttemptsInv'
  BY DEF IInv, TypeInv, AttemptsInv, Outcomes
<1>2. LevelInv'
  BY DEF IInv, LevelInv, RolesInv, Placed, Dependencies, Declared, PreviousExclusive
<1>3. RolesInv'
  BY DEF IInv, TypeInv, RolesInv
<1>4. LaunchInv' /\ ExclusiveInv'
  BY DEF IInv, LaunchInv, ExclusiveInv, Dependencies, Declared, PreviousExclusive
<1>5. ConcurrencyInv'
  <2>1. IsFiniteSet(running) /\ Cardinality(running) \in Nat
    BY RolesAreFinite DEF IInv, TypeInv
  <2>2. Cardinality(running') = Cardinality(running) - 1
    BY <2>1, FS_RemoveElement
  <2>3. AtLeastOne(RoleMaxConcurrency) \in Nat
    BY SchedulerAssumption DEF AtLeastOne
  <2> QED BY <2>1, <2>2, <2>3 DEF IInv, ConcurrencyInv
<1> QED BY <1>1, <1>2, <1>3, <1>4, <1>5 DEF IInv

LEMMA WorkKeeps == ASSUME NEW r \in Roles PROVE IInv /\ Work(r) => IInv'
<1> SUFFICES ASSUME IInv, Work(r) PROVE IInv'
  OBVIOUS
<1> USE MaxCodexAttemptsAssumption DEF graphVars, loopVars
<1>1. PICK b \in BodyType :
        /\ body' = [body EXCEPT ![r] = b]
        /\ b.at # "idle"
        /\ b.at # "native"
        /\ b.at = "codex" => b.attempts < MaxCodexAttempts
  <2> DEFINE kind == plan.kind[r]
  <2>1. body \in [Roles -> BodyType] /\ body[r] \in BodyType
    BY DEF IInv, TypeInv
  <2>2. CASE NativeSucceeds(r, kind)
    <3>1. PICK next \in {"finish", "output", "codex"} : body' = [body EXCEPT ![r] = Body(next, 0, TRUE)]
      BY <2>2 DEF NativeSucceeds
    <3>2. Body(next, 0, TRUE) \in BodyType
      BY DEF Body, BodyType, Settled
    <3>3. Body(next, 0, TRUE).at = next /\ Body(next, 0, TRUE).attempts = 0
      BY DEF Body
    <3>4. 0 < MaxCodexAttempts
      OBVIOUS
    <3> DEFINE c == Body(next, 0, TRUE)
    <3> HIDE DEF c
    <3>5. c \in BodyType
      BY <3>2 DEF c
    <3> WITNESS c \in BodyType
    <3> QED BY <3>1, <3>3, <3>4 DEF c
  <2>3. CASE NativeFails(r, kind)
    <3>1. body[r].attempts = 0
      BY <2>3 DEF NativeFails, IInv, AttemptsInv
    <3> DEFINE c(next) == [body[r] EXCEPT !.at = next]
    <3>2. PICK next \in {"error", "codex"} : body' = [body EXCEPT ![r] = c(next)]
      BY <2>1, <2>3 DEF NativeFails
    <3>3. c(next) \in BodyType /\ c(next).at = next /\ c(next).attempts = 0
      BY <2>1, <3>1 DEF BodyType, Settled
    <3>4. 0 < MaxCodexAttempts
      OBVIOUS
    <3> HIDE DEF c
    <3> QED BY <3>2, <3>3, <3>4
  <2>4. CASE CodexAttempt(r, kind)
    <3>1. body[r].at = "codex" /\ body[r].attempts < MaxCodexAttempts
      BY <2>4 DEF CodexAttempt, IInv, AttemptsInv
    <3> DEFINE c == [body[r] EXCEPT !.attempts = @ + 1]
    <3>2. PICK run \in CodexRuns : body' = [body EXCEPT ![r] = [c EXCEPT !.at = AfterRun(c, run, kind)]]
      BY <2>4 DEF CodexAttempt
    <3>3. c \in BodyType
      BY <2>1, <3>1 DEF BodyType
    <3> HIDE DEF c, kind
    <3>4. /\ AfterRun(c, run, kind) \in {"finish", "codex", "error"}
          /\ AfterRun(c, run, kind) = "codex" => c.attempts < MaxCodexAttempts
      BY DEF AfterRun, Retries
    <3>5. [c EXCEPT !.at = AfterRun(c, run, kind)] \in BodyType
      BY <3>3, <3>4 DEF BodyType, Settled
    <3>6. /\ [c EXCEPT !.at = AfterRun(c, run, kind)].at = AfterRun(c, run, kind)
          /\ [c EXCEPT !.at = AfterRun(c, run, kind)].attempts = c.attempts
      BY <3>3 DEF BodyType
    <3> QED BY <3>2, <3>4, <3>5, <3>6
  <2>5. CASE FinishRole(r)
    <3> DEFINE c(end) == [body[r] EXCEPT !.at = end]
    <3>1. PICK end \in {"output", "error"} : body' = [body EXCEPT ![r] = c(end)]
      BY <2>1, <2>5 DEF FinishRole, Settled
    <3>2. c(end) \in BodyType /\ c(end).at = end
      BY <2>1 DEF BodyType, Settled
    <3> HIDE DEF c
    <3> QED BY <3>1, <3>2
  <2> QED BY <2>2, <2>3, <2>4, <2>5 DEF Work, RoleStep
<1>2. TypeInv' /\ AttemptsInv'
  <2>1. body' \in [Roles -> BodyType]
    BY <1>1 DEF IInv, TypeInv
  <2>2. \A q \in Roles : body'[q] = IF q = r THEN b ELSE body[q]
    BY <1>1 DEF IInv, TypeInv
  <2>3. TypeInv'
    BY <2>1 DEF IInv, TypeInv, Work
  <2> QED BY <1>1, <2>2, <2>3 DEF IInv, AttemptsInv
<1>3. LevelInv' /\ ConcurrencyInv'
  BY DEF IInv, LevelInv, ConcurrencyInv, Work, Placed, Dependencies, Declared, PreviousExclusive
<1>4. RolesInv'
  <2>1. \A q \in Roles : body'[q] = IF q = r THEN b ELSE body[q]
    BY <1>1 DEF IInv, TypeInv
  <2>2. r \notin pending /\ pending \subseteq Roles /\ running \subseteq Roles
    BY DEF IInv, TypeInv, RolesInv, Work
  <2>3. \A q \in pending : body'[q] = IdleBody
    BY <2>1, <2>2 DEF IInv, RolesInv
  <2>4. \A q \in running : body'[q].at # "idle"
    BY <1>1, <2>1, <2>2 DEF IInv, RolesInv
  <2> QED BY <2>3, <2>4 DEF IInv, RolesInv, Work
<1>5. LaunchInv' /\ ExclusiveInv'
  BY DEF IInv, LaunchInv, ExclusiveInv, Work, Dependencies, Declared, PreviousExclusive
<1> QED BY <1>2, <1>3, <1>4, <1>5 DEF IInv, Work

LEMMA NextKeeps == IInv /\ [Next]_vars => IInv'
<1> SUFFICES ASSUME IInv, [Next]_vars PROVE IInv'
  OBVIOUS
<1>1. CASE PlaceLevel
  BY <1>1, PlaceLevelKeeps
<1>2. CASE RejectCycle
  BY <1>2, RejectCycleKeeps
<1>3. CASE GraphBuilt
  BY <1>3, GraphBuiltKeeps
<1>4. CASE LaunchReadyRoles
  BY <1>4, LaunchKeeps
<1>5. CASE AllCompleted \/ CheckBeforeLaunch \/ StopIdle \/ CheckAfterRole \/ Exit
  BY <1>5, LoopStepsKeep
<1>6. CASE \E r \in Roles : TakeOutput(r) \/ TakeError(r)
  BY <1>6, TakeOutputKeeps, TakeErrorKeeps
<1>7. CASE \E r \in Roles : Work(r)
  BY <1>7, WorkKeeps
<1>8. CASE RequestCancellation
  BY <1>8, StutterKeeps DEF RequestCancellation, loopVars
<1>9. CASE UNCHANGED vars
  <2>1. requested \in BOOLEAN
    BY DEF IInv, TypeInv
  <2> QED BY <1>9, <2>1, StutterKeeps DEF vars, graphVars
<1> QED BY <1>1, <1>2, <1>3, <1>4, <1>5, <1>6, <1>7, <1>8, <1>9 DEF Next, LoopStep

\* IInv holds in every state of every execution of a plan: the types, how the roles
\* are spread over pendingRoleIds, running and outputsByRoleId, and the levels.
THEOREM SchedulerInvariant == Spec => []IInv
BY InitKeeps, NextKeeps, PTL DEF Spec

-----------------------------------------------------------------------------
(* The properties of the run *)

\* A launched role has the outputs of all the roles it declares a dependency on.
THEOREM RolesRunAfterTheirDependencies == Spec => []DependenciesFirst
<1>1. IInv => DependenciesFirst
  <2> SUFFICES ASSUME IInv, NEW r \in Roles, r \notin pending
               PROVE  Declared(plan, r) \subseteq outputs /\ seen[r] = Declared(plan, r)
    BY DEF DependenciesFirst
  <2>1. Dependencies(plan, r) \subseteq outputs /\ seen[r] = Declared(plan, r)
    BY DEF IInv, LaunchInv
  <2> QED BY <2>1, PlanIsPlan, DependenciesAreRoles DEF IInv
<1> QED BY <1>1, SchedulerInvariant, PTL

\* Of two exclusive roles the later one in the list waits for the earlier one.
LEMMA InvGivesExclusiveAlone == IInv => ExclusiveAlone
<1> SUFFICES ASSUME IInv, NEW a \in running \intersect plan.exclusive,
                    NEW b \in running \intersect plan.exclusive
             PROVE  a = b
  BY DEF ExclusiveAlone
<1>1. \A e, q \in running \intersect plan.exclusive : ~ (q < e)
  BY DEF IInv, RolesInv, ExclusiveInv
<1>2. a \in Nat /\ b \in Nat
  BY RolesAreFinite DEF IInv, TypeInv
<1> QED BY <1>1, <1>2

\* Roles on the shared runtime never overlap, whichever edges the agent declares.
THEOREM ExclusiveRolesRunAlone == Spec => []ExclusiveAlone
BY InvGivesExclusiveAlone, SchedulerInvariant, PTL

\* The error "AI role execution graph stalled" is unreachable, whatever the plan.
THEOREM ExecutionNeverStalls == Spec => []NeverStalls
<1>1. IInv => NeverStalls
  BY DEF IInv, NeverStalls
<1> QED BY <1>1, SchedulerInvariant, PTL

\* A round that places nothing leaves roles that wait for one another; levels rule
\* that out.
THEOREM LevelsLoopFindsCycles == Spec => []GraphVerdict
<1> DEFINE Refused == outcome = "cyclic" => HasCycle(plan)
<1>1. Init => Refused
  BY DEF Init
<1>2. ASSUME IInv, Refused, [Next]_vars PROVE Refused'
  <2>1. CASE RejectCycle
    <3> DEFINE S == Roles \ Placed
    <3>1. S # {} /\ S \in SUBSET Roles
      BY <2>1 DEF RejectCycle, Placed
    <3>2. ASSUME NEW r \in S PROVE Dependencies(plan, r) \intersect S # {}
      <4>1. ~ (Dependencies(plan, r) \subseteq Placed)
        BY <2>1 DEF RejectCycle, NextLevel
      <4>2. Dependencies(plan, r) \subseteq Roles
        BY <1>2, PlanIsPlan, DependenciesAreRoles DEF IInv
      <4> QED BY <4>1, <4>2
    <3>3. HasCycle(plan)
      <4> HIDE DEF S
      <4> QED BY <3>1, <3>2 DEF HasCycle
    <3> QED BY <2>1, <3>3 DEF RejectCycle, graphVars
  <2>2. ASSUME ~ RejectCycle PROVE plan' = plan /\ (outcome' = "cyclic" => outcome = "cyclic")
    BY <1>2, <2>2
    DEF Next, LoopStep, PlaceLevel, GraphBuilt, AllCompleted, CheckBeforeLaunch, LaunchReadyRoles,
        StopIdle, TakeOutput, TakeError, CheckAfterRole, Exit, Work, RequestCancellation, End,
        vars, graphVars, loopVars
  <2> QED BY <1>2, <2>1, <2>2
<1>3. IInv /\ Refused => GraphVerdict
  <2> SUFFICES ASSUME IInv, outcome \notin {"none", "cyclic"},
                      NEW S \in SUBSET Roles, S # {},
                      \A r \in S : Dependencies(plan, r) \intersect S # {}
               PROVE  FALSE
    BY DEF GraphVerdict, HasCycle
  <2>1. PICK r \in S : \A q \in S : level[r] <= level[q]
    BY LeastRole DEF IInv, TypeInv
  <2>2. PICK d \in S : d \in Dependencies(plan, r)
    OBVIOUS
  <2>3. Placed = Roles
    BY DEF IInv, LevelInv
  <2>4. level[d] < level[r] /\ level[d] \in Nat /\ level[r] \in Nat
    BY <2>2, <2>3 DEF IInv, LevelInv, TypeInv
  <2> QED BY <2>1, <2>4
<1> QED BY <1>1, <1>2, <1>3, SchedulerInvariant, PTL DEF Spec

-----------------------------------------------------------------------------
(* The scheduler implements PlanExecution *)

LEMMA InitMaps == Init => Promise!Init
BY DEF Init, Promise!Init, Promise!Roles, Roles

LEMMA SameCardinality == ASSUME NEW T PROVE Promise!Cardinality(T) = Cardinality(T)
BY DEF Promise!Cardinality, Cardinality

LEMMA LaunchMaps == IInv /\ IInv' /\ LaunchReadyRoles => [Promise!Next]_Promise!vars
<1> SUFFICES ASSUME IInv, IInv', LaunchReadyRoles PROVE [Promise!Next]_Promise!vars
  OBVIOUS
<1> DEFINE batch == FirstOf({r \in pending : Ready(r)},
                            EffectiveConcurrency - Cardinality(running))
<1>1. /\ phase = "launch" /\ pending' = pending \ batch /\ running' = running \union batch
      /\ plan' = plan /\ outputs' = outputs /\ outcome' = outcome
  BY DEF LaunchReadyRoles, graphVars
<1>2. batch \subseteq pending /\ \A r \in batch : Ready(r)
  BY DEF FirstOf
<1> HIDE DEF batch
<1>3. CASE batch = {}
  BY <1>1, <1>3 DEF Promise!vars
<1>4. CASE batch # {}
  <2>1. outcome = "none"
    BY <1>1 DEF IInv, RolesInv
  <2>2. \A r \in batch : Declared(plan, r) \subseteq outputs
    BY <1>2, PlanIsPlan, DependenciesAreRoles DEF IInv, TypeInv, Ready
  <2>3. \A a, b \in (running \union batch) \intersect plan.exclusive : a = b
    <3>1. ExclusiveAlone'
      BY InvGivesExclusiveAlone, PTL
    <3> QED BY <1>1, <3>1 DEF ExclusiveAlone
  <2>4. Cardinality(running \union batch) <= AtLeastOne(RoleMaxConcurrency)
    BY <1>1 DEF IInv, ConcurrencyInv
  <2>5. \A r \in batch : Promise!Declared(plan, r) \subseteq outputs
    BY <2>2 DEF Promise!Declared, Promise!Roles, Declared, Roles
  <2>6. Promise!Start(batch)
    BY <1>1, <1>2, <1>4, <2>1, <2>3, <2>4, <2>5, SameCardinality DEF Promise!Start
  <2> QED BY <1>2, <2>6 DEF Promise!Next
<1> QED BY <1>3, <1>4

LEMMA StepMaps == IInv /\ IInv' /\ [Next]_vars => [Promise!Next]_Promise!vars
<1> SUFFICES ASSUME IInv, IInv', [Next]_vars PROVE [Promise!Next]_Promise!vars
  OBVIOUS
<1> USE DEF graphVars, loopVars, End
<1>0. /\ phase \in {"planning", "top", "launch", "race", "check"} <=> outcome = "none"
      /\ phase = "planning" => pending = Roles
      /\ phase = "race" => outputs # Roles /\ (cancelSeen \/ running # {})
  BY DEF IInv, RolesInv, LevelInv
<1>1. CASE RejectCycle
  <2>1. Promise!Refuse
    BY <1>0, <1>1 DEF RejectCycle, Promise!Refuse, Promise!Roles, Roles
  <2> QED BY <2>1 DEF Promise!Next
<1>2. CASE LaunchReadyRoles
  BY <1>2, LaunchMaps
<1>3. CASE AllCompleted
  <2>1. Promise!Succeed
    BY <1>0, <1>3 DEF AllCompleted, Promise!Succeed, Promise!Roles, Roles
  <2> QED BY <2>1 DEF Promise!Next
<1>4. CASE StopIdle
  <2>1. Promise!Cancel
    BY <1>0, <1>4 DEF StopIdle, Promise!Cancel, Promise!Roles, Roles
  <2> QED BY <2>1 DEF Promise!Next
<1>5. ASSUME NEW r \in Roles, TakeOutput(r) PROVE Promise!Next
  <2>1. Promise!Give(r)
    BY <1>0, <1>5 DEF TakeOutput, Promise!Give
  <2> QED BY <1>5, <2>1 DEF Promise!Next, TakeOutput
<1>6. ASSUME NEW r \in Roles, TakeError(r) PROVE Promise!Next
  <2>1. Promise!Fail(r)
    BY <1>0, <1>6 DEF TakeError, Promise!Fail
  <2> QED BY <1>6, <2>1 DEF Promise!Next, TakeError
<1>7. CASE \/ PlaceLevel \/ GraphBuilt \/ CheckBeforeLaunch \/ CheckAfterRole \/ Exit
           \/ RequestCancellation \/ (\E r \in Roles : Work(r)) \/ UNCHANGED vars
  BY <1>7
  DEF PlaceLevel, GraphBuilt, CheckBeforeLaunch, CheckAfterRole, Exit, RequestCancellation, Work,
      vars, Promise!vars
<1> QED BY <1>1, <1>2, <1>3, <1>4, <1>5, <1>6, <1>7 DEF Next, LoopStep

\* executeRolesWithGraph keeps what the architecture document promises of a plan: every
\* step starts roles the promise lets start, takes a result, or changes nothing it speaks of.
THEOREM SchedulerKeepsPlanPromise == Spec => KeepsPlanPromise
BY SchedulerInvariant, InitMaps, StepMaps, PTL DEF Spec, KeepsPlanPromise, Promise!Safety

-----------------------------------------------------------------------------
(* The sandbox *)

\* The theorems about RoleScheduler are theorems about the sandbox: its analysis core
\* takes the scheduler's steps, and its remediation core leaves the scheduler alone.
THEOREM SandboxRunsTheScheduler == CoreSpec => Spec
<1>1. CoreInit => Init
  BY DEF CoreInit
<1>2. [CoreNext]_coreVars => [Next]_vars
  BY DEF CoreNext, AnalysisStep, RemediationStep, coreVars
<1> QED BY <1>1, <1>2, PTL DEF CoreSpec, Spec

\* The sandbox keeps what the architecture document promises of a plan.
THEOREM SandboxKeepsPlanPromise == CoreSpec => KeepsPlanPromise
BY SandboxRunsTheScheduler, SchedulerKeepsPlanPromise, PTL

-----------------------------------------------------------------------------
(* The remediation loop *)

\* The number of edits follows the number of iterations; while the loop may go on no
\* validation has passed, and one that passed followed the last edit.
RemediationInv ==
  /\ RemediationType
  /\ step = "prepare" => iteration = 0 /\ version = 0
  /\ step = "implement" => iteration >= 1 /\ version = iteration - 1
  /\ step = "validate" => version = iteration
  /\ step \in {"prepare", "implement", "validate"} => ~ validation.passed
  /\ validation.passed => validation.of = version
  /\ step # "succeeded" => changeset = NoChangeset
  /\ changeset.fixed => validation.passed /\ changeset.files
  /\ changeset.files => tree \ (changeset.patch \union changeset.bundle) \subseteq {"new"}

LEMMA RemediationInitInv == RemediationInit => RemediationInv
BY MaxIterationsAssumption
DEF RemediationInit, RemediationInv, RemediationType, NoChangeset, StopReasons, Changes

\* Every step of executeRemediationJobCore keeps the invariant, a throw included.
LEMMA RemediationKeeps == RemediationInv /\ [RemediationNext]_remediationVars => RemediationInv'
<1> SUFFICES ASSUME RemediationInv, [RemediationNext]_remediationVars PROVE RemediationInv'
  OBVIOUS
<1> USE MaxIterationsAssumption DEF RemediationInv, RemediationType, NoChangeset, StopReasons, Changes
<1>1. CASE Throw
  BY <1>1 DEF Throw
<1>2. CASE Prepare
  BY <1>2 DEF Prepare
<1>3. CASE Implement
  BY <1>3 DEF Implement
<1>4. CASE Validate
  <2>1. PICK passed \in BOOLEAN :
          /\ validation' = [passed |-> passed, of |-> version, tree |-> tree]
          /\ stopReason' \in StopReasons
          /\ IF passed \/ iteration >= MaxIterations
             THEN step' = "export" /\ iteration' = iteration
             ELSE step' = "implement" /\ iteration' = iteration + 1
    BY <1>4 DEF Validate
  <2> QED BY <1>4, <2>1 DEF Validate
<1>5. CASE Export
  <2>1. /\ changeset'.files => tree \ (changeset'.patch \union changeset'.bundle) \subseteq {"new"}
        /\ changeset' \in [files : BOOLEAN, patch : SUBSET Changes, bundle : SUBSET Changes,
                           fixed : BOOLEAN]
        /\ changeset'.fixed => validation.passed /\ changeset'.files
    BY <1>5 DEF Export, Diff, Bundle
  <2> QED BY <1>5, <2>1 DEF Export
<1>6. CASE UNCHANGED remediationVars
  BY <1>6 DEF remediationVars
<1> QED BY <1>1, <1>2, <1>3, <1>4, <1>5, <1>6 DEF RemediationNext

\* The remediation loop's invariant holds throughout the sandbox's life.
THEOREM RemediationInvariant == CoreSpec => []RemediationInv
<1>1. CoreInit => RemediationInv
  BY RemediationInitInv DEF CoreInit
<1>2. [CoreNext]_coreVars => [RemediationNext]_remediationVars
  BY DEF CoreNext, AnalysisStep, RemediationStep, coreVars
<1> QED BY <1>1, <1>2, RemediationKeeps, PTL DEF CoreSpec

\* The invariant of the sandbox's two cores.
THEOREM CoreInvariant == CoreSpec => []CoreInv
<1>1. IInv /\ RemediationInv => CoreInv
  BY DEF CoreInv, RemediationInv
<1> QED BY <1>1, SandboxRunsTheScheduler, SchedulerInvariant, RemediationInvariant, PTL

\* A changeset that reports findings as fixed comes from what the last validation passed
\* on, after any number of iterations, and lacks no more of it than new files, which
\* git diff and git bundle do not tell of.
THEOREM FixedFindingsWereValidated == CoreSpec => []FixedMeansValidated
<1>1. RemediationInv => FixedMeansValidated
  BY DEF RemediationInv, FixedMeansValidated
<1> QED BY <1>1, RemediationInvariant, PTL

-----------------------------------------------------------------------------
(* The report *)

\* The highest of some severities.
Highest(T) == CHOOSE m \in T : \A x \in T : x <= m

LEMMA HighestOf ==
  ASSUME NEW T \in SUBSET (1 .. 3), T # {}
  PROVE  Highest(T) \in T /\ \A x \in T : x <= Highest(T)
<1>1. \E m \in T : \A x \in T : x <= m
  <2>1. CASE 3 \in T
    BY <2>1
  <2>2. CASE 3 \notin T /\ 2 \in T
    BY <2>2
  <2>3. CASE 3 \notin T /\ 2 \notin T
    <3>1. T = {1}
      BY <2>3, \A i \in 1 .. 3 : i = 1 \/ i = 2 \/ i = 3
    <3> QED BY <3>1
  <2> QED BY <2>1, <2>2, <2>3
<1> QED BY <1>1, Zenon DEF Highest

\* An entry with another severity.
LEMMA OtherSeverity ==
  ASSUME NEW e, NEW role, NEW old, e = [role |-> role, severity |-> old], NEW new
  PROVE  [e EXCEPT !.severity = new] = [role |-> role, severity |-> new]
OBVIOUS

\* A report of the first roles.
Reports == UNION {[K -> [role : Nat, severity : 1 .. 3]] : K \in SUBSET FindingKeys}

\* The keys of some findings, and the severities they give a key.
KeysOf(F) == {f.key : f \in F}
SeveritiesOf(F, k) == {f.severity : f \in {g \in F : g.key = k}}

\* What becomes of a report when a role's findings are added to it.
WithFindings(base, n, F) ==
  [k \in DOMAIN base \union KeysOf(F) |->
     IF k \in DOMAIN base
     THEN [role |-> base[k].role,
           severity |-> Highest({base[k].severity} \union SeveritiesOf(F, k))]
     ELSE [role |-> n, severity |-> Highest(SeveritiesOf(F, k))]]

\* Nothing is added by no findings,
LEMMA WithNone ==
  ASSUME NEW base \in Reports, NEW n \in Nat
  PROVE  WithFindings(base, n, {}) = base
<1>1. PICK K \in SUBSET FindingKeys : base \in [K -> [role : Nat, severity : 1 .. 3]]
  BY DEF Reports
<1>2. DOMAIN base \union KeysOf({}) = K /\ DOMAIN base = K
  BY <1>1 DEF KeysOf
<1>3. ASSUME NEW k \in K
      PROVE  base[k] = [role |-> base[k].role,
                        severity |-> Highest({base[k].severity} \union SeveritiesOf({}, k))]
  <2>1. {base[k].severity} \union SeveritiesOf({}, k) = {base[k].severity}
    BY DEF SeveritiesOf
  <2>2. base[k] \in [role : Nat, severity : 1 .. 3]
    BY <1>1
  <2>3. Highest({base[k].severity}) = base[k].severity
    BY <2>2, HighestOf
  <2> QED BY <2>1, <2>2, <2>3
<1>4. WithFindings(base, n, {}) = [k \in K |-> base[k]]
  BY <1>2, <1>3 DEF WithFindings
<1>5. base = [k \in K |-> base[k]]
  BY <1>1
<1> QED BY <1>4, <1>5

\* and one more finding is added by AddFinding.
LEMMA WithOneMore ==
  ASSUME NEW base \in Reports, NEW n \in Nat, NEW F \in SUBSET Findings, NEW f \in F
  PROVE  WithFindings(base, n, F) = AddFinding(WithFindings(base, n, F \ {f}), n, f)
<1> DEFINE G == F \ {f}
           w == WithFindings(base, n, G)
           D == DOMAIN base \union KeysOf(G)
<1>1. PICK K \in SUBSET FindingKeys : base \in [K -> [role : Nat, severity : 1 .. 3]]
  BY DEF Reports
<1>2. /\ DOMAIN base = K
      /\ \A k \in K : base[k].role \in Nat /\ base[k].severity \in 1 .. 3
  BY <1>1
<1>3. f.key \in FindingKeys /\ f.severity \in 1 .. 3 /\ F = G \union {f} /\ G \in SUBSET Findings
  BY DEF Findings
<1>4. DOMAIN w = D /\ DOMAIN base \union KeysOf(F) = D \union {f.key}
  BY <1>3 DEF WithFindings, KeysOf
<1>5. \A k : SeveritiesOf(F, k) = IF k = f.key THEN SeveritiesOf(G, k) \union {f.severity}
                                               ELSE SeveritiesOf(G, k)
  BY <1>3 DEF SeveritiesOf
<1>6. \A k : SeveritiesOf(G, k) \in SUBSET (1 .. 3)
  BY <1>3 DEF SeveritiesOf, Findings
<1>7. \A k : (SeveritiesOf(G, k) # {}) <=> k \in KeysOf(G)
  BY DEF SeveritiesOf, KeysOf
<1>8. ASSUME NEW T \in SUBSET (1 .. 3), T # {}, NEW s \in 1 .. 3
      PROVE  Highest(T \union {s}) = MergedSeverity(Highest(T), s)
  <2>1. Highest(T) \in T /\ \A x \in T : x <= Highest(T)
    BY <1>8, HighestOf
  <2>2. T \union {s} \in SUBSET (1 .. 3) /\ T \union {s} # {}
    OBVIOUS
  <2>3. Highest(T \union {s}) \in T \union {s} /\ \A x \in T \union {s} : x <= Highest(T \union {s})
    BY <2>2, HighestOf
  <2>4. /\ Highest(T) \in 1 .. 3 /\ Highest(T \union {s}) \in 1 .. 3
        /\ Highest(T) <= Highest(T \union {s}) /\ s <= Highest(T \union {s})
        /\ Highest(T \union {s}) = s \/ Highest(T \union {s}) <= Highest(T)
    BY <2>1, <2>2, <2>3
  <2> QED BY <2>4 DEF MergedSeverity
<1>9. \A s \in 1 .. 3 : Highest({s}) = s
  BY HighestOf
<1> DEFINE add == AddFinding(w, n, f)
           all == WithFindings(base, n, F)
<1>w. w = WithFindings(base, n, G) /\ add = AddFinding(w, n, f) /\ all = WithFindings(base, n, F)
  OBVIOUS
<1> HIDE DEF w, add, all
<1>10. DOMAIN add = D \union {f.key} /\ DOMAIN all = D \union {f.key}
  BY <1>4, <1>w DEF AddFinding, WithFindings
<1>11. ASSUME NEW k \in D \union {f.key} PROVE all[k] = add[k]
  <2>1. CASE k \in K
    <3>1. /\ all[k] = [role |-> base[k].role,
                       severity |-> Highest({base[k].severity} \union SeveritiesOf(F, k))]
          /\ w[k] = [role |-> base[k].role,
                     severity |-> Highest({base[k].severity} \union SeveritiesOf(G, k))]
      BY <1>2, <2>1, <1>w DEF WithFindings
    <3>2. CASE k # f.key
      <4>1. add[k] = w[k]
        BY <1>4, <2>1, <1>2, <3>2, <1>w DEF AddFinding
      <4> QED BY <3>1, <3>2, <4>1, <1>5
    <3>3. CASE k = f.key
      <4>1. add[k] = [w[k] EXCEPT !.severity = MergedSeverity(w[k].severity, f.severity)]
        BY <1>4, <2>1, <1>2, <3>3, <1>w DEF AddFinding
      <4>2. add[k] = [role |-> base[k].role, severity |-> MergedSeverity(w[k].severity, f.severity)]
        BY <3>1, <4>1, OtherSeverity
      <4> DEFINE T == {base[k].severity} \union SeveritiesOf(G, k)
      <4>3. T \in SUBSET (1 .. 3) /\ T # {}
        BY <1>2, <1>6, <2>1
      <4>4. {base[k].severity} \union SeveritiesOf(F, k) = T \union {f.severity}
        BY <1>5, <3>3
      <4>5. Highest(T \union {f.severity}) = MergedSeverity(Highest(T), f.severity)
        BY <1>3, <1>8, <4>3
      <4>6. w[k].severity = Highest(T)
        BY <3>1
      <4> QED BY <3>1, <4>2, <4>4, <4>5, <4>6
    <3> QED BY <3>2, <3>3
  <2>2. CASE k \notin K
    <3>1. all[k] = [role |-> n, severity |-> Highest(SeveritiesOf(F, k))]
      BY <1>2, <1>4, <2>2, <1>w DEF WithFindings
    <3>2. k \in D => w[k] = [role |-> n, severity |-> Highest(SeveritiesOf(G, k))]
      BY <1>2, <1>4, <2>2, <1>w DEF WithFindings
    <3>3. CASE k # f.key
      <4>1. k \in D /\ add[k] = w[k]
        BY <1>4, <3>3, <1>w DEF AddFinding
      <4> QED BY <3>1, <3>2, <3>3, <4>1, <1>5
    <3>4. CASE k = f.key /\ k \in D
      <4>1. add[k] = [w[k] EXCEPT !.severity = MergedSeverity(w[k].severity, f.severity)]
        BY <1>4, <3>4, <1>w DEF AddFinding
      <4>2. add[k] = [role |-> n, severity |-> MergedSeverity(w[k].severity, f.severity)]
        BY <3>2, <3>4, <4>1, OtherSeverity
      <4> DEFINE T == SeveritiesOf(G, k)
      <4>3. T \in SUBSET (1 .. 3) /\ T # {}
        BY <1>2, <1>6, <1>7, <2>2, <3>4
      <4>4. Highest(T \union {f.severity}) = MergedSeverity(Highest(T), f.severity)
        BY <1>3, <1>8, <4>3
      <4>5. SeveritiesOf(F, k) = T \union {f.severity}
        BY <1>5, <3>4
      <4>6. w[k].severity = Highest(T)
        BY <3>2, <3>4
      <4> QED BY <3>1, <4>2, <4>4, <4>5, <4>6
    <3>5. CASE k = f.key /\ k \notin D
      <4>1. add[k] = [role |-> n, severity |-> f.severity]
        BY <1>4, <3>5, <1>w DEF AddFinding
      <4>2. SeveritiesOf(F, k) = {f.severity}
        BY <1>5, <1>7, <3>5
      <4> QED BY <3>1, <4>1, <4>2, <1>3, <1>9
    <3> QED BY <3>3, <3>4, <3>5
  <2> QED BY <2>1, <2>2
<1>12. all = [k \in D \union {f.key} |-> all[k]]
  BY <1>4, <1>w DEF WithFindings
<1>13. add = [k \in D \union {f.key} |-> add[k]]
  <2>1. CASE f.key \in D
    BY <2>1, <1>4, <1>w DEF AddFinding, WithFindings
  <2>2. CASE f.key \notin D
    BY <2>2, <1>4, <1>w DEF AddFinding
  <2> QED BY <2>1, <2>2
<1>14. [k \in D \union {f.key} |-> all[k]] = [k \in D \union {f.key} |-> add[k]]
  <2> HIDE DEF D
  <2> QED BY <1>11
<1>15. all = add
  BY <1>12, <1>13, <1>14
<1> QED BY <1>15, <1>w, Zenon

\* A report that findings are added to is a report.
LEMMA WithIsReport ==
  ASSUME NEW base \in Reports, NEW n \in Nat, NEW F \in SUBSET Findings
  PROVE  WithFindings(base, n, F) \in Reports
<1> DEFINE D == DOMAIN base \union KeysOf(F)
<1>1. PICK K \in SUBSET FindingKeys : base \in [K -> [role : Nat, severity : 1 .. 3]]
  BY DEF Reports
<1>2. D \in SUBSET FindingKeys /\ DOMAIN base = K
  BY <1>1 DEF KeysOf, Findings
<1>3. \A k : SeveritiesOf(F, k) \in SUBSET (1 .. 3) /\ (k \in KeysOf(F) => SeveritiesOf(F, k) # {})
  BY DEF SeveritiesOf, Findings, KeysOf
<1>4. \A T \in SUBSET (1 .. 3) : T # {} => Highest(T) \in 1 .. 3
  BY HighestOf
<1>5. ASSUME NEW k \in D
      PROVE  WithFindings(base, n, F)[k] \in [role : Nat, severity : 1 .. 3]
  <2>1. CASE k \in K
    <3>1. base[k].role \in Nat /\ base[k].severity \in 1 .. 3
      BY <1>1, <2>1
    <3>2. Highest({base[k].severity} \union SeveritiesOf(F, k)) \in 1 .. 3
      BY <1>3, <1>4, <3>1
    <3>3. WithFindings(base, n, F)[k] =
            [role |-> base[k].role,
             severity |-> Highest({base[k].severity} \union SeveritiesOf(F, k))]
      BY <1>2, <2>1 DEF WithFindings
    <3> QED BY <3>1, <3>2, <3>3
  <2>2. CASE k \notin K
    <3>1. WithFindings(base, n, F)[k] = [role |-> n, severity |-> Highest(SeveritiesOf(F, k))]
      BY <1>2, <2>2 DEF WithFindings
    <3>2. Highest(SeveritiesOf(F, k)) \in 1 .. 3
      BY <1>2, <1>3, <1>4, <2>2
    <3> QED BY <3>1, <3>2
  <2> QED BY <2>1, <2>2
<1>6. WithFindings(base, n, F) = [k \in D |-> WithFindings(base, n, F)[k]]
  BY DEF WithFindings
<1> QED BY <1>2, <1>5, <1>6 DEF Reports

\* The fold of a role's findings adds them all, in whatever order it takes them: the
\* smallest set of findings for which it did not would be one finding larger than one
\* for which it did.
LEMMA FoldAdds ==
  ASSUME NEW base \in Reports, NEW n \in Nat,
         NEW F \in SUBSET Findings, IsFiniteSet(F)
  PROVE  FoldSet(LAMBDA f, sofar : AddFinding(sofar, n, f), base, F) = WithFindings(base, n, F)
<1> DEFINE first(s) == CHOOSE f \in s : TRUE
           Folds(it) == it = [s \in SUBSET F |->
                                IF s = {} THEN base
                                ELSE AddFinding(it[s \ {first(s)}], n, first(s))]
           with == [s \in SUBSET F |-> WithFindings(base, n, s)]
           iter == CHOOSE it : Folds(it)
<1>1. FoldSet(LAMBDA f, sofar : AddFinding(sofar, n, f), base, F) = iter[F]
  BY Zenon DEF FoldSet, MapThenFoldSet
<1>2. \A s \in SUBSET F : s # {} => first(s) \in s /\ s \ {first(s)} \in SUBSET F
  OBVIOUS
<1>3. \A s \in SUBSET F :
        with[s] = IF s = {} THEN base ELSE AddFinding(with[s \ {first(s)}], n, first(s))
  <2> TAKE s \in SUBSET F
  <2>1. CASE s = {}
    BY <2>1, WithNone
  <2>2. CASE s # {}
    <3> DEFINE f == first(s)
    <3>1. f \in s /\ s \ {f} \in SUBSET F /\ s \in SUBSET Findings
      BY <1>2, <2>2
    <3> HIDE DEF f
    <3>2. WithFindings(base, n, s) = AddFinding(WithFindings(base, n, s \ {f}), n, f)
      BY <3>1, WithOneMore
    <3>3. with[s] = AddFinding(with[s \ {f}], n, f)
      BY <3>1, <3>2
    <3> QED BY <2>2, <3>3 DEF f
  <2> QED BY <2>1, <2>2
<1> HIDE DEF first
<1>4. Folds(with)
  BY <1>3
<1>5. Folds(iter)
  <2> HIDE DEF Folds
  <2> QED BY <1>4
<1> HIDE DEF iter
<1>6. \A s \in SUBSET F :
        iter[s] = IF s = {} THEN base ELSE AddFinding(iter[s \ {first(s)}], n, first(s))
  BY <1>5
<1> DEFINE Bad == {Cardinality(s) : s \in {t \in SUBSET F : iter[t] # with[t]}}
<1>7. \A s \in SUBSET F : IsFiniteSet(s) /\ Cardinality(s) \in Nat
  BY FS_Subset, FS_CardinalityType
<1>8. Bad = {}
  <2> SUFFICES ASSUME Bad # {} PROVE FALSE
    OBVIOUS
  <2>1. Bad \in SUBSET Nat
    BY <1>7
  <2>2. PICK c \in Bad : \A m \in Bad : c <= m
    <3> HIDE DEF Bad
    <3> QED BY <2>1, SmallestOf
  <2>3. PICK s \in SUBSET F : iter[s] # with[s] /\ Cardinality(s) = c
    BY <2>2
  <2>4. s # {}
    BY <1>3, <1>6, <2>3
  <2> DEFINE f == first(s)
  <2>5. f \in s /\ s \ {f} \in SUBSET F
    BY <1>2, <2>4
  <2>6. Cardinality(s \ {f}) = Cardinality(s) - 1
    BY <1>7, <2>5, FS_RemoveElement
  <2>7. Cardinality(s \ {f}) \notin Bad
    <3> HIDE DEF Bad, f
    <3>1. c \in Nat /\ Cardinality(s \ {f}) = c - 1
      BY <2>1, <2>2, <2>3, <2>6
    <3> QED BY <2>2, <3>1
  <2>8. iter[s \ {f}] = with[s \ {f}]
    BY <2>5, <2>7
  <2>9. iter[s] = AddFinding(iter[s \ {f}], n, f) /\ with[s] = AddFinding(with[s \ {f}], n, f)
    BY <1>3, <1>6, <2>4
  <2> QED BY <2>3, <2>8, <2>9
<1>9. iter[F] = with[F]
  BY <1>8
<1> QED BY <1>1, <1>9

\* The report of the first n roles of a plan: for each key they report, the first of
\* them to report it and the highest severity.
Reporters(p, n, k) == {r \in 1 .. n : k \in KeysOf(p.findings[r])}
GivenTo(p, n, k) == UNION {SeveritiesOf(p.findings[r], k) : r \in 1 .. n}
First(T) == CHOOSE r \in T : \A q \in T : r <= q
FirstReports(p, n) ==
  [k \in UNION {KeysOf(p.findings[r]) : r \in 1 .. n} |->
     [role |-> First(Reporters(p, n, k)), severity |-> Highest(GivenTo(p, n, k))]]

LEMMA FirstOfThem ==
  ASSUME NEW T \in SUBSET Nat, T # {}
  PROVE  First(T) \in T /\ \A q \in T : First(T) <= q
BY SmallestOf, Zenon DEF First

\* One role more reports.
LEMMA OneMoreReports ==
  ASSUME NEW p \in PlanType, NEW n \in 1 .. NumRoles, FirstReports(p, n - 1) \in Reports
  PROVE  WithFindings(FirstReports(p, n - 1), n, p.findings[n]) = FirstReports(p, n)
<1> DEFINE F == p.findings[n]
           m == n - 1
           base == FirstReports(p, m)
           all == FirstReports(p, n)
           added == WithFindings(base, n, F)
           keys(i) == UNION {KeysOf(p.findings[r]) : r \in 1 .. i}
<1>1. /\ n \in Nat /\ m \in Nat /\ 1 .. n = (1 .. m) \union {n} /\ n \notin 1 .. m
      /\ \A r \in 1 .. m : r < n
  BY NumRolesAssumption
<1>2. \A r \in 1 .. n : p.findings[r] \in SUBSET Findings
  BY NumRolesAssumption DEF PlanType, Roles
<1> HIDE DEF m
<1>3. DOMAIN base = keys(m) /\ DOMAIN all = keys(n) /\ keys(n) = keys(m) \union KeysOf(F)
  BY <1>1 DEF FirstReports
<1>4. DOMAIN added = keys(n)
  BY <1>3 DEF WithFindings
<1>5. \A k : /\ GivenTo(p, n, k) = GivenTo(p, m, k) \union SeveritiesOf(F, k)
             /\ Reporters(p, n, k) = Reporters(p, m, k) \union (IF k \in KeysOf(F) THEN {n} ELSE {})
             /\ Reporters(p, m, k) \in SUBSET (1 .. m)
             /\ (Reporters(p, m, k) # {}) <=> k \in keys(m)
  BY <1>1 DEF GivenTo, Reporters
<1>6. \A k, r : r \in 1 .. n =>
        /\ SeveritiesOf(p.findings[r], k) \in SUBSET (1 .. 3)
        /\ (SeveritiesOf(p.findings[r], k) # {}) <=> k \in KeysOf(p.findings[r])
  BY <1>2 DEF SeveritiesOf, KeysOf, Findings
<1>7. \A k : /\ GivenTo(p, m, k) \in SUBSET (1 .. 3)
             /\ (GivenTo(p, m, k) # {}) <=> k \in keys(m)
  <2> TAKE k
  <2>1. \A r \in 1 .. m : r \in 1 .. n
    BY <1>1
  <2>2. \A r \in 1 .. m :
          /\ SeveritiesOf(p.findings[r], k) \in SUBSET (1 .. 3)
          /\ (SeveritiesOf(p.findings[r], k) # {}) <=> k \in KeysOf(p.findings[r])
    BY <1>6, <2>1
  <2>3. GivenTo(p, m, k) \in SUBSET (1 .. 3)
    BY <2>2 DEF GivenTo
  <2>4. (GivenTo(p, m, k) # {}) <=> \E r \in 1 .. m : SeveritiesOf(p.findings[r], k) # {}
    BY Zenon DEF GivenTo
  <2>5. k \in keys(m) <=> \E r \in 1 .. m : k \in KeysOf(p.findings[r])
    BY Zenon
  <2> QED BY <2>2, <2>3, <2>4, <2>5
<1>8. ASSUME NEW T \in SUBSET (1 .. 3), T # {}, NEW S \in SUBSET (1 .. 3)
      PROVE  Highest({Highest(T)} \union S) = Highest(T \union S)
  <2>1. Highest(T) \in T /\ \A x \in T : x <= Highest(T)
    BY <1>8, HighestOf
  <2>2. /\ Highest({Highest(T)} \union S) \in {Highest(T)} \union S
        /\ \A x \in {Highest(T)} \union S : x <= Highest({Highest(T)} \union S)
    BY <2>1, HighestOf
  <2>3. /\ Highest(T \union S) \in T \union S
        /\ \A x \in T \union S : x <= Highest(T \union S)
    BY <1>8, HighestOf
  <2>4. /\ Highest(T \union S) \in 1 .. 3 /\ Highest({Highest(T)} \union S) \in 1 .. 3
        /\ Highest(T) \in 1 .. 3
    BY <2>1, <2>2, <2>3
  <2>5. Highest({Highest(T)} \union S) <= Highest(T \union S)
    BY <2>1, <2>2, <2>3
  <2>6. Highest(T \union S) <= Highest({Highest(T)} \union S)
    BY <2>1, <2>2, <2>3, <2>4
  <2> QED BY <2>4, <2>5, <2>6
<1>9. ASSUME NEW k \in keys(n) PROVE added[k] = all[k]
  <2>1. all[k] = [role |-> First(Reporters(p, n, k)), severity |-> Highest(GivenTo(p, n, k))]
    BY <1>9, <1>3 DEF FirstReports
  <2>2. CASE k \in keys(m)
    <3>1. base[k] = [role |-> First(Reporters(p, m, k)), severity |-> Highest(GivenTo(p, m, k))]
      BY <2>2 DEF FirstReports
    <3>2. added[k] = [role |-> base[k].role,
                      severity |-> Highest({base[k].severity} \union SeveritiesOf(F, k))]
      BY <1>3, <2>2 DEF WithFindings
    <3>3. First(Reporters(p, n, k)) = First(Reporters(p, m, k))
      <4> DEFINE A == Reporters(p, m, k)
                 B == Reporters(p, n, k)
      <4>1. A # {} /\ A \in SUBSET (1 .. m) /\ A \subseteq B /\ B \subseteq A \union {n}
        BY <1>5, <2>2
      <4>2. A \in SUBSET Nat /\ B \in SUBSET Nat /\ B # {}
        BY <1>1, <4>1
      <4> HIDE DEF A, B
      <4>3. First(A) \in A /\ \A q \in A : First(A) <= q
        BY <4>1, <4>2, FirstOfThem
      <4>4. First(B) \in B /\ \A q \in B : First(B) <= q
        BY <4>2, FirstOfThem
      <4>5. First(A) < n /\ First(B) <= First(A)
        BY <1>1, <4>1, <4>3, <4>4
      <4>6. First(B) \in A
        <5>1. First(A) \in Nat /\ First(B) \in Nat /\ n \in Nat
          BY <1>1, <4>2, <4>3, <4>4
        <5>2. First(B) # n
          BY <4>5, <5>1
        <5> QED BY <4>1, <4>4, <5>2
      <4>7. First(A) = First(B)
        <5>1. First(A) \in Nat /\ First(B) \in Nat /\ First(A) <= First(B)
          BY <4>2, <4>3, <4>4, <4>6
        <5> QED BY <4>5, <5>1
      <4> QED BY <4>7 DEF A, B
    <3>4. Highest({Highest(GivenTo(p, m, k))} \union SeveritiesOf(F, k)) = Highest(GivenTo(p, n, k))
      <4>1. GivenTo(p, m, k) \in SUBSET (1 .. 3) /\ GivenTo(p, m, k) # {}
        BY <1>7, <2>2
      <4>2. SeveritiesOf(F, k) \in SUBSET (1 .. 3)
        BY <1>1, <1>6
      <4>3. GivenTo(p, n, k) = GivenTo(p, m, k) \union SeveritiesOf(F, k)
        BY <1>5
      <4> QED BY <1>8, <4>1, <4>2, <4>3
    <3> QED BY <2>1, <3>1, <3>2, <3>3, <3>4
  <2>3. CASE k \notin keys(m)
    <3>1. added[k] = [role |-> n, severity |-> Highest(SeveritiesOf(F, k))]
      BY <1>3, <1>9, <2>3 DEF WithFindings
    <3>2. k \in KeysOf(F) /\ GivenTo(p, m, k) = {} /\ Reporters(p, m, k) = {}
      BY <1>3, <1>5, <1>7, <1>9, <2>3
    <3>3. GivenTo(p, n, k) = SeveritiesOf(F, k) /\ Reporters(p, n, k) = {n}
      <4>1. GivenTo(p, n, k) = GivenTo(p, m, k) \union SeveritiesOf(F, k)
        BY <1>5
      <4>2. Reporters(p, n, k) = Reporters(p, m, k) \union (IF k \in KeysOf(F) THEN {n} ELSE {})
        BY <1>5
      <4> QED BY <3>2, <4>1, <4>2
    <3>4. First({n}) = n
      BY <1>1, FirstOfThem
    <3> QED BY <2>1, <3>1, <3>3, <3>4
  <2> QED BY <2>2, <2>3
<1>10. added = [k \in keys(n) |-> added[k]]
  BY <1>3 DEF WithFindings
<1>11. all = [k \in keys(n) |-> all[k]]
  BY DEF FirstReports
<1>12. [k \in keys(n) |-> added[k]] = [k \in keys(n) |-> all[k]]
  <2> HIDE DEF keys, added, all
  <2> QED BY <1>9
<1>13. added = all
  <2> HIDE DEF keys, added, all
  <2> QED BY <1>10, <1>11, <1>12
<1> QED BY <1>13 DEF m

\* ReportOf computes that, for any number of roles.
LEMMA ReportIsFirstReports ==
  ASSUME NEW p \in PlanType
  PROVE  ReportOf(p) = FirstReports(p, NumRoles)
<1> DEFINE N == 0 .. NumRoles
           Runs(up) == up = [n \in N |->
                         IF n = 0 THEN [k \in {} |-> {}]
                         ELSE FoldSet(LAMBDA f, sofar : AddFinding(sofar, n, f), up[n - 1],
                                      p.findings[n])]
           goal == [n \in N |-> FirstReports(p, n)]
           up == CHOOSE u : Runs(u)
<1>1. ReportOf(p) = up[NumRoles]
  BY Zenon DEF ReportOf
<1>2. FirstReports(p, 0) = [k \in {} |-> {}]
  <2>1. UNION {KeysOf(p.findings[r]) : r \in 1 .. 0} = {}
    BY 1 .. 0 = {}
  <2> QED BY <2>1 DEF FirstReports
<1>3. \A n \in N : n # 0 => n - 1 \in N /\ n \in 1 .. NumRoles /\ n \in Nat
  BY NumRolesAssumption
<1>4. \A n \in N : n # 0 => p.findings[n] \in SUBSET Findings /\ IsFiniteSet(p.findings[n])
  BY <1>3 DEF PlanType, Roles
<1>5. \A n \in N : FirstReports(p, n) \in Reports
  <2> DEFINE Bad == {n \in N : FirstReports(p, n) \notin Reports}
  <2> SUFFICES ASSUME Bad # {} PROVE FALSE
    OBVIOUS
  <2>1. Bad \in SUBSET Nat
    BY NumRolesAssumption
  <2>2. PICK n \in Bad : \A m \in Bad : n <= m
    <3> HIDE DEF Bad
    <3> QED BY <2>1, SmallestOf
  <2>3. n # 0
    <3>1. [k \in {} |-> {}] \in [{} -> [role : Nat, severity : 1 .. 3]]
      OBVIOUS
    <3>2. {} \in SUBSET FindingKeys
      OBVIOUS
    <3>3. [k \in {} |-> {}] \in Reports
      BY <3>1, <3>2, Zenon DEF Reports
    <3> QED BY <1>2, <2>2, <3>3
  <2>4. FirstReports(p, n - 1) \in Reports
    BY <1>3, <2>1, <2>2, <2>3
  <2>5. WithFindings(FirstReports(p, n - 1), n, p.findings[n]) = FirstReports(p, n)
    BY <1>3, <2>2, <2>3, <2>4, OneMoreReports
  <2> QED BY <1>3, <1>4, <2>2, <2>3, <2>4, <2>5, WithIsReport
<1>6. ASSUME NEW n \in N, n # 0
      PROVE  FoldSet(LAMBDA f, sofar : AddFinding(sofar, n, f), goal[n - 1], p.findings[n]) = goal[n]
  <2>1. FoldSet(LAMBDA f, sofar : AddFinding(sofar, n, f), FirstReports(p, n - 1), p.findings[n])
          = WithFindings(FirstReports(p, n - 1), n, p.findings[n])
    BY <1>3, <1>4, <1>5, <1>6, FoldAdds, Zenon
  <2>2. WithFindings(FirstReports(p, n - 1), n, p.findings[n]) = FirstReports(p, n)
    BY <1>3, <1>5, <1>6, OneMoreReports
  <2>3. goal[n - 1] = FirstReports(p, n - 1) /\ goal[n] = FirstReports(p, n)
    BY <1>3, <1>6
  <2> QED BY <2>1, <2>2, <2>3, Zenon
<1>7. Runs(goal)
  <2>1. \A n \in N :
          goal[n] = IF n = 0 THEN [k \in {} |-> {}]
                    ELSE FoldSet(LAMBDA f, sofar : AddFinding(sofar, n, f), goal[n - 1], p.findings[n])
    <3> TAKE n \in N
    <3>1. CASE n = 0
      BY <1>2, <3>1
    <3>2. CASE n # 0
      <4> HIDE DEF goal
      <4> QED BY <1>6, <3>2, Zenon
    <3> QED BY <3>1, <3>2, Zenon
  <2> QED BY <2>1, Zenon
<1>8. Runs(up)
  <2> HIDE DEF Runs, goal
  <2> QED BY <1>7, Zenon
<1> HIDE DEF up
<1>9. \A n \in N :
        up[n] = IF n = 0 THEN [k \in {} |-> {}]
                ELSE FoldSet(LAMBDA f, sofar : AddFinding(sofar, n, f), up[n - 1], p.findings[n])
  BY <1>8, Zenon
<1>10. \A n \in N : up[n] = goal[n]
  <2> DEFINE Bad == {n \in N : up[n] # goal[n]}
  <2> SUFFICES ASSUME Bad # {} PROVE FALSE
    OBVIOUS
  <2>1. Bad \in SUBSET Nat
    BY NumRolesAssumption
  <2>2. PICK n \in Bad : \A m \in Bad : n <= m
    <3> HIDE DEF Bad
    <3> QED BY <2>1, SmallestOf
  <2>3. n # 0
    BY <1>2, <1>9, <2>2
  <2>4. up[n - 1] = goal[n - 1]
    <3>1. n \in Nat /\ n - 1 \in N
      BY <1>3, <2>2, <2>3
    <3>2. n - 1 \notin Bad
      <4> HIDE DEF Bad
      <4> QED BY <2>2, <3>1
    <3> QED BY <3>1, <3>2
  <2>5. n \in N /\ up[n] # goal[n]
    BY <2>2
  <2> HIDE DEF goal
  <2>6. up[n] = FoldSet(LAMBDA f, sofar : AddFinding(sofar, n, f), up[n - 1], p.findings[n])
    BY <1>9, <2>3, <2>5, Zenon
  <2>7. up[n] = goal[n]
    BY <1>6, <2>3, <2>4, <2>5, <2>6, Zenon
  <2> QED BY <2>5, <2>7
<1>11. NumRoles \in N
  BY NumRolesAssumption
<1>12. up[NumRoles] = FirstReports(p, NumRoles)
  BY <1>10, <1>11
<1> QED BY <1>1, <1>12

\* A report that was made is that of the plan.
ReportInv == outcome = "succeeded" => report = ReportOf(plan)

LEMMA ReportStays == ReportInv /\ IInv /\ [Next]_vars => ReportInv'
<1> SUFFICES ASSUME ReportInv, IInv, [Next]_vars PROVE ReportInv'
  OBVIOUS
<1> USE DEF ReportInv, End, graphVars, loopVars
<1>1. phase \notin {"ended", "exited"} => outcome = "none"
  BY DEF IInv, TypeInv, RolesInv
<1>2. CASE PlaceLevel
  BY <1>2, <1>1 DEF PlaceLevel
<1>3. CASE RejectCycle \/ GraphBuilt
  BY <1>3, <1>1 DEF RejectCycle, GraphBuilt
<1>4. CASE AllCompleted
  BY <1>4 DEF AllCompleted
<1>5. CASE CheckBeforeLaunch \/ LaunchReadyRoles \/ CheckAfterRole \/ Exit
  BY <1>5 DEF CheckBeforeLaunch, LaunchReadyRoles, CheckAfterRole, Exit
<1>6. CASE StopIdle
  BY <1>6, <1>1 DEF StopIdle
<1>7. CASE \E r \in Roles : TakeOutput(r) \/ TakeError(r)
  BY <1>7, <1>1 DEF TakeOutput, TakeError
<1>8. CASE (\E r \in Roles : Work(r)) \/ RequestCancellation
  BY <1>8 DEF Work, RequestCancellation
<1>9. CASE UNCHANGED vars
  BY <1>9 DEF vars
<1> QED BY <1>2, <1>3, <1>4, <1>5, <1>6, <1>7, <1>8, <1>9 DEF Next, LoopStep

\* The report of a plan has its findings merged.
LEMMA MergedReport ==
  ASSUME plan \in PlanType, report = FirstReports(plan, NumRoles)
  PROVE  ReportMergesFindings
<1> DEFINE Found(k) == {x \in Roles \X Findings : x[2] \in plan.findings[x[1]] /\ x[2].key = k}
           A(k) == Reporters(plan, NumRoles, k)
           S(k) == GivenTo(plan, NumRoles, k)
<1>1. \A r \in Roles : plan.findings[r] \in SUBSET Findings
  BY DEF PlanType
<1>2. \A f \in Findings : f.key \in FindingKeys /\ f.severity \in 1 .. 3
  BY DEF Findings
<1>3. ASSUME NEW k
      PROVE  /\ A(k) = {x[1] : x \in Found(k)}
             /\ S(k) = {x[2].severity : x \in Found(k)}
  <2>1. \A x \in Found(k) : x[1] \in A(k) /\ x[2].severity \in S(k)
    BY DEF Reporters, GivenTo, KeysOf, SeveritiesOf, Roles
  <2>2. ASSUME NEW r \in A(k) PROVE \E x \in Found(k) : x[1] = r
    <3>1. PICK f \in plan.findings[r] : f.key = k
      BY <2>2 DEF Reporters, KeysOf
    <3>2. <<r, f>> \in Found(k)
      BY <1>1, <2>2, <3>1 DEF Reporters, Roles
    <3> QED BY <3>2
  <2>3. ASSUME NEW s \in S(k) PROVE \E x \in Found(k) : x[2].severity = s
    <3>1. PICK r \in Roles : s \in SeveritiesOf(plan.findings[r], k)
      BY <2>3 DEF GivenTo, Roles
    <3>2. PICK f \in plan.findings[r] : f.key = k /\ f.severity = s
      BY <3>1 DEF SeveritiesOf
    <3>3. <<r, f>> \in Found(k)
      BY <1>1, <3>2
    <3> QED BY <3>2, <3>3
  <2> QED BY <2>1, <2>2, <2>3
<1>4. \A k : Found(k) # {} => k \in FindingKeys
  BY <1>1, <1>2
<1>5. DOMAIN report = {k \in FindingKeys : Found(k) # {}}
  <2>1. DOMAIN report = UNION {KeysOf(plan.findings[r]) : r \in Roles}
    BY DEF FirstReports, Roles
  <2>2. \A k : k \in DOMAIN report <=> A(k) # {}
    BY <2>1 DEF Reporters, Roles
  <2>3. \A k : k \in DOMAIN report <=> Found(k) # {}
    BY <1>3, <2>2
  <2> QED BY <1>4, <2>3
<1>6. ASSUME NEW k \in DOMAIN report
      PROVE  /\ \E x \in Found(k) : x[1] = report[k].role
             /\ \E x \in Found(k) : x[2].severity = report[k].severity
             /\ \A x \in Found(k) : report[k].role <= x[1] /\ report[k].severity >= x[2].severity
  <2>1. Found(k) # {}
    BY <1>5
  <2>2. report[k] = [role |-> First(A(k)), severity |-> Highest(S(k))]
    <3>1. k \in UNION {KeysOf(plan.findings[r]) : r \in 1 .. NumRoles}
      BY DEF FirstReports
    <3> QED BY <3>1 DEF FirstReports
  <2>3. A(k) \in SUBSET Nat /\ A(k) # {} /\ S(k) \in SUBSET (1 .. 3) /\ S(k) # {}
    <3>1. \A x \in Found(k) : x[1] \in Nat /\ x[2].severity \in 1 .. 3
      BY <1>2, RolesAreFinite
    <3> QED BY <1>3, <2>1, <3>1
  <2>4. First(A(k)) \in A(k) /\ \A q \in A(k) : First(A(k)) <= q
    <3> HIDE DEF A
    <3> QED BY <2>3, FirstOfThem
  <2>5. Highest(S(k)) \in S(k) /\ \A s \in S(k) : s <= Highest(S(k))
    <3> HIDE DEF S
    <3> QED BY <2>3, HighestOf
  <2>6. \A x \in Found(k) : x[1] \in A(k) /\ x[2].severity \in S(k)
    BY <1>3
  <2> HIDE DEF A, S
  <2>7. report[k].role = First(A(k)) /\ report[k].severity = Highest(S(k))
    BY <2>2
  <2>8. \A x \in Found(k) : report[k].role <= x[1] /\ report[k].severity >= x[2].severity
    <3> TAKE x \in Found(k)
    <3>1. First(A(k)) <= x[1] /\ x[2].severity <= Highest(S(k))
      BY <2>4, <2>5, <2>6
    <3>2. x[2].severity \in 1 .. 3 /\ Highest(S(k)) \in 1 .. 3
      BY <2>3, <2>5, <2>6
    <3> QED BY <2>7, <3>1, <3>2
  <2> QED BY <1>3, <2>4, <2>5, <2>7, <2>8
<1> QED BY <1>5, <1>6 DEF ReportMergesFindings

\* The report of a successful execution has one finding per key, with the highest
\* severity and the first role that gave it.
THEOREM ReportsMergeFindings == Spec => []ReportMergesFindings
<1>1. Init => ReportInv
  BY DEF Init, ReportInv
<1>2. IInv /\ ReportInv => ReportMergesFindings
  <2> SUFFICES ASSUME IInv, ReportInv, outcome = "succeeded" PROVE ReportMergesFindings
    BY DEF ReportMergesFindings
  <2>1. plan \in PlanType
    BY PlanIsPlan DEF IInv
  <2>2. report = FirstReports(plan, NumRoles)
    BY <2>1, ReportIsFirstReports DEF ReportInv
  <2> QED BY <2>1, <2>2, MergedReport
<1> QED BY <1>1, <1>2, ReportStays, SchedulerInvariant, PTL DEF Spec
=============================================================================
