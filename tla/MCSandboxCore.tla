--------------------------- MODULE MCSandboxCore ---------------------------
(***************************************************************************)
(* Values for TLC: five plans of four roles.  In order: a diamond with an  *)
(* unknown role id and two exclusive roles; three exclusive roles that are *)
(* ordered only by the runtime edges; a role that names itself, before     *)
(* two that wait for it;                                                   *)
(* a declared plan without a cycle that the runtime edges close to one;    *)
(* a cycle of declared dependencies.                                       *)
(***************************************************************************)
EXTENDS SandboxCore, TLC

F(k, s) == [key |-> k, severity |-> s]
MCFindings ==
  (1 :> {F("k1", 1)} @@ 2 :> {F("k1", 3), F("k2", 2)} @@ 3 :> {F("k2", 1)} @@ 4 :> {})
MCKinds == (1 :> "codex" @@ 2 :> "native" @@ 3 :> "hybrid" @@ 4 :> "codex")
P(d1, d2, d3, d4, ex) ==
  [dependsOn |-> (1 :> d1 @@ 2 :> d2 @@ 3 :> d3 @@ 4 :> d4), exclusive |-> ex,
   kind |-> MCKinds, findings |-> MCFindings]
MCPlans ==
  {P({}, {1}, {1, 0}, {2, 3}, {2, 3}),
   P({}, {}, {}, {3}, {1, 2, 4}),
   P({1}, {1}, {}, {1}, {}),
   P({2}, {}, {}, {}, {1, 2}),
   P({}, {3}, {4}, {2}, {})}
=============================================================================
