----------------------------- MODULE RoleGraph -----------------------------
(***************************************************************************)
(* The dependency graph that the AI worker builds for the roles of an agent*)
(* (buildRoleExecutionGraph) and the report it makes of their outputs.     *)
(* A role is its position in the agent's role list, which is the order the *)
(* code breaks ties in.  A plan is a record:                               *)
(*                                                                         *)
(*   dependsOn   dependsOnRoleIds of each role; 0 stands for the id of a   *)
(*               role this agent does not have                             *)
(*   exclusive   the roles isExclusiveRuntimeRole holds of                 *)
(*   kind        executorKind of each role                                 *)
(*   findings    what each role will report: finitely many findings, each  *)
(*               with the key getFindingDedupeKey gives it and a severity  *)
(***************************************************************************)
EXTENDS Naturals, FiniteSets, FiniteSetsExt

CONSTANTS
  NumRoles,     \* length of the agent's role list
  FindingKeys   \* dedupe keys of findings

ASSUME NumRolesAssumption == NumRoles \in Nat \ {0}

Roles    == 1 .. NumRoles
Kinds    == {"codex", "native", "hybrid"}
Findings == [key : FindingKeys, severity : 1 .. 3]

PlanType ==
  [dependsOn : [Roles -> SUBSET (0 .. NumRoles)],
   exclusive : SUBSET Roles,
   kind      : [Roles -> Kinds],
   findings  : [Roles -> {F \in SUBSET Findings : IsFiniteSet(F)}]]

-----------------------------------------------------------------------------
(* Edges *)

\* declaredDependenciesByRoleId: ids of other roles, and its own id, are dropped.
Declared(p, r) == (p.dependsOn[r] \intersect Roles) \ {r}

\* The exclusive role before r in the role list, in a set of at most one.
PreviousExclusive(p, r) ==
  {e \in p.exclusive : e < r /\ \A q \in p.exclusive : q < r => q <= e}

\* Mutant: no runtime-resource ordering edges.
DeclaredOnly(p, r) == Declared(p, r)

\* dependenciesByRoleId: the declared ones, and for an exclusive role an edge from
\* the exclusive role before it.
Dependencies(p, r) ==
  Declared(p, r) \union {e \in PreviousExclusive(p, r) : r \in p.exclusive}

\* Mutant: the levels are computed from the declared dependencies.
LevelOfDeclared(p, placed) == {r \in Roles \ placed : Declared(p, r) \subseteq placed}

\* One round of the levels loop: the remaining roles whose dependencies are placed.
NextLevel(p, placed) == {r \in Roles \ placed : Dependencies(p, r) \subseteq placed}

\* Mutant: one role too many.
FirstAndOneMore(S, n) == {r \in S : Cardinality({q \in S : q < r}) <= n}

\* The first n roles of S in list order: slice(0, n) of a filtered role list.
FirstOf(S, n) == {r \in S : Cardinality({q \in S : q < r}) < n}

-----------------------------------------------------------------------------
(* The report *)

\* Mutant: the severity of the first finding stays.
FirstSeverity(a, b) == a

\* mergeDuplicateFinding: the higher severity wins.
MergedSeverity(a, b) == IF b > a THEN b ELSE a

\* One finding of role r into the report, a function from keys to [role, severity]:
\* the first finding of a key gives the entry its role and its place.
AddFinding(report, r, f) ==
  IF f.key \in DOMAIN report
  THEN [report EXCEPT ![f.key].severity = MergedSeverity(report[f.key].severity, f.severity)]
  ELSE [k \in DOMAIN report \union {f.key} |->
          IF k = f.key THEN [role |-> r, severity |-> f.severity] ELSE report[k]]

\* executeAuditJobCore: the outputs of the roles, in list order, as one report.
ReportOf(p) ==
  LET upTo[n \in 0 .. NumRoles] ==
        IF n = 0 THEN [k \in {} |-> {}]
        ELSE FoldSet(LAMBDA f, report : AddFinding(report, n, f), upTo[n - 1], p.findings[n])
  IN  upTo[NumRoles]
=============================================================================
