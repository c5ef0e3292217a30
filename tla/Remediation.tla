---------------------------- MODULE Remediation ----------------------------
(***************************************************************************)
(* executeRemediationJobCore: Codex edits a fresh clone, the validation    *)
(* commands run on the result, and this is repeated until it passes, no    *)
(* edit remains or the iterations are used up.  Then what git can tell of  *)
(* the clone is exported, perhaps published, and summarised in a changeset.*)
(* The job is never asked about a cancellation here.                       *)
(*                                                                         *)
(* The tree is the kinds of change it has against the base: files git      *)
(* tracks, new files it does not, and commits; version counts the runs of  *)
(* Codex, so that it tells which of them a validation followed.            *)
(***************************************************************************)
EXTENDS Naturals

CONSTANT MaxIterations   \* maxIterations of the request

ASSUME MaxIterationsAssumption == MaxIterations \in Nat \ {0}

VARIABLES
  step,        \* where executeRemediationJobCore stands
  iteration,   \* iterationCount
  tree,
  version,
  validation,  \* validationPassed, the version and the tree it was computed on
  stopReason,
  changeset    \* what the envelope reports, once it does

remediationVars == <<step, iteration, tree, version, validation, stopReason, changeset>>

StopReasons ==
  {"audit-only-complete", "no-further-safe-fixes", "iteration-budget-exhausted",
   "validation-failed", "remote-pr-not-configured"}

Changes == {"tracked", "new", "committed"}

\* git status --short: what is not committed.
Status(t) == t \ {"committed"}

\* git diff --binary tells of tracked files only, and "git bundle create" of HEAD.
Diff(t)   == t \intersect {"tracked"}
Bundle(t) == t \intersect {"committed"}

NoChangeset == [files |-> FALSE, patch |-> {}, bundle |-> {}, fixed |-> FALSE]

RemediationInit ==
  /\ step = "prepare"
  /\ iteration = 0
  /\ tree = {}
  /\ version = 0
  /\ validation = [passed |-> FALSE, of |-> 0, tree |-> {}]
  /\ stopReason = "audit-only-complete"
  /\ changeset = NoChangeset

\* Metadata or the parent report is missing, or git, Codex or the file system throws.
Throw ==
  /\ step \notin {"succeeded", "failed"}
  /\ step' = "failed"
  /\ UNCHANGED <<iteration, tree, version, validation, stopReason, changeset>>

\* Clone, check out a branch, select the findings: with none there is no iteration.
\* The repository of an uploaded archive may come with changes of its own.
Prepare ==
  /\ step = "prepare"
  /\ tree' \in SUBSET {"tracked", "new"}
  /\ \E next \in {"implement", "export"} : step' = next
  /\ iteration' = IF step' = "implement" THEN 1 ELSE 0
  /\ UNCHANGED <<version, validation, stopReason, changeset>>

\* runCodexRemediation and git status: an iteration may also undo earlier edits, or
\* commit them.
Implement ==
  /\ step = "implement"
  /\ version' = version + 1
  /\ tree' \in SUBSET Changes
  /\ \/ Status(tree') = {} /\ stopReason' = "no-further-safe-fixes" /\ step' = "export"
     \/ Status(tree') # {} /\ step' = "validate" /\ UNCHANGED stopReason
  /\ UNCHANGED <<iteration, validation, changeset>>

\* Mutant: a failed validation keeps an earlier pass, and the loop goes on after one.
KeepGoing ==
  /\ step = "validate"
  /\ validation' \in {validation, [passed |-> TRUE, of |-> version, tree |-> tree]}
  /\ step' = IF iteration < MaxIterations THEN "implement" ELSE "export"
  /\ iteration' = IF iteration < MaxIterations THEN iteration + 1 ELSE iteration
  /\ stopReason' = "validation-failed"
  /\ UNCHANGED <<tree, version, changeset>>

\* runValidationCommands: passes when every command exits with 0, also when there
\* is none.  The commands are the repository's own and may change the tree.
Validate ==
  /\ step = "validate"
  /\ \E passed \in BOOLEAN :
       /\ validation' = [passed |-> passed, of |-> version, tree |-> tree]
       /\ stopReason' = IF passed THEN "no-further-safe-fixes"
                        ELSE IF iteration >= MaxIterations THEN "iteration-budget-exhausted"
                        ELSE "validation-failed"
       /\ step' = IF passed \/ iteration >= MaxIterations THEN "export" ELSE "implement"
       /\ iteration' = IF step' = "implement" THEN iteration + 1 ELSE iteration
  /\ tree' \in SUBSET Changes
  /\ UNCHANGED <<version, changeset>>

\* Patch, bundle (of a tree that git status tells of), publication (of HEAD, which may
\* give its own stop reason) and summary.
Export ==
  /\ step = "export"
  /\ stopReason' \in {stopReason, "remote-pr-not-configured"}
  /\ LET files == Status(tree) # {}
     IN  changeset' = [files |-> files, patch |-> Diff(tree),
                       bundle |-> IF files THEN Bundle(tree) ELSE {},
                       fixed |-> validation.passed /\ files]
  /\ step' = "succeeded"
  /\ UNCHANGED <<iteration, tree, version, validation>>

RemediationNext == Throw \/ Prepare \/ Implement \/ Validate \/ Export

-----------------------------------------------------------------------------
(* Properties *)

RemediationType ==
  /\ step \in {"prepare", "implement", "validate", "export", "succeeded", "failed"}
  /\ iteration \in 0 .. MaxIterations
  /\ tree \in SUBSET Changes
  /\ version \in 0 .. MaxIterations
  /\ validation \in [passed : BOOLEAN, of : 0 .. MaxIterations, tree : SUBSET Changes]
  /\ stopReason \in StopReasons
  /\ changeset \in [files : BOOLEAN, patch : SUBSET Changes, bundle : SUBSET Changes, fixed : BOOLEAN]

\* A changeset reports findings as fixed only when the last validation passed, on what
\* the last run of Codex left; earlier iterations do not count, nor does a validation
\* before Codex changed the tree again.  Of what that validation saw the changeset lacks
\* no more than new files, unless the commands themselves changed the tree.
FixedMeansValidated ==
  changeset.fixed =>
    /\ validation.passed /\ validation.of = version /\ changeset.files
    /\ tree = validation.tree => validation.tree \ (changeset.patch \union changeset.bundle) \subseteq {"new"}

\* A report's page calls a changeset whose validation passed "Validated changeset ...
\* ready for review" and asks to "Review the changed files and patch bundle, then
\* publish or apply": the patch and the bundle hold what was validated.
FixIsExported ==
  changeset.fixed /\ tree = validation.tree =>
    validation.tree \subseteq changeset.patch \union changeset.bundle
=============================================================================
