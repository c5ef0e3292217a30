---------------------------- MODULE SandboxCore ----------------------------
(***************************************************************************)
(* executeAgentSandboxRequest: the program inside the job's sandbox.  The  *)
(* job's kind decides which of its two cores runs; the other one is not    *)
(* entered.                                                                *)
(***************************************************************************)
EXTENDS RoleScheduler, Remediation

VARIABLE jobKind

coreVars == <<jobKind, vars, remediationVars>>

CoreInit ==
  /\ jobKind \in {"analysis", "remediation"}
  /\ jobKind = "remediation" => plan = CHOOSE p \in Plans : TRUE
  /\ Init
  /\ RemediationInit

AnalysisStep    == jobKind = "analysis" /\ Next /\ UNCHANGED <<jobKind, remediationVars>>
RemediationStep == jobKind = "remediation" /\ RemediationNext /\ UNCHANGED <<jobKind, vars>>

CoreNext == AnalysisStep \/ RemediationStep

AnalysisLoop    == jobKind = "analysis" /\ LoopStep /\ UNCHANGED <<jobKind, remediationVars>>
AnalysisWork(r) == jobKind = "analysis" /\ Work(r) /\ UNCHANGED <<jobKind, remediationVars>>

\* The loop's own steps follow one another, and every await of a role ends (a Codex
\* run is killed at its timeout), as do the commands of a remediation.  Nobody has
\* to cancel.
CoreSpec ==
  /\ CoreInit /\ [][CoreNext]_coreVars
  /\ WF_coreVars(AnalysisLoop)
  /\ \A r \in Roles : WF_coreVars(AnalysisWork(r))
  /\ WF_coreVars(RemediationStep)

-----------------------------------------------------------------------------
(* Properties *)

CoreInv == IInv /\ RemediationType

\* Whatever the job's kind, the sandbox produces its result and exits.
SandboxExits == <>(phase = "exited" \/ step \in {"succeeded", "failed"})
=============================================================================
