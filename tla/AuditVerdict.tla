----------------------------- MODULE AuditVerdict -----------------------------
(***************************************************************************)
(* How an audit's report comes to its release gate: the findings of the    *)
(* roles, a standardized handoff made of them, what its execution found,   *)
(* and then enrichReportForUniversalAudit twice, before and after the      *)
(* artifacts are written.  A handoff may bring a decision of the release   *)
(* gate scorer and packs of the remediation planner.                       *)
(***************************************************************************)
EXTENDS HandoffExecution

CONSTANT Handoffs  \* what standardized handoffs say

\* The scorer's decision; packs, which name findings by id and lead nowhere when the role
\* gave no ids; whether it requires artifacts; and whether the bundle is the exhaustive one.
ASSUME HandoffsAssumption ==
  Handoffs \subseteq [decision : {"none", "pass", "warn", "fail"},
                      packs : {"none", "linked", "dangling"},
                      requires : BOOLEAN, exhaustive : BOOLEAN]

VARIABLES
  report,   \* how far executeAuditJobCore is with the report
  handoff,  \* the standardized handoff
  known,    \* severities of the findings of the roles
  produced, \* whether the required artifacts are written
  verdict   \* the summary of the report

verdictVars == <<report, handoff, known, produced, verdict>>
auditReportVars  == <<handoffVars, verdictVars>>

Findings  == [of : {"roles", "execution"}, severity : Severities]
NoHandoff == [decision |-> "none", packs |-> "none", requires |-> FALSE, exhaustive |-> FALSE]
NoVerdict == [gate |-> "none", packed |-> {}, failed |-> {}, gaps |-> {}]

VerdictType ==
  /\ HandoffType
  /\ report \in {"roles", "collected", "enriched", "written", "saved", "failed"}
  /\ handoff \in Handoffs \union {NoHandoff}
  /\ known \subseteq Severities
  /\ produced \in BOOLEAN
  /\ verdict \in [gate : {"none", "pass", "warn", "fail"}, packed : SUBSET Findings,
                  failed : SUBSET Titles, gaps : SUBSET {"blocker", "artifact"}]

VerdictInit ==
  /\ HandoffInit
  /\ report = "roles"
  /\ handoff = NoHandoff
  /\ known = {}
  /\ produced = FALSE
  /\ verdict = NoVerdict

-----------------------------------------------------------------------------
(* enrichReportForUniversalAudit *)

\* executeStandardizedHandoff's findings come after the handoff was written.
AllFindings ==
  [of : {"roles"}, severity : known] \union [of : {"execution"}, severity : issues]
Found(severity) == \E f \in AllFindings : f.severity = severity
Missing(written) == handoff.requires /\ ~ written

\* buildRemediationPacks has a pack for every category; a handoff's packs replace them.
Packed ==
  CASE handoff.packs = "none"     -> AllFindings
    [] handoff.packs = "linked"   -> {f \in AllFindings : f.of = "roles"}
    [] handoff.packs = "dangling" -> {}

FailedAttempts == {t \in Titles : sections[t] = "planned"}

CapabilityGaps(written) ==
  {g \in {"blocker", "artifact"} :
     \/ g = "blocker" /\ "high" \in known
     \/ g = "artifact" /\ Missing(written)}

ReleaseGateDecision(written) ==
  CASE Found("high") \/ Missing(written) -> "fail"
    [] ~ (Found("high") \/ Missing(written))
       /\ (Found("medium") \/ (handoff.exhaustive /\ AllFindings # {})) -> "warn"
    [] OTHER -> "pass"

Enriched(written) ==
  [gate   |-> IF handoff.decision # "none" THEN handoff.decision
              ELSE ReleaseGateDecision(written),
   packed |-> Packed, failed |-> FailedAttempts, gaps |-> CapabilityGaps(written)]

-----------------------------------------------------------------------------
(* executeAuditJobCore after the roles *)

\* The sections of the roles hold the handoff; it is only looked at from here on.
TakeOutputs(h, before) ==
  /\ stage = "returned" /\ report = "roles"
  /\ handoff' = h
  /\ known' = before
  /\ report' = "collected"
  /\ UNCHANGED <<handoffVars, produced, verdict>>

\* The report has no artifacts yet: whatever is required is missing.  The quality line of
\* the log and the learnables are made of this one.
Enrich ==
  /\ report = "collected"
  /\ verdict' = Enriched(FALSE)
  /\ report' = "enriched"
  /\ UNCHANGED <<handoffVars, handoff, known, produced>>

\* Mutant: a decision that was made stays.
EnrichOnce ==
  /\ report = "written"
  /\ verdict' = [Enriched(produced) EXCEPT !.gate = verdict.gate]
  /\ report' = "saved"
  /\ UNCHANGED <<handoffVars, handoff, known, produced>>

\* writeHostedJobArtifacts lists what the execution left as the report's artifacts.
WriteArtifacts(complete) ==
  /\ report = "enriched"
  /\ produced' = complete
  /\ report' = "written"
  /\ UNCHANGED <<handoffVars, handoff, known, verdict>>

EnrichAgain ==
  /\ report = "written"
  /\ verdict' = Enriched(produced)
  /\ report' = "saved"
  /\ UNCHANGED <<handoffVars, handoff, known, produced>>

\* The role that executes the handoff throws, or an inventory or a write does.
AuditThrows ==
  /\ stage = "threw" \/ report \in {"enriched", "written"}
  /\ report \in {"roles", "enriched", "written"}
  /\ report' = "failed"
  /\ UNCHANGED <<handoffVars, handoff, known, produced, verdict>>

VerdictNext ==
  \/ HandoffNext /\ UNCHANGED verdictVars
  \/ \E h \in Handoffs, before \in {{}} \union {{s} : s \in Severities} : TakeOutputs(h, before)
  \/ Enrich \/ (\E complete \in BOOLEAN : WriteArtifacts(complete)) \/ EnrichAgain \/ AuditThrows

-----------------------------------------------------------------------------
(* Properties *)

\* Unless the scorer decided, the gate of a saved report follows from everything that was
\* found, the handoff's execution and the artifacts included: a pass leaves no attempt
\* that failed, and a failure has a finding or an artifact gap that says why.  Unless the
\* planner made the packs, no finding is left out of them.
GateFollowsFindings ==
  report = "saved" =>
    /\ handoff.decision = "none" =>
         /\ verdict.gate = "pass" => /\ ~ Found("high") /\ ~ Found("medium")
                                     /\ verdict.failed = {} /\ "artifact" \notin verdict.gaps
         /\ verdict.gate = "fail" => Found("high") \/ "artifact" \in verdict.gaps
    /\ handoff.packs = "none" => verdict.packed = AllFindings
    /\ "artifact" \in verdict.gaps => ~ produced
=============================================================================
