----------------------------- MODULE ReportQuality -----------------------------
(***************************************************************************)
(* The capability gaps, the quality score and the learnables of an audit's *)
(* report.  enrichReportForUniversalAudit makes gaps and score twice: from *)
(* the report as the roles left it, and again once its artifacts are       *)
(* written.  The log line and the learnables are made of the first ones,   *)
(* the saved report holds the second.  The release gate is in AuditVerdict.*)
(***************************************************************************)
EXTENDS Integers, FiniteSets

CONSTANT ReportFacts  \* what the roles and the handoff's execution may leave

\* What a coverage gap of the handoff says, by the words isSupersededBrowserCoverageGap looks for
GapWords ==
  {"none", "auth", "suite not run", "no new artifacts", "browser not run", "role step", "other"}
Kinds    == {"screenshot", "runtime-log"}  \* of artifacts; the first is evidence of a browser

Outcomes == {"none", "succeeded", "failed"}  \* "none": the report has no such section

PossibleFacts ==
  [blockers : SUBSET {"high", "medium"}, words : GapWords, target : BOOLEAN,
   suiteFound : {"undetected", "broken", "failing", "blocked", "passed"},
   runtime : Outcomes, suite : Outcomes \union {"skipped"}, qa : Outcomes,
   loggedIn : BOOLEAN, authGap : {"none", "medium", "high"},
   required : SUBSET Kinds, writes : SUBSET Kinds,
   findings : [all : Nat, evidenced : Nat, withPaths : Nat, withRefs : Nat, uniform : BOOLEAN],
   listed : Nat]

ASSUME ReportFactsAssumption ==
  ReportFacts \subseteq PossibleFacts

VARIABLES
  facts,    \* the report
  kinds,    \* of its artifacts
  enriched, \* number of enrichments
  first, saved,  \* what they made
  learned   \* learnables

qualityVars == <<facts, kinds, enriched, first, saved, learned>>

NothingYet == [gaps |-> {}, score |-> 0]
NoFacts ==
  [blockers |-> {}, words |-> "none", target |-> TRUE, suiteFound |-> "passed",
   runtime |-> "succeeded", suite |-> "succeeded", qa |-> "succeeded", loggedIn |-> TRUE,
   authGap |-> "none", required |-> {}, writes |-> {},
   findings |-> [all |-> 0, evidenced |-> 0, withPaths |-> 0, withRefs |-> 0, uniform |-> FALSE],
   listed |-> 0]

QualityType ==
  /\ facts \in PossibleFacts
  /\ kinds \subseteq Kinds
  /\ enriched \in 0 .. 2
  /\ {first.score, saved.score} \subseteq 0 .. 100

QualityInit ==
  /\ facts \in ReportFacts
  /\ kinds = {}
  /\ enriched = 0
  /\ first = NothingYet /\ saved = NothingYet
  /\ learned = {}

-----------------------------------------------------------------------------
(* buildCapabilityGaps *)

BrowserEvidence(written) == "screenshot" \in written

\* Mutant: evidence is asked of every gap, and the other way round.
SupersededWithout(words, written) ==
  /\ words # "none" /\ ~ BrowserEvidence(written)
  /\ \/ words = "auth" /\ facts.loggedIn
     \/ words \in {"suite not run", "no new artifacts"} /\ facts.suite = "succeeded"
     \/ words \in {"role step", "browser not run"} /\ facts.qa = "succeeded"

\* isSupersededBrowserCoverageGap: a later execution did what the handoff says was not done.
Superseded(words, written) ==
  LET suiteRan == facts.suite = "succeeded"
      qaRan    == facts.qa = "succeeded"
      fresh    == BrowserEvidence(written)
  IN  \/ words = "auth" /\ facts.loggedIn
      \/ words = "suite not run" /\ suiteRan
      \/ words = "no new artifacts" /\ fresh /\ (suiteRan \/ qaRan)
      \/ words = "role step" /\ (qaRan \/ fresh)
      \/ words = "browser not run" /\ qaRan

Gap(scope, severity, title) == [scope |-> scope, severity |-> severity, title |-> title]
When(condition, x)           == IF condition THEN {x} ELSE {}
MissingKinds(written)            == facts.required \ written

GapsOf(written) ==
  UNION {
    When(facts.authGap # "none", Gap("auth", facts.authGap, "authenticated coverage")),
    {Gap("ops", severity, "blocker") : severity \in facts.blockers},
    When(facts.words # "none" /\ ~ Superseded(facts.words, written),
         Gap("browser", "medium", "coverage gap")),
    When(~ facts.target, Gap("runtime", "medium", "no runtime target")),
    When(facts.suite = "skipped", Gap("ops", "medium", "suite skipped")),
    When(MissingKinds(written) # {}, Gap("artifact", "high", "artifacts missing")),
    When(facts.suiteFound = "undetected", Gap("skill", "low", "no suite")),
    When(facts.suiteFound = "broken" /\ facts.suite # "succeeded",
         Gap("skill", "medium", "suite not runnable")),
    When(facts.suiteFound \in {"failing", "blocked"} /\ facts.suite # "succeeded",
         Gap("browser", IF facts.suiteFound = "blocked" THEN "high" ELSE "medium",
             "suite did not pass"))}

-----------------------------------------------------------------------------
(* buildQualityScorecard: the mean of five dimensions, in percent *)

Round(a, b)     == (2 * a + b) \div (2 * b)
ClampPercent(n) == IF n < 0 THEN 0 ELSE IF n > 100 THEN 100 ELSE n

EvidenceScore ==
  LET f == facts.findings
      traceability == ClampPercent(Round(100 * (f.withPaths + f.withRefs), 2 * f.all))
  IN  IF f.all = 0 THEN 100
      ELSE ClampPercent(Round(700 * f.evidenced + 3 * traceability * f.all, 10 * f.all))

\* A suite that was skipped was not attempted.
ExecutionScore ==
  LET attempted == {s \in {"runtime", "qa", "suite"} : facts[s] \in {"succeeded", "failed"}}
  IN  IF attempted = {} THEN 50
      ELSE ClampPercent(Round(100 * Cardinality({s \in attempted : facts[s] = "succeeded"}),
                              Cardinality(attempted)))

ArtifactsScore(written) == ClampPercent(100 - 25 * Cardinality(MissingKinds(written)))

\* The five signals are there whenever the scorecard is made; the handoff is one of the report's.
\* Findings of one category and title cost 15 when there are eight, and 12 when there are three.
TransparencyScore ==
  LET f == facts.findings
  IN  ClampPercent(100 - (IF f.uniform /\ f.all >= 8 THEN 15 ELSE 0)
                       - (IF f.uniform /\ f.all >= 3 THEN 12 ELSE 0))

Penalty(severity) ==
  CASE severity = "high" -> 35 [] severity = "medium" -> 18 [] severity = "low" -> 8
CapabilityScore(gaps) ==
  LET Of(severity) == Cardinality({g \in gaps : g.severity = severity})
  IN  ClampPercent(100 - (Of("high") * Penalty("high") + Of("medium") * Penalty("medium")
                          + Of("low") * Penalty("low")))

OverallScore(written) ==
  ClampPercent(Round(EvidenceScore + ExecutionScore + ArtifactsScore(written) + TransparencyScore
                     + CapabilityScore(GapsOf(written)), 5))

Enrichment(written) == [gaps |-> GapsOf(written), score |-> OverallScore(written)]

-----------------------------------------------------------------------------
(* synthesizeLearnablesFromReport *)

MaxLearned  == 24
MaxGaps     == 5

\* The gaps are sorted by severity, scope and title, and the first five are taken.
Rank(gap) ==
  CASE gap.severity = "high" -> 0 [] gap.severity = "medium" -> 1 [] gap.severity = "low" -> 2
GapOrder ==
  <<"artifacts missing", "authenticated coverage", "coverage gap", "suite did not pass", "blocker",
    "suite skipped", "no runtime target", "no suite", "suite not runnable">>
Place(gap)  == 10 * Rank(gap) + CHOOSE i \in 1 .. 9 : GapOrder[i] = gap.title
FirstGaps(gaps) == {g \in gaps : Cardinality({o \in gaps : Place(o) < Place(g)}) < MaxGaps}

\* Runtime, suite and browser each have a learnable, and so has a login or its lack.
SectionsLearned ==
  UNION {When(facts.runtime # "none", "runtime"), When(facts.suite # "none", "suite"),
         When(facts.qa = "succeeded", "pages"),
         When(facts.loggedIn \/ facts.authGap # "none", "login")}
ExecutionLearnables(gaps) == SectionsLearned \union {g.title : g \in FirstGaps(gaps)}

\* What the handoff lists comes next, its blockers last; only so many are kept.
Learnables(gaps) ==
  LET execution == ExecutionLearnables(gaps)
      room      == MaxLearned - Cardinality(execution)
  IN  execution \union (IF facts.listed < room THEN {"listed", "blockers"} ELSE {"listed"})

-----------------------------------------------------------------------------
(* executeAuditJobCore *)

\* The roles are done; the report has no artifacts.
EnrichReport ==
  /\ enriched = 0
  /\ first' = Enrichment({})
  /\ learned' = Learnables(GapsOf({}))
  /\ enriched' = 1
  /\ UNCHANGED <<facts, kinds, saved>>

\* writeHostedJobArtifacts
WriteKinds ==
  /\ enriched = 1 /\ kinds = {} /\ facts.writes # {}
  /\ kinds' = facts.writes
  /\ UNCHANGED <<facts, enriched, first, saved, learned>>

EnrichSaved ==
  /\ enriched = 1 /\ kinds = facts.writes
  /\ saved' = Enrichment(kinds)
  /\ enriched' = 2
  /\ UNCHANGED <<facts, kinds, first, learned>>

QualityNext == EnrichReport \/ WriteKinds \/ EnrichSaved

-----------------------------------------------------------------------------
(* Properties *)

\* The saved report has no gap and no lower score than the log line and the learnables were
\* made of; what the artifacts closed is that they were missing, or a coverage gap that only
\* new evidence supersedes.  No fact of the execution is cut from the learnables.
SavedReportOnlyImproves ==
  enriched = 2 =>
    /\ saved.gaps \subseteq first.gaps
    /\ saved.score >= first.score
    /\ \A g \in first.gaps \ saved.gaps :
         \/ g.title = "artifacts missing"
         \/ g.title = "coverage gap" /\ facts.words \in {"no new artifacts", "role step"}
    /\ SectionsLearned \subseteq learned
    /\ Cardinality(ExecutionLearnables(first.gaps)) <= MaxLearned
=============================================================================
