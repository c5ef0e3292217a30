------------------------- MODULE WorkerParts_proofs --------------------------
(***************************************************************************)
(* Proofs about the parts of the product that make and keep what a job is  *)
(* about: the results of finished jobs, the retained runners, the code     *)
(* review cache, the score and the verdict of a report, the files of a job,*)
(* what the browser of an audit may open, the commands of the              *)
(* self-improvement loop, the tree of a source, what a report says of a    *)
(* user's suite, and the analysis in an installation without a queue.      *)
(* Each part has a specification of its own, an inductive invariant for    *)
(* every value of its constants, and the property that it implies.  What   *)
(* holds of all parts together is in ProductParts_proofs.                  *)
(***************************************************************************)
EXTENDS JobResults, RunnerPlane, GitReviewCache, ReportQuality, ArtifactStorage, AuditVerdict,
        BrowserAccess, DogfoodCycle, SourceTree, SuiteReadiness, CoreAnalysis,
        TLAPS, SequenceTheorems, FiniteSetTheorems

-----------------------------------------------------------------------------
(* Results of finished jobs *)

\* The audits and remediations of one source.
ResultsSpec == ResultsInit /\ [][ResultsNext]_resultVars

\* How far a writer of the report summary has come, and what it has read.
Progresses == [at : {"none", "read", "inserted", "stored", "ended"}, read : Summaries]

\* Whatever summary a writer has read, it names a changeset that its job has too.
ResultsInv ==
  /\ creation \in [Fixes -> Progresses] /\ storing \in [Fixes -> Progresses]
  /\ summary \in Summaries
  /\ \A f \in Fixes : creation[f].read.changeset \in Someone(jobChangeset)
  /\ \A f \in Fixes : storing[f].at \in {"stored", "read"} => f \in jobChangeset
  /\ LastResultStands

\* A record of a summary with other fields.
LEMMA SummaryUpdate ==
  ASSUME NEW s \in Summaries, NEW f \in Fixes
  PROVE  /\ [s EXCEPT !.latest = f] \in Summaries
         /\ [s EXCEPT !.latest = f].changeset = s.changeset
         /\ [s EXCEPT !.changeset = f, !.latest = f] \in Summaries
         /\ [s EXCEPT !.changeset = f, !.latest = f].changeset = f
BY DEF Summaries, Someone

\* What a writer has read stays when its place changes.
LEMMA ProgressUpdate ==
  ASSUME NEW p \in Progresses, NEW place \in {"none", "read", "inserted", "stored", "ended"}
  PROVE  /\ [p EXCEPT !.at = place] \in Progresses
         /\ [p EXCEPT !.at = place].read = p.read /\ [p EXCEPT !.at = place].at = place
BY DEF Progresses

\* At first nobody has read a summary.
LEMMA InitResultsInv == ResultsInit => ResultsInv
BY DEF ResultsInit, ResultsInv, LastResultStands, Progresses, NotYet, Blank, Summaries, Someone

\* Audits replace learnables; only an overlap may leave those of two.
LEMMA AuditsKeep ==
  ASSUME ResultsInv, NEW j \in Audits,
         BeginReplace(j) \/ (\E some \in BOOLEAN : CommitReplace(j, some)) \/ AuditFails(j)
  PROVE  ResultsInv'
<1>1. UNCHANGED reportVars
  BY DEF BeginReplace, CommitReplace, AuditFails
<1>2. mixed' \/ active' \subseteq {lastReplaced'}
  <2>1. CASE BeginReplace(j) \/ AuditFails(j)
    BY <2>1 DEF BeginReplace, AuditFails, ResultsInv, LastResultStands
  <2>2. ASSUME NEW some \in BOOLEAN, CommitReplace(j, some)
        PROVE  mixed' \/ active' \subseteq {lastReplaced'}
    BY <2>2 DEF CommitReplace
  <2> QED BY <2>1, <2>2
<1> QED BY <1>1, <1>2 DEF ResultsInv, LastResultStands, reportVars

\* A remediation writes back the summary it read: a changeset is named that its job has.
LEMMA FixesKeep ==
  ASSUME ResultsInv, NEW f \in Fixes,
         \/ ReadReport(f) \/ InsertFix(f) \/ NameLatest(f) \/ CreationFails(f)
         \/ StoreJobChangeset(f) \/ ReadForChangeset(f) \/ StoreReportChangeset(f) \/ FixFails(f)
  PROVE  ResultsInv'
<1> USE DEF ResultsInv, LastResultStands, auditVars, Someone
<1>0. /\ creation[f] \in Progresses /\ creation[f].read \in Summaries
      /\ storing[f] \in Progresses /\ storing[f].read \in Summaries
  BY DEF Progresses
<1>1. CASE ReadReport(f)
  <2>1. [at |-> "read", read |-> summary] \in Progresses
    BY DEF Progresses
  <2> QED BY <1>1, <2>1 DEF ReadReport
<1>2. CASE InsertFix(f) \/ CreationFails(f)
  <2>1. \E place \in {"none", "inserted", "ended"} :
          creation' = [creation EXCEPT ![f] = [creation[f] EXCEPT !.at = place]]
    BY <1>2 DEF InsertFix, CreationFails
  <2>2. UNCHANGED <<storing, summary, jobChangeset, lastStored, lost, auditVars>>
    BY <1>2 DEF InsertFix, CreationFails
  <2>3. PICK place \in {"none", "inserted", "ended"} :
          creation' = [creation EXCEPT ![f] = [creation[f] EXCEPT !.at = place]]
    BY <2>1
  <2> DEFINE moved == [creation[f] EXCEPT !.at = place]
  <2>4. moved \in Progresses /\ moved.read = creation[f].read
    <3>1. place \in {"none", "read", "inserted", "stored", "ended"}
      OBVIOUS
    <3> QED BY <1>0, <3>1, ProgressUpdate
  <2>5. creation' = [creation EXCEPT ![f] = moved]
    BY <2>3
  <2> HIDE DEF moved
  <2>6. /\ creation' \in [Fixes -> Progresses]
        /\ \A g \in Fixes : creation'[g].read.changeset \in Someone(jobChangeset)
    BY <2>4, <2>5
  <2> QED BY <2>2, <2>6
<1>3. CASE NameLatest(f)
  <2>1. /\ creation' = [creation EXCEPT ![f] = [creation[f] EXCEPT !.at = "ended"]]
        /\ summary' = [creation[f].read EXCEPT !.latest = f]
        /\ (lost \/ creation[f].read.changeset # summary.changeset) => lost'
        /\ UNCHANGED <<storing, jobChangeset, lastStored, auditVars>>
    BY <1>3 DEF NameLatest
  <2>2. summary' \in Summaries /\ summary'.changeset = creation[f].read.changeset
    BY <1>0, <2>1, SummaryUpdate
  <2>3. /\ creation' \in [Fixes -> Progresses]
        /\ \A g \in Fixes : creation'[g].read.changeset \in Someone(jobChangeset)
    BY <1>0, <2>1, ProgressUpdate
  <2>4. lost' \/ summary'.changeset = lastStored
    BY <2>1, <2>2
  <2> QED BY <2>1, <2>2, <2>3, <2>4
<1>4. CASE StoreJobChangeset(f)
  <2>1. /\ storing' = [storing EXCEPT ![f] = [storing[f] EXCEPT !.at = "stored"]]
        /\ jobChangeset' = jobChangeset \union {f}
        /\ UNCHANGED <<creation, summary, lastStored, lost, auditVars>>
    BY <1>4 DEF StoreJobChangeset
  <2> QED BY <1>0, <2>1, ProgressUpdate
<1>5. CASE ReadForChangeset(f)
  <2>1. [at |-> "read", read |-> summary] \in Progresses
    BY DEF Progresses
  <2> QED BY <1>5, <2>1 DEF ReadForChangeset
<1>6. CASE StoreReportChangeset(f)
  <2>1. /\ storing' = [storing EXCEPT ![f] = [storing[f] EXCEPT !.at = "ended"]]
        /\ summary' = [storing[f].read EXCEPT !.changeset = f, !.latest = f]
        /\ lastStored' = f /\ f \in jobChangeset
        /\ UNCHANGED <<creation, jobChangeset, auditVars>>
    BY <1>6 DEF StoreReportChangeset
  <2>2. summary' \in Summaries /\ summary'.changeset = f
    BY <1>0, <2>1, SummaryUpdate
  <2>3. /\ storing' \in [Fixes -> Progresses]
        /\ \A g \in Fixes : storing'[g].at \in {"stored", "read"} => g \in jobChangeset
    BY <1>0, <2>1, ProgressUpdate
  <2> QED BY <2>1, <2>2, <2>3
<1>7. CASE FixFails(f)
  <2>1. /\ storing' = [storing EXCEPT ![f] = [storing[f] EXCEPT !.at = "ended"]]
        /\ UNCHANGED <<creation, summary, jobChangeset, lastStored, lost, auditVars>>
    BY <1>7 DEF FixFails
  <2> QED BY <1>0, <2>1, ProgressUpdate
<1> QED BY <1>1, <1>2, <1>3, <1>4, <1>5, <1>6, <1>7

\* Every step of audits and remediations keeps the invariant.
LEMMA NextResultsInv == ResultsInv /\ [ResultsNext]_resultVars => ResultsInv'
<1>1. ResultsInv /\ UNCHANGED resultVars => ResultsInv'
  BY DEF ResultsInv, LastResultStands, resultVars, Someone
<1> QED BY <1>1, AuditsKeep, FixesKeep DEF ResultsNext

\* LastResultStands: replaceSourceLearnables leaves the last audit's learnables, and the
\* changeset in the summary is that of a remediation that has stored it, the last one but
\* where writers overlapped; for every set of jobs.
THEOREM LastResultsStand == ResultsSpec => []LastResultStands
<1>1. ResultsInv => LastResultStands
  BY DEF ResultsInv
<1> QED BY <1>1, InitResultsInv, NextResultsInv, PTL DEF ResultsSpec

\* What audits, creations and remediations keep of what they read.
AuditReads == [at : {"waiting", "replacing", "ended"}, read : SUBSET Audits]
Creations  == [at : {"none", "read", "inserted", "ended"}, read : Summaries]
Storings   == [at : {"none", "stored", "read", "ended"}, read : Summaries]

\* Going on keeps what was read.
LEMMA ReadsKeepTypes ==
  /\ \A a \in AuditReads : [a EXCEPT !.at = "ended"] \in AuditReads
  /\ \A c \in Creations, place \in {"none", "inserted", "ended"} : [c EXCEPT !.at = place] \in Creations
  /\ \A c \in Storings, place \in {"stored", "ended"} : [c EXCEPT !.at = place] \in Storings
  /\ \A s \in Summaries, f \in Fixes :
       [s EXCEPT !.latest = f] \in Summaries /\ [s EXCEPT !.changeset = f, !.latest = f] \in Summaries
BY DEF AuditReads, Creations, Storings, Summaries, Someone

\* ResultsType is inductive by itself.
LEMMA ResultsTypeSteps == ResultsType /\ [ResultsNext]_resultVars => ResultsType'
<1> SUFFICES ASSUME ResultsType, [ResultsNext]_resultVars PROVE ResultsType'
  OBVIOUS
<1>1. /\ audit \in [Audits -> AuditReads] /\ active \subseteq Audits
      /\ creation \in [Fixes -> Creations] /\ storing \in [Fixes -> Storings] /\ summary \in Summaries
      /\ jobChangeset \subseteq Fixes
      /\ lastReplaced \in Someone(Audits) /\ lastStored \in Someone(Fixes)
      /\ mixed \in BOOLEAN /\ lost \in BOOLEAN
  BY DEF ResultsType, AuditReads, Creations, Storings
<1>2. (\A j \in Audits : j \in Someone(Audits)) /\ (\A f \in Fixes : f \in Someone(Fixes))
  BY DEF Someone
<1>3. ASSUME NEW j \in Audits,
             BeginReplace(j) \/ (\E some \in BOOLEAN : CommitReplace(j, some)) \/ AuditFails(j)
      PROVE  /\ audit' \in [Audits -> AuditReads] /\ active' \subseteq Audits
             /\ lastReplaced' \in Someone(Audits) /\ mixed' \in BOOLEAN /\ UNCHANGED reportVars
  <2>1. CASE BeginReplace(j)
    <3>1. [at |-> "replacing", read |-> active] \in AuditReads
      BY <1>1 DEF AuditReads
    <3> QED BY <1>1, <2>1, <3>1 DEF BeginReplace
  <2>2. CASE AuditFails(j)
    BY <1>1, <2>2, ReadsKeepTypes DEF AuditFails
  <2>3. ASSUME NEW some \in BOOLEAN, CommitReplace(j, some)
        PROVE  /\ audit' \in [Audits -> AuditReads] /\ active' \subseteq Audits
               /\ lastReplaced' \in Someone(Audits) /\ mixed' \in BOOLEAN /\ UNCHANGED reportVars
    <3>1. mixed' \in BOOLEAN
      BY <2>3, Zenon DEF CommitReplace
    <3>2. audit' \in [Audits -> AuditReads]
      BY <1>1, <2>3, ReadsKeepTypes DEF CommitReplace
    <3> QED BY <1>1, <1>2, <2>3, <3>1, <3>2 DEF CommitReplace
  <2> QED BY <1>3, <2>1, <2>2, <2>3
<1>4. ASSUME NEW f \in Fixes,
             ReadReport(f) \/ InsertFix(f) \/ CreationFails(f) \/ NameLatest(f)
      PROVE  /\ creation' \in [Fixes -> Creations] /\ summary' \in Summaries /\ lost' \in BOOLEAN
             /\ UNCHANGED <<auditVars, storing, jobChangeset, lastStored>>
  <2>1. CASE ReadReport(f)
    <3>1. [at |-> "read", read |-> summary] \in Creations
      BY <1>1 DEF Creations
    <3> QED BY <1>1, <2>1, <3>1 DEF ReadReport
  <2>2. CASE InsertFix(f)
    BY <1>1, <2>2, ReadsKeepTypes DEF InsertFix
  <2>3. CASE CreationFails(f)
    BY <1>1, <2>3, ReadsKeepTypes DEF CreationFails
  <2>4. CASE NameLatest(f)
    <3>1. creation[f].read \in Summaries
      BY <1>1 DEF Creations
    <3>2. lost' \in BOOLEAN
      BY <2>4, Zenon DEF NameLatest
    <3> QED BY <1>1, <2>4, <3>1, <3>2, ReadsKeepTypes DEF NameLatest
  <2> QED BY <1>4, <2>1, <2>2, <2>3, <2>4
<1>5. ASSUME NEW f \in Fixes,
             StoreJobChangeset(f) \/ ReadForChangeset(f) \/ StoreReportChangeset(f) \/ FixFails(f)
      PROVE  /\ storing' \in [Fixes -> Storings] /\ summary' \in Summaries /\ lost' \in BOOLEAN
             /\ jobChangeset' \subseteq Fixes /\ lastStored' \in Someone(Fixes)
             /\ UNCHANGED <<auditVars, creation>>
  <2>1. CASE StoreJobChangeset(f)
    BY <1>1, <2>1, ReadsKeepTypes DEF StoreJobChangeset
  <2>2. CASE ReadForChangeset(f)
    <3>1. [at |-> "read", read |-> summary] \in Storings
      BY <1>1 DEF Storings
    <3> QED BY <1>1, <2>2, <3>1 DEF ReadForChangeset
  <2>3. CASE StoreReportChangeset(f)
    <3>1. storing[f].read \in Summaries
      BY <1>1 DEF Storings
    <3> QED BY <1>1, <1>2, <2>3, <3>1, ReadsKeepTypes DEF StoreReportChangeset
  <2>4. CASE FixFails(f)
    BY <1>1, <2>4, ReadsKeepTypes DEF FixFails
  <2> QED BY <1>5, <2>1, <2>2, <2>3, <2>4
<1>6. /\ audit' \in [Audits -> AuditReads] /\ active' \subseteq Audits
      /\ creation' \in [Fixes -> Creations] /\ storing' \in [Fixes -> Storings] /\ summary' \in Summaries
      /\ jobChangeset' \subseteq Fixes
      /\ lastReplaced' \in Someone(Audits) /\ lastStored' \in Someone(Fixes)
      /\ mixed' \in BOOLEAN /\ lost' \in BOOLEAN
  <2>1. CASE UNCHANGED resultVars
    BY <1>1, <2>1 DEF resultVars
  <2> QED BY <1>1, <1>3, <1>4, <1>5, <2>1 DEF ResultsNext, auditVars, reportVars
<1> QED BY <1>6 DEF ResultsType, AuditReads, Creations, Storings

\* ResultsType, for every set of audits and of remediations.
THEOREM ResultsTypes == ResultsSpec => []ResultsType
<1>1. ResultsInit => ResultsType
  <2>1. Blank \in Summaries /\ "none" \in Someone(Audits) /\ "none" \in Someone(Fixes)
    BY DEF Blank, Summaries, Someone
  <2>2. /\ Waiting \in [at : {"waiting", "replacing", "ended"}, read : SUBSET Audits]
        /\ NotYet \in [at : {"none", "read", "inserted", "ended"}, read : Summaries]
        /\ NotYet \in [at : {"none", "stored", "read", "ended"}, read : Summaries]
    BY <2>1 DEF Waiting, NotYet
  <2> QED BY <2>1, <2>2 DEF ResultsInit, ResultsType
<1> QED BY <1>1, ResultsTypeSteps, PTL DEF ResultsSpec

-----------------------------------------------------------------------------
(* The runner plane *)

\* One job of the runner plane and its runners.
RunnerSpec == RunnerInit /\ [][RunnerNext]_runnerVars

\* A run that was neither stopped nor failed.
EndedWell == hostedRun.exit = "zero" /\ ~hostedRun.timedOut /\ ~hostedRun.cancelled

\* Rows of AnalysisJob, as far as runners read and write them.
Rows == [status : Unfinished \union {"succeeded", "failed", "cancelled"}, cancel : BOOLEAN,
         claimer : Runners \union {"none"}]
\* Executions.
Runs == [at : RunSteps, by : Runners \union {"none"}, timedOut : BOOLEAN, cancelled : BOOLEAN,
         stopping : BOOLEAN, exit : {"none", "zero", "nonzero"},
         verdict : {"none", "succeeded", "failed", "cancelled"}, threw : BOOLEAN]

\* The row and the run at each step: a job that waits has no run; a running one is its
\* runner's until the run's failure path, its clean-up or its death leave it.
RunnerInv ==
  /\ hostedJob \in Rows /\ hostedRun \in Runs
  /\ hostedJob.status \in {"pending", "queued"} => hostedRun.at = "none"
  /\ hostedJob.status = "running" => hostedRun.at # "none" /\ hostedJob.claimer = hostedRun.by
  /\ hostedRun.at \in {"record", "prepare", "spawn", "wait"} =>
       (hostedRun.timedOut \/ hostedRun.cancelled => hostedRun.stopping)
  /\ hostedRun.at = "closed" => (hostedRun.exit = "zero" => EndedWell)
  /\ hostedRun.at = "finalize" => /\ hostedRun.verdict # "none"
                                  /\ hostedRun.verdict = "succeeded" => EndedWell
  /\ hostedRun.at \in {"clean", "over"} /\ hostedJob.status = "running" =>
       hostedRun.threw \/ (hostedRun.verdict = "succeeded" /\ hostedJob.cancel)
  /\ hostedJob.status = "succeeded" =>
       EndedWell /\ hostedRun.at \in {"catch", "clean", "over", "dead"}
  /\ hostedRun.at = "over" => ~workdir

\* At first the job waits and no execution has begun.
LEMMA InitRunnerInv == RunnerInit => RunnerInv
<1> SUFFICES ASSUME RunnerInit PROVE RunnerInv
  OBVIOUS
<1>1. hostedJob \in Rows /\ hostedJob.status = "queued"
  BY DEF RunnerInit, Rows, Unfinished
<1>2. hostedRun \in Runs /\ hostedRun.at = "none"
  BY DEF RunnerInit, Runs, NoRunYet, RunSteps
<1> QED BY <1>1, <1>2 DEF RunnerInit, RunnerInv

\* Records with another field.
LEMMA RunUpdate ==
  ASSUME NEW r \in Runs, NEW place \in RunSteps
  PROVE  /\ [r EXCEPT !.at = place] \in Runs /\ [r EXCEPT !.at = place].at = place
         /\ [r EXCEPT !.at = place].by = r.by /\ [r EXCEPT !.at = place].exit = r.exit
         /\ [r EXCEPT !.at = place].timedOut = r.timedOut
         /\ [r EXCEPT !.at = place].cancelled = r.cancelled
         /\ [r EXCEPT !.at = place].stopping = r.stopping
         /\ [r EXCEPT !.at = place].verdict = r.verdict
         /\ [r EXCEPT !.at = place].threw = r.threw
BY DEF Runs

\* A row with another status.
LEMMA RowUpdate ==
  ASSUME NEW r \in Rows, NEW status \in Unfinished \union {"succeeded", "failed", "cancelled"}
  PROVE  /\ [r EXCEPT !.status = status] \in Rows /\ [r EXCEPT !.status = status].status = status
         /\ [r EXCEPT !.status = status].cancel = r.cancel
         /\ [r EXCEPT !.status = status].claimer = r.claimer
BY DEF Rows

\* What users, docker and the queue do: nobody else ends an execution well.
LEMMA OutsideKeeps ==
  ASSUME RunnerInv,
         \/ AskRunnerJobToStop \/ BoxStarts \/ BoxEnds \/ BoxExits
         \/ RunnerDies \/ RunnerStarts \/ (\E r \in Runners : ClaimAnalysisJob(r))
         \/ UNCHANGED runnerVars
  PROVE  RunnerInv'
<1> USE DEF RunnerInv, runVars, EndedWell
<1>1. CASE AskRunnerJobToStop
  <2>1. /\ hostedJob' =
             [hostedJob EXCEPT !.cancel = TRUE,
                               !.status = IF hostedJob.status = "running" THEN "running" ELSE "cancelled"]
        /\ hostedJob.status \in Unfinished /\ UNCHANGED <<hostedRun, workdir>>
    BY <1>1 DEF AskRunnerJobToStop
  <2>2. /\ hostedJob' \in Rows /\ hostedJob'.cancel /\ hostedJob'.claimer = hostedJob.claimer
        /\ hostedJob'.status = "running" \/ hostedJob'.status = "cancelled"
        /\ hostedJob'.status = "running" => hostedJob.status = "running"
    BY <2>1 DEF Rows, Unfinished
  <2>3. hostedJob'.status = "running" =>
          (hostedRun.threw \/ (hostedRun.verdict = "succeeded" /\ hostedJob.cancel)
             => hostedRun.threw \/ (hostedRun.verdict = "succeeded" /\ hostedJob'.cancel))
    BY <2>2
  <2> QED BY <2>1, <2>2, <2>3
<1>2. CASE BoxStarts \/ RunnerStarts \/ UNCHANGED runnerVars
  <2>1. UNCHANGED <<hostedJob, hostedRun>> /\ (hostedRun.at = "dead" \/ UNCHANGED workdir)
    BY <1>2 DEF BoxStarts, RunnerStarts, runnerVars
  <2> QED BY <2>1
<1>3. CASE BoxEnds \/ BoxExits
  <2>1. /\ UNCHANGED <<hostedJob, workdir>>
        /\ \/ UNCHANGED hostedRun
           \/ /\ hostedRun.at = "wait"
              /\ hostedRun' = [hostedRun EXCEPT !.at = "closed", !.exit = "nonzero"]
           \/ /\ hostedRun.at = "wait" /\ ~hostedRun.stopping
              /\ hostedRun' = [hostedRun EXCEPT !.at = "closed", !.exit = "zero"]
    BY <1>3 DEF BoxEnds, BoxExits
  <2>2. \A code \in {"zero", "nonzero"} :
          LET r == [hostedRun EXCEPT !.at = "closed", !.exit = code]
          IN  /\ r \in Runs /\ r.at = "closed" /\ r.exit = code /\ r.by = hostedRun.by
              /\ r.timedOut = hostedRun.timedOut /\ r.cancelled = hostedRun.cancelled
    BY DEF Runs, RunSteps
  <2>3. CASE UNCHANGED hostedRun
    BY <2>1, <2>3
  <2>4. CASE /\ hostedRun.at = "wait"
             /\ hostedRun' = [hostedRun EXCEPT !.at = "closed", !.exit = "nonzero"]
    BY <2>1, <2>2, <2>4
  <2>5. CASE /\ hostedRun.at = "wait" /\ ~hostedRun.stopping
             /\ hostedRun' = [hostedRun EXCEPT !.at = "closed", !.exit = "zero"]
    BY <2>1, <2>2, <2>5
  <2> QED BY <2>1, <2>3, <2>4, <2>5
<1>4. CASE RunnerDies
  <2>1. hostedRun' = [hostedRun EXCEPT !.at = "dead"] /\ UNCHANGED <<hostedJob, workdir>>
        /\ hostedRun.at # "none"
    BY <1>4 DEF RunnerDies, RunGoesTo
  <2>2. /\ hostedRun' \in Runs /\ hostedRun'.at = "dead" /\ hostedRun'.by = hostedRun.by
        /\ EndedWell => EndedWell'
    BY <2>1, RunUpdate DEF RunSteps
  <2> QED BY <2>1, <2>2
<1>5. ASSUME NEW r \in Runners, ClaimAnalysisJob(r) PROVE RunnerInv'
  <2>1. UNCHANGED workdir
    BY <1>5 DEF ClaimAnalysisJob
  <2>2. \/ /\ hostedJob' = [hostedJob EXCEPT !.status = "running", !.claimer = r]
           /\ hostedRun' = [NoRunYet EXCEPT !.at = "record", !.by = r]
        \/ /\ hostedJob' = [hostedJob EXCEPT !.status = "cancelled"] /\ UNCHANGED hostedRun
        \/ UNCHANGED <<hostedJob, hostedRun>>
    BY <1>5 DEF ClaimAnalysisJob
  <2>3. CASE /\ hostedJob' = [hostedJob EXCEPT !.status = "running", !.claimer = r]
             /\ hostedRun' = [NoRunYet EXCEPT !.at = "record", !.by = r]
    <3>1. hostedJob' \in Rows /\ hostedJob'.status = "running" /\ hostedJob'.claimer = r
      BY <2>3 DEF Rows, Unfinished
    <3>2. /\ hostedRun' \in Runs /\ hostedRun'.at = "record" /\ hostedRun'.by = r
          /\ ~hostedRun'.timedOut /\ ~hostedRun'.cancelled
      BY <2>3 DEF Runs, NoRunYet, RunSteps
    <3> QED BY <2>1, <3>1, <3>2
  <2>4. CASE hostedJob' = [hostedJob EXCEPT !.status = "cancelled"] /\ UNCHANGED hostedRun
    BY <2>1, <2>4, RowUpdate
  <2>5. CASE UNCHANGED <<hostedJob, hostedRun>>
    BY <2>1, <2>5
  <2> QED BY <2>2, <2>3, <2>4, <2>5
<1> QED BY <1>1, <1>2, <1>3, <1>4, <1>5

\* The steps of executeQueuedJob.
LEMMA RunnerStepKeeps == RunnerInv /\ RunnerStep => RunnerInv'
<1> SUFFICES ASSUME RunnerInv, RunnerStep PROVE RunnerInv'
  OBVIOUS
<1> USE DEF RunnerInv, EndedWell, RunGoesTo
<1> DEFINE Goes(place) == [hostedRun EXCEPT !.at = place]
           ThrowsAt(place) == [hostedRun EXCEPT !.at = place, !.threw = TRUE]
<1>0. /\ \A place \in RunSteps :
           /\ Goes(place) \in Runs /\ Goes(place).at = place /\ Goes(place).by = hostedRun.by
           /\ Goes(place).exit = hostedRun.exit /\ Goes(place).timedOut = hostedRun.timedOut
           /\ Goes(place).cancelled = hostedRun.cancelled /\ Goes(place).stopping = hostedRun.stopping
           /\ Goes(place).verdict = hostedRun.verdict /\ Goes(place).threw = hostedRun.threw
      /\ \A place \in RunSteps :
           /\ ThrowsAt(place) \in Runs /\ ThrowsAt(place).at = place /\ ThrowsAt(place).by = hostedRun.by
           /\ ThrowsAt(place).exit = hostedRun.exit /\ ThrowsAt(place).timedOut = hostedRun.timedOut
           /\ ThrowsAt(place).cancelled = hostedRun.cancelled /\ ThrowsAt(place).threw
  BY DEF Runs
<1>1. CASE ReadRecord
  <2>1. /\ hostedRun.at = "record" /\ UNCHANGED workdir
        /\ \/ hostedRun' = Goes("prepare") /\ UNCHANGED hostedJob
           \/ /\ hostedRun' = Goes("clean")
              /\ \/ hostedJob' = [hostedJob EXCEPT !.status = "failed"]
                 \/ hostedJob.status # "running" /\ UNCHANGED hostedJob
           \/ hostedRun' = ThrowsAt("clean") /\ UNCHANGED hostedJob
    BY <1>1 DEF ReadRecord
  <2> HIDE DEF Goes, ThrowsAt
  <2>2. /\ hostedRun' \in Runs /\ hostedRun'.at \in {"prepare", "clean"}
        /\ hostedRun'.by = hostedRun.by
        /\ hostedRun'.at = "clean" => hostedRun'.threw \/ hostedJob'.status # "running"
        /\ hostedRun'.timedOut \/ hostedRun'.cancelled =>
             hostedRun'.at = "clean" \/ hostedRun'.stopping
    <3>1. CASE hostedRun' = Goes("prepare")
      BY <1>0, <2>1, <3>1 DEF RunSteps
    <3>2. CASE /\ hostedRun' = Goes("clean")
               /\ \/ hostedJob' = [hostedJob EXCEPT !.status = "failed"]
                  \/ hostedJob.status # "running" /\ UNCHANGED hostedJob
      <4>1. hostedJob'.status # "running"
        BY <3>2, RowUpdate DEF Unfinished
      <4> QED BY <1>0, <3>2, <4>1 DEF RunSteps
    <3>3. CASE hostedRun' = ThrowsAt("clean")
      BY <1>0, <3>3 DEF RunSteps
    <3> QED BY <2>1, <3>1, <3>2, <3>3
  <2>3. /\ hostedJob' \in Rows /\ hostedJob'.claimer = hostedJob.claimer
        /\ hostedJob'.status = hostedJob.status \/ hostedJob'.status = "failed"
    <3>1. CASE UNCHANGED hostedJob
      BY <3>1
    <3>2. CASE hostedJob' = [hostedJob EXCEPT !.status = "failed"]
      <4>1. "failed" \in Unfinished \union {"succeeded", "failed", "cancelled"}
        OBVIOUS
      <4> QED BY <3>2, <4>1, RowUpdate
    <3> QED BY <2>1, <3>1, <3>2
  <2> QED BY <2>1, <2>2, <2>3
<1>2. CASE PrepareRun \/ SpawnBox
  <2>1. /\ hostedRun.at \in {"prepare", "spawn"} /\ UNCHANGED hostedJob
        /\ hostedRun' \in {Goes("spawn"), Goes("wait"), Goes("catch")}
    BY <1>2 DEF PrepareRun, SpawnBox
  <2> HIDE DEF Goes, ThrowsAt
  <2>2. /\ hostedRun' \in Runs /\ hostedRun'.at \in {"spawn", "wait", "catch"}
        /\ hostedRun'.by = hostedRun.by
        /\ hostedRun'.timedOut \/ hostedRun'.cancelled => hostedRun'.stopping
    BY <1>0, <2>1 DEF RunSteps
  <2> QED BY <2>1, <2>2
<1>3. CASE BoxTimesOut \/ BoxIsCancelled
  <2>1. /\ hostedRun.at = "wait" /\ UNCHANGED <<hostedJob, workdir>>
        /\ \/ hostedRun' = [hostedRun EXCEPT !.timedOut = TRUE, !.stopping = TRUE]
           \/ hostedRun' = [hostedRun EXCEPT !.cancelled = TRUE, !.stopping = TRUE]
    BY <1>3 DEF BoxTimesOut, BoxIsCancelled
  <2>2. hostedRun' \in Runs /\ hostedRun'.at = "wait" /\ hostedRun'.by = hostedRun.by /\ hostedRun'.stopping
    BY <2>1 DEF Runs
  <2> QED BY <2>1, <2>2
<1>4. CASE KillBox
  <2>1. /\ hostedRun.at = "wait" /\ UNCHANGED <<hostedJob, workdir>>
        /\ hostedRun' = [hostedRun EXCEPT !.at = "closed", !.exit = "nonzero"]
    BY <1>4 DEF KillBox
  <2>2. /\ hostedRun' \in Runs /\ hostedRun'.at = "closed" /\ hostedRun'.by = hostedRun.by
        /\ hostedRun'.exit = "nonzero"
    BY <2>1 DEF Runs, RunSteps
  <2> QED BY <2>1, <2>2
<1>5. CASE Judge
  <2> DEFINE v == CASE hostedRun.cancelled \/ hostedJob.cancel -> "cancelled"
                    [] ~(hostedRun.cancelled \/ hostedJob.cancel)
                       /\ (hostedRun.timedOut \/ hostedRun.exit # "zero") -> "failed"
                    [] OTHER -> "succeeded"
             Judged == [hostedRun EXCEPT !.at = "finalize", !.verdict = v]
  <2>1. /\ hostedRun.at = "closed" /\ UNCHANGED <<hostedJob, workdir>>
        /\ hostedRun' = Judged \/ hostedRun' = Goes("catch")
    BY <1>5 DEF Judge
  <2>2. /\ v \in {"succeeded", "failed", "cancelled"}
        /\ v = "succeeded" => hostedRun.exit = "zero"
    OBVIOUS
  <2> HIDE DEF v
  <2>3. /\ Judged \in Runs /\ Judged.at = "finalize" /\ Judged.by = hostedRun.by
        /\ Judged.verdict = v
        /\ Judged.exit = hostedRun.exit /\ Judged.timedOut = hostedRun.timedOut
        /\ Judged.cancelled = hostedRun.cancelled
    BY <2>2 DEF Runs, RunSteps
  <2> HIDE DEF Judged, Goes
  <2>4. CASE hostedRun' = Judged
    BY <2>1, <2>2, <2>3, <2>4
  <2>5. CASE hostedRun' = Goes("catch")
    BY <1>0, <2>1, <2>5 DEF RunSteps
  <2> QED BY <2>1, <2>4, <2>5
<1>6. /\ RowAfter("failed") \in Rows /\ RowAfter("failed").status \notin Unfinished
      /\ hostedRun.at # "none" /\ RowAfter("failed").status = "succeeded" =>
           hostedJob.status = "succeeded"
  BY RowUpdate DEF RowAfter, Rows, Unfinished
<1>7. CASE FinalizeRun
  <2> DEFINE row == RowAfter(hostedRun.verdict)
  <2>1. /\ hostedRun.at = "finalize" /\ UNCHANGED workdir
        /\ \/ hostedJob' = row /\ hostedRun' = Goes("clean")
           \/ hostedJob' \in {hostedJob, row} /\ hostedRun' = Goes("catch")
    BY <1>7 DEF FinalizeRun
  <2>2. /\ row \in Rows /\ row.claimer = hostedJob.claimer /\ row.cancel = hostedJob.cancel
        /\ row.status \notin {"pending", "queued"}
        /\ row.status = "running" => hostedRun.verdict = "succeeded" /\ row.cancel
        /\ row.status = "succeeded" => hostedJob.status = "succeeded" \/ hostedRun.verdict = "succeeded"
    BY <2>1, RowUpdate DEF RowAfter, Unfinished, Rows, Runs
  <2> HIDE DEF row, Goes, ThrowsAt
  <2>3. /\ hostedRun' \in Runs /\ hostedRun'.at \in {"clean", "catch"} /\ hostedRun'.by = hostedRun.by
        /\ hostedRun'.verdict = hostedRun.verdict /\ (EndedWell => EndedWell')
        /\ hostedRun'.at = "clean" => hostedJob' = row
    BY <1>0, <2>1 DEF RunSteps
  <2>4. hostedJob' = row \/ hostedJob' = hostedJob
    BY <2>1
  <2>5. hostedJob' \in Rows /\ hostedJob'.claimer = hostedJob.claimer
    BY <2>2, <2>4
  <2>6. /\ hostedJob'.status \notin {"pending", "queued"}
        /\ hostedJob'.status = "succeeded" => EndedWell
    BY <2>1, <2>2, <2>4
  <2>7. hostedJob'.status = "running" => hostedJob.status = "running"
        <3>1. row.status = "running" => hostedJob.status = "running"
      BY <2>1, RowUpdate DEF row, RowAfter, Rows, Runs, Unfinished
    <3> QED BY <2>4, <3>1
  <2>8. hostedRun'.at = "clean" /\ hostedJob'.status = "running" =>
          hostedRun'.verdict = "succeeded" /\ hostedJob'.cancel
    BY <2>2, <2>3
  <2> QED BY <2>1, <2>3, <2>5, <2>6, <2>7, <2>8
<1>8. CASE CatchRun
  <2>1. /\ hostedRun.at = "catch" /\ UNCHANGED workdir
        /\ \/ hostedJob' = RowAfter("failed") /\ hostedRun' = Goes("clean")
           \/ UNCHANGED hostedJob /\ hostedRun' = ThrowsAt("clean")
    BY <1>8 DEF CatchRun
  <2> HIDE DEF Goes, ThrowsAt
  <2>2. CASE hostedJob' = RowAfter("failed") /\ hostedRun' = Goes("clean")
    BY <1>0, <1>6, <2>1, <2>2 DEF RunSteps, Unfinished
  <2>3. CASE UNCHANGED hostedJob /\ hostedRun' = ThrowsAt("clean")
    BY <1>0, <2>1, <2>3 DEF RunSteps
  <2> QED BY <2>1, <2>2, <2>3
<1>9. CASE CleanRun
  <2>1. /\ hostedRun.at = "clean" /\ UNCHANGED hostedJob /\ ~workdir'
        /\ hostedRun' = Goes("over")
    BY <1>9 DEF CleanRun
  <2> HIDE DEF Goes, ThrowsAt
  <2> QED BY <1>0, <2>1 DEF RunSteps
<1> QED BY <1>1, <1>2, <1>3, <1>4, <1>5, <1>7, <1>8, <1>9 DEF RunnerStep

\* Every step of the runner plane keeps the invariant.
LEMMA NextRunnerInv == RunnerInv /\ [RunnerNext]_runnerVars => RunnerInv'
BY OutsideKeeps, RunnerStepKeeps DEF RunnerNext

\* The runner plane keeps its inductive invariant, for every set of runners and every number
\* of deliveries and faults.
THEOREM RunnerInvariant == RunnerSpec => []RunnerInv
BY InitRunnerInv, NextRunnerInv, PTL DEF RunnerSpec

\* RunnerJobIsAccounted: a job is left running by an execution that has returned only after
\* a cancellation nobody looked at, or a failure path that threw; only a container that
\* exited by itself with code 0 makes it succeed; and the directory is removed.
THEOREM RunnerJobsAreAccounted == RunnerSpec => []RunnerJobIsAccounted
<1>1. RunnerInv => RunnerJobIsAccounted
  BY DEF RunnerInv, EndedWell, RunnerJobIsAccounted
<1> QED BY <1>1, RunnerInvariant, PTL

\* The message, and all that RunnerInv does not speak of.
Letters == [is : {"ready", "taken", "done"}, left : 0 .. MaxDeliveries]
RunnerRest ==
  /\ letter \in Letters /\ box \in {"none", "created", "running", "left"} /\ workdir \in BOOLEAN
  /\ runnerFaults \in 0 .. MaxRunnerFaults

\* Every step of the runner plane keeps them.
LEMMA RunnerRestKeeps == RunnerRest /\ [RunnerNext]_runnerVars => RunnerRest'
<1> SUFFICES ASSUME RunnerRest, [RunnerNext]_runnerVars PROVE RunnerRest'
  OBVIOUS
<1> USE DEF RunnerRest
<1>1. RunnerFault => runnerFaults' \in 0 .. MaxRunnerFaults
  BY RunnerAssumption DEF RunnerFault
<1>2. ASSUME NEW is \in {"ready", "taken", "done"} PROVE [letter EXCEPT !.is = is] \in Letters
  BY DEF Letters
<1>3. CASE \E r \in Runners : ClaimAnalysisJob(r)
  <2>1. letter' = [is |-> "taken", left |-> letter.left - 1] \/ letter' = [is |-> "done", left |-> letter.left - 1]
    BY <1>3 DEF ClaimAnalysisJob
  <2>2. letter.left - 1 \in 0 .. MaxDeliveries
    BY <1>3, RunnerAssumption DEF ClaimAnalysisJob, Letters
  <2>3. letter' \in Letters
    BY <2>1, <2>2 DEF Letters
  <2> QED BY <1>3, <2>3 DEF ClaimAnalysisJob
<1>4. CASE AskRunnerJobToStop \/ BoxStarts \/ BoxEnds \/ BoxExits
  BY <1>4 DEF AskRunnerJobToStop, BoxStarts, BoxEnds, BoxExits, runVars
<1>5. CASE RunnerStep
  <2>1. CASE CleanRun
    <3>1. letter' \in Letters
      BY <1>2, <2>1 DEF CleanRun
    <3> QED BY <2>1, <3>1 DEF CleanRun
  <2>2. CASE ReadRecord \/ PrepareRun \/ SpawnBox \/ BoxTimesOut \/ BoxIsCancelled
    BY <1>1, <2>2 DEF ReadRecord, PrepareRun, SpawnBox, BoxTimesOut, BoxIsCancelled
  <2>3. CASE KillBox \/ Judge \/ FinalizeRun \/ CatchRun
    BY <1>1, <2>3 DEF KillBox, Judge, FinalizeRun, CatchRun
  <2> QED BY <1>5, <2>1, <2>2, <2>3 DEF RunnerStep
<1>6. CASE RunnerDies
  <2>1. letter' \in Letters
    BY <1>2, <1>6 DEF RunnerDies
  <2> QED BY <1>1, <1>6, <2>1 DEF RunnerDies
<1>7. CASE RunnerStarts
  BY <1>7 DEF RunnerStarts
<1>8. CASE UNCHANGED runnerVars
  BY <1>8 DEF runnerVars
<1> QED BY <1>3, <1>4, <1>5, <1>6, <1>7, <1>8 DEF RunnerNext

\* RunnerType: what the inductive invariant leaves out of it is inductive beside it.
THEOREM RunnerTypes == RunnerSpec => []RunnerType
<1>1. ASSUME RunnerInit PROVE RunnerRest
  <2>1. MaxDeliveries \in 0 .. MaxDeliveries /\ 0 \in 0 .. MaxRunnerFaults
    BY RunnerAssumption
  <2>2. letter \in Letters
    BY <1>1, <2>1 DEF RunnerInit, Letters
  <2> QED BY <1>1, <2>1, <2>2 DEF RunnerInit, RunnerRest
<1>2. RunnerInv /\ RunnerRest => RunnerType
  BY DEF RunnerInv, RunnerRest, Letters, Rows, Runs, RunnerType
<1> QED BY <1>1, <1>2, RunnerRestKeeps, RunnerInvariant, PTL DEF RunnerSpec

-----------------------------------------------------------------------------
(* The code review cache *)

\* The API processes on one cache entry.
CacheSpec == CacheInit /\ [][CacheNext]_cacheVars

\* Where a task may be.
Places == {"locking", "breaking", "looking", "filling", "fetching", "touching", "served"}
\* Tasks that run.
TaskRecords == [of : Tasks, at : Places]
\* Locks that somebody made.
LockRecords == [by : Servers, stale : BOOLEAN]
\* What the lock's directory may be.
LockInv == lock \in LockRecords \union {NoLock}
\* What the disk may have of the entry.
CacheEntries ==
  [is : {"missing", "empty", "partial", "whole"}, mirror : BOOLEAN, due : BOOLEAN, old : BOOLEAN]

\* A task inside has made the lock, and nobody sweeps; what it goes by is still there when
\* it uses it, and what it fills nobody has been given.
LoneTask ==
  /\ \A s \in Inside : lock # NoLock /\ lock.by = s
  /\ Inside = {} \/ sweeping = {}
  /\ entry.is = "partial" => \E s \in Servers : task[s].at = "filling"
  /\ entry.mirror => entry.is # "empty"
  /\ \A s \in Servers : task[s].at = "filling" => entry.is # "whole"
  /\ \A s \in Servers : task[s].at \in {"touching", "fetching"} => entry.is = "whole"
  /\ \A s \in Servers : task[s].at = "fetching" /\ task[s].of = "fill" => ~ entry.old
  /\ \A s \in Servers : task[s].at = "served" => entry.is = "whole" /\ ~ entry.old

\* The rows have their types, and what LoneTask says holds until something disturbs it.
CacheInv ==
  /\ entry \in CacheEntries
  /\ task \in [Servers -> TaskRecords \union {NoTask}]
  /\ ~ disturbed => LoneTask

\* At first nothing is cached, and no task is inside.
LEMMA InitCacheInv == CacheInit => CacheInv
<1> SUFFICES ASSUME CacheInit PROVE CacheInv
  OBVIOUS
<1>1. entry \in CacheEntries /\ entry.is = "missing"
  BY DEF CacheInit, CacheEntries
<1>2. task \in [Servers -> TaskRecords \union {NoTask}] /\ \A s \in Servers : task[s].at = "idle"
  BY DEF CacheInit, NoTask
<1> QED BY <1>1, <1>2 DEF CacheInit, CacheInv, LoneTask, Inside

\* A task that is not idle, and where it goes.
LEMMA TaskGoes ==
  ASSUME CacheInv, NEW s \in Servers, task[s].at # "idle", NEW place \in Places, GoTo(s, place)
  PROVE  /\ task[s] \in TaskRecords
         /\ task' \in [Servers -> TaskRecords \union {NoTask}]
         /\ task'[s].at = place /\ task'[s].of = task[s].of
         /\ \A r \in Servers \ {s} : task'[r] = task[r]
<1>1. task[s] \in TaskRecords
  BY DEF CacheInv, NoTask
<1>2. [task[s] EXCEPT !.at = place] \in TaskRecords /\ [task[s] EXCEPT !.at = place].at = place
      /\ [task[s] EXCEPT !.at = place].of = task[s].of
  BY <1>1 DEF TaskRecords
<1> QED BY <1>1, <1>2 DEF CacheInv, GoTo

\* A task that becomes another one.
LEMMA TaskBecomes ==
  ASSUME CacheInv, NEW s \in Servers, NEW r \in TaskRecords \union {NoTask},
         task' = [task EXCEPT ![s] = r]
  PROVE  /\ task' \in [Servers -> TaskRecords \union {NoTask}]
         /\ task'[s] = r
         /\ \A q \in Servers \ {s} : task'[q] = task[q]
BY DEF CacheInv

\* An entry with something else on disk, touched or not.
LEMMA EntryUpdate ==
  ASSUME NEW e \in CacheEntries, NEW is \in {"missing", "empty", "partial", "whole"}
  PROVE  /\ [e EXCEPT !.is = is] \in CacheEntries /\ [e EXCEPT !.is = is].is = is
         /\ [e EXCEPT !.is = is].mirror = e.mirror /\ [e EXCEPT !.is = is].old = e.old
         /\ [e EXCEPT !.is = is, !.old = FALSE] \in CacheEntries
         /\ [e EXCEPT !.is = is, !.old = FALSE].is = is
         /\ [e EXCEPT !.is = is, !.old = FALSE].mirror = e.mirror
         /\ ~ [e EXCEPT !.is = is, !.old = FALSE].old
BY DEF CacheEntries

\* An entry that is due for a refresh, or no longer.
LEMMA EntryIsDue ==
  ASSUME NEW e \in CacheEntries, NEW due \in BOOLEAN
  PROVE  /\ [e EXCEPT !.due = due] \in CacheEntries /\ [e EXCEPT !.due = due].is = e.is
         /\ [e EXCEPT !.due = due].mirror = e.mirror /\ [e EXCEPT !.due = due].old = e.old
BY DEF CacheEntries

\* The lock: a task comes in only where no task is, and nobody breaks the lock of one.
LEMMA LockStepsKeep ==
  ASSUME CacheInv, NEW s \in Servers, LockStep(s)
  PROVE  CacheInv'
<1> USE DEF LoneTask, Inside
<1>1. ASSUME NEW t \in {"ready", "fill"}, Ask(s, t) PROVE CacheInv'
  <2>1. [of |-> t, at |-> "locking"] \in TaskRecords
    BY DEF TaskRecords, Tasks, Places
  <2>2. /\ task' \in [Servers -> TaskRecords \union {NoTask}] /\ task'[s].at = "locking"
        /\ \A q \in Servers \ {s} : task'[q] = task[q]
        /\ task[s].at = "idle"
    <3>1. task' = [task EXCEPT ![s] = [of |-> t, at |-> "locking"]] /\ task[s] = NoTask
      BY <1>1 DEF Ask
    <3> DEFINE new == [of |-> t, at |-> "locking"]
    <3>2. new.at = "locking" /\ new \in TaskRecords \union {NoTask}
      BY <2>1
    <3> HIDE DEF new
    <3>3. task' = [task EXCEPT ![s] = new]
      BY <3>1 DEF new
    <3>4. NoTask.at = "idle"
      BY DEF NoTask
    <3>5. /\ task' \in [Servers -> TaskRecords \union {NoTask}] /\ task'[s] = new
          /\ \A q \in Servers \ {s} : task'[q] = task[q]
      BY <3>2, <3>3, TaskBecomes
    <3> QED BY <3>1, <3>2, <3>4, <3>5
  <2>3. UNCHANGED <<entry, lock, sweeping, disturbed>>
    BY <1>1 DEF Ask
  <2> QED BY <2>2, <2>3 DEF CacheInv
<1>2. CASE Acquire(s)
  <2>1. /\ task[s].at = "locking" /\ GoTo(s, "looking") /\ lock = NoLock
        /\ lock' = [by |-> s, stale |-> FALSE] /\ UNCHANGED <<entry, sweeping>>
        /\ disturbed' = (disturbed \/ sweeping # {})
    BY <1>2 DEF Acquire
  <2>2. /\ task' \in [Servers -> TaskRecords \union {NoTask}] /\ task'[s].at = "looking"
        /\ \A q \in Servers \ {s} : task'[q] = task[q]
    BY <2>1, TaskGoes DEF Places
  <2>3. ~ disturbed' => ~ disturbed /\ sweeping = {}
    BY <2>1
  <2>4. lock' # NoLock /\ lock'.by = s
    BY <2>1, CacheAssumption DEF NoLock
  <2>5. ~ disturbed' => LoneTask'
    BY <2>1, <2>2, <2>3, <2>4 DEF CacheInv
  <2> QED BY <2>1, <2>2, <2>5 DEF CacheInv
<1>3. CASE Wait(s)
  <2>1. /\ task[s].at = "locking" /\ UNCHANGED <<entry, lock, sweeping, disturbed>>
        /\ GoTo(s, "breaking") \/ task' = [task EXCEPT ![s] = NoTask]
    BY <1>3 DEF Wait
  <2>2. /\ task' \in [Servers -> TaskRecords \union {NoTask}]
        /\ task'[s].at \in {"breaking", "idle"}
        /\ \A q \in Servers \ {s} : task'[q] = task[q]
    <3>1. CASE GoTo(s, "breaking")
      BY <2>1, <3>1, TaskGoes DEF Places
    <3>2. CASE task' = [task EXCEPT ![s] = NoTask]
      <4>1. NoTask.at = "idle" /\ NoTask \in TaskRecords \union {NoTask}
        BY DEF NoTask
      <4> QED BY <3>2, <4>1, TaskBecomes
    <3> QED BY <2>1, <3>1, <3>2
  <2> QED BY <2>1, <2>2 DEF CacheInv
<1>4. CASE BreakLock(s)
  <2>1. /\ task[s].at = "breaking" /\ GoTo(s, "locking")
        /\ UNCHANGED <<entry, sweeping>>
        /\ disturbed' = (disturbed \/ Inside # {})
    BY <1>4 DEF BreakLock
  <2>2. /\ task' \in [Servers -> TaskRecords \union {NoTask}] /\ task'[s].at = "locking"
        /\ \A q \in Servers \ {s} : task'[q] = task[q]
    BY <2>1, TaskGoes DEF Places
  <2>3. ~ disturbed' => ~ disturbed /\ Inside = {}
    BY <2>1
  <2>4. ~ disturbed' => LoneTask'
    BY <2>1, <2>2, <2>3 DEF CacheInv
  <2> QED BY <2>1, <2>2, <2>4 DEF CacheInv
<1> QED BY <1>1, <1>2, <1>3, <1>4 DEF LockStep

\* A task inside is alone, and what it finds usable is whole.
LEMMA AloneInside ==
  ASSUME CacheInv, ~ disturbed, NEW s \in Servers,
         task[s].at \in {"looking", "filling", "fetching", "touching"}
  PROVE  /\ sweeping = {} /\ task[s].at # "idle"
         /\ \A q \in Servers \ {s} :
              task[q].at \notin {"looking", "filling", "fetching", "touching"}
         /\ task[s].at = "looking" /\ Usable => entry.is = "whole"
<1>1. s \in Inside /\ sweeping = {}
  BY DEF Inside, CacheInv, LoneTask
<1>2. \A q \in Servers \ {s} : task[q].at \notin {"looking", "filling", "fetching", "touching"}
  BY <1>1 DEF Inside, CacheInv, LoneTask
<1>3. task[s].at = "looking" => entry.is # "partial"
  BY <1>2 DEF CacheInv, LoneTask
<1> QED BY <1>1, <1>2, <1>3 DEF CacheInv, LoneTask, Usable, CacheEntries

\* A task that leaves, and what it leaves.
LEMMA LeavesAlone ==
  ASSUME CacheInv, ~ disturbed, NEW s \in Servers,
         task[s].at \in {"looking", "filling", "fetching", "touching"},
         NEW next \in TaskRecords \union {NoTask}, next.at \in {"idle", "served", "locking"},
         Leave(s, next), UNCHANGED sweeping,
         entry'.is \notin {"partial"}, entry'.mirror => entry'.is # "empty",
         next.at = "served" => entry'.is = "whole" /\ ~ entry'.old,
         \A q \in Servers : task[q].at = "served" => entry'.is = "whole" /\ ~ entry'.old
  PROVE  LoneTask'
<1>1. /\ task'[s] = next /\ \A q \in Servers \ {s} : task'[q] = task[q]
  BY TaskBecomes DEF Leave
<1>2. \A q \in Servers : task'[q].at \notin {"looking", "filling", "fetching", "touching"}
  BY <1>1, AloneInside
<1>3. Inside' = {}
  BY <1>2 DEF Inside
<1> QED BY <1>1, <1>2, <1>3 DEF LoneTask

\* A task that stays inside and goes on.
LEMMA GoesOnAlone ==
  ASSUME CacheInv, ~ disturbed, NEW s \in Servers,
         task[s].at \in {"looking", "filling", "fetching", "touching"},
         NEW place \in {"filling", "fetching", "touching"}, GoTo(s, place),
         UNCHANGED <<lock, sweeping>>,
         entry'.mirror => entry'.is # "empty",
         place = "filling" => entry'.is # "whole",
         place \in {"touching", "fetching"} => entry'.is = "whole",
         place = "fetching" /\ task[s].of = "fill" => ~ entry'.old,
         \A q \in Servers : task[q].at = "served" => entry'.is = "whole" /\ ~ entry'.old
  PROVE  LoneTask'
<1>1. /\ task'[s].at = place /\ task'[s].of = task[s].of
      /\ \A q \in Servers \ {s} : task'[q] = task[q]
  BY TaskGoes, AloneInside DEF Places
<1>2. \A q \in Servers \ {s} :
        task'[q].at \notin {"looking", "filling", "fetching", "touching"}
  BY <1>1, AloneInside
<1>3. \A q \in Inside' : q = s
  BY <1>2 DEF Inside
<1>4. lock' # NoLock /\ lock'.by = s /\ sweeping' = {}
  BY AloneInside DEF Inside, CacheInv, LoneTask
<1>5. entry'.is = "partial" => place = "filling"
  OBVIOUS
<1> QED BY <1>1, <1>2, <1>3, <1>4, <1>5 DEF LoneTask

\* Where a task of its kind goes next is a record of tasks.
LEMMA NextTasks ==
  ASSUME CacheInv, NEW s \in Servers, task[s].at # "idle"
  PROVE  /\ Served(s) \in TaskRecords \union {NoTask} /\ Served(s).at = "served"
         /\ [of |-> "refresh", at |-> "locking"] \in TaskRecords \union {NoTask}
         /\ NoTask \in TaskRecords \union {NoTask} /\ NoTask.at = "idle"
<1>1. task[s] \in TaskRecords
  BY DEF CacheInv, NoTask
<1> QED BY <1>1 DEF Served, TaskRecords, Tasks, Places, NoTask

\* A task that looks finds the entry unusable, or whole.
LEMMA LooksKeep ==
  ASSUME CacheInv, NEW s \in Servers, LookAndMiss(s) \/ LookAndUse(s)
  PROVE  CacheInv'
<1>1. task[s].at = "looking" /\ UNCHANGED <<sweeping, disturbed>>
  BY DEF LookAndMiss, LookAndUse
<1>2. CASE LookAndMiss(s)
  <2>1. /\ ~ Usable
        /\ \/ /\ GoTo(s, "filling") /\ UNCHANGED lock
              /\ entry' = [entry EXCEPT !.is = IF entry.mirror THEN entry.is ELSE "empty"]
           \/ Leave(s, NoTask) /\ UNCHANGED entry
    BY <1>2 DEF LookAndMiss
  <2> DEFINE is == IF entry.mirror THEN entry.is ELSE "empty"
  <2>2. /\ is \in {"missing", "empty", "partial", "whole"} /\ is \notin {"whole", "partial"}
        /\ entry.is \notin {"whole", "partial"}
    BY <2>1 DEF Usable, CacheInv, CacheEntries
  <2>3. entry.mirror => entry.is = "missing"
    BY <2>1 DEF Usable
  <2>4. CASE Leave(s, NoTask) /\ UNCHANGED entry
    <3>1. task' \in [Servers -> TaskRecords \union {NoTask}]
      BY <1>1, <2>4, TaskBecomes DEF Leave
    <3>2. ~ disturbed => LoneTask'
      <4> SUFFICES ASSUME ~ disturbed PROVE LoneTask'
        OBVIOUS
      <4>1. NoTask.at = "idle"
        BY DEF NoTask
      <4>2. \A q \in Servers : task[q].at = "served" => entry'.is = "whole" /\ ~ entry'.old
        BY <2>4 DEF CacheInv, LoneTask
      <4> QED BY <1>1, <2>2, <2>3, <2>4, <4>1, <4>2, LeavesAlone
    <3> QED BY <1>1, <2>4, <3>1, <3>2 DEF CacheInv
  <2>5. CASE GoTo(s, "filling") /\ UNCHANGED lock /\ entry' = [entry EXCEPT !.is = is]
    <3> HIDE DEF is
    <3>1. task' \in [Servers -> TaskRecords \union {NoTask}]
      BY <1>1, <2>5, TaskGoes DEF Places
    <3>2. entry' \in CacheEntries /\ entry'.is = is /\ entry'.mirror = entry.mirror /\ entry'.old = entry.old
      BY <2>2, <2>5, EntryUpdate DEF CacheInv
    <3>3. ~ disturbed => LoneTask'
      <4> SUFFICES ASSUME ~ disturbed PROVE LoneTask'
        OBVIOUS
      <4>1. \A q \in Servers : task[q].at # "served"
        BY <2>2 DEF CacheInv, LoneTask
      <4>2. entry'.mirror => entry'.is # "empty"
        BY <2>3, <3>2 DEF is
      <4> QED BY <1>1, <2>2, <2>5, <3>2, <4>1, <4>2, GoesOnAlone
    <3> QED BY <1>1, <3>1, <3>2, <3>3 DEF CacheInv
  <2> QED BY <2>1, <2>4, <2>5
<1>3. CASE LookAndUse(s)
  <2>1. /\ Usable /\ UNCHANGED entry
        /\ \/ GoTo(s, "touching") /\ UNCHANGED lock
           \/ GoTo(s, "fetching") /\ task[s].of = "refresh" /\ UNCHANGED lock
           \/ Leave(s, NoTask)
    BY <1>3 DEF LookAndUse
  <2>2. task' \in [Servers -> TaskRecords \union {NoTask}]
    <3>1. CASE Leave(s, NoTask)
      BY <3>1, TaskBecomes DEF Leave
    <3> QED BY <1>1, <2>1, <3>1, TaskGoes DEF Places
  <2>3. ~ disturbed => LoneTask'
    <3> SUFFICES ASSUME ~ disturbed PROVE LoneTask'
      OBVIOUS
    <3>1. /\ entry'.is = "whole" /\ (entry'.mirror => entry'.is # "empty")
          /\ \A q \in Servers : task[q].at = "served" => entry'.is = "whole" /\ ~ entry'.old
      BY <1>1, <2>1, AloneInside DEF CacheInv, LoneTask
    <3>2. CASE Leave(s, NoTask)
      <4>1. NoTask.at = "idle"
        BY DEF NoTask
      <4> QED BY <1>1, <3>1, <3>2, <4>1, LeavesAlone
    <3>3. CASE GoTo(s, "touching") /\ UNCHANGED lock
      BY <1>1, <3>1, <3>3, GoesOnAlone
    <3>4. CASE GoTo(s, "fetching") /\ task[s].of = "refresh" /\ UNCHANGED lock
      BY <1>1, <3>1, <3>4, GoesOnAlone
    <3> QED BY <2>1, <3>2, <3>3, <3>4
  <2> QED BY <1>1, <2>1, <2>2, <2>3 DEF CacheInv
<1> QED BY <1>2, <1>3

\* The entry that is touched or fetched is whole, so that it can be handed out.
LEMMA UsesKeep ==
  ASSUME CacheInv, NEW s \in Servers, Touch(s) \/ FetchEnds(s)
  PROVE  CacheInv'
<1>1. CASE Touch(s)
  <2> DEFINE is == IF entry.is = "missing" THEN "empty" ELSE entry.is
  <2>1. /\ task[s].at = "touching" /\ UNCHANGED <<sweeping, disturbed>>
        /\ entry' = [entry EXCEPT !.is = is, !.old = FALSE]
        /\ \/ Leave(s, Served(s))
           \/ GoTo(s, "fetching") /\ UNCHANGED lock
           \/ Leave(s, [of |-> "refresh", at |-> "locking"])
    BY <1>1 DEF Touch
  <2>2. is \in {"missing", "empty", "partial", "whole"} /\ (entry.is = "whole" => is = "whole")
    BY DEF CacheInv, CacheEntries
  <2> HIDE DEF is
  <2>3. entry' \in CacheEntries /\ entry'.is = is /\ entry'.mirror = entry.mirror /\ ~ entry'.old
    BY <2>1, <2>2, EntryUpdate DEF CacheInv
  <2>4. /\ Served(s) \in TaskRecords \union {NoTask} /\ Served(s).at = "served"
        /\ [of |-> "refresh", at |-> "locking"] \in TaskRecords \union {NoTask}
    BY <2>1, NextTasks
  <2>5. task' \in [Servers -> TaskRecords \union {NoTask}]
    <3>1. CASE GoTo(s, "fetching")
      BY <2>1, <3>1, TaskGoes DEF Places
    <3>2. CASE Leave(s, Served(s))
      BY <2>4, <3>2, TaskBecomes DEF Leave
    <3>3. CASE Leave(s, [of |-> "refresh", at |-> "locking"])
      BY <2>4, <3>3, TaskBecomes DEF Leave
    <3> QED BY <2>1, <3>1, <3>2, <3>3
  <2>6. ~ disturbed => LoneTask'
    <3> SUFFICES ASSUME ~ disturbed PROVE LoneTask'
      OBVIOUS
    <3>1. entry'.is = "whole" /\ ~ entry'.old
      BY <2>1, <2>2, <2>3 DEF CacheInv, LoneTask
    <3>2. CASE GoTo(s, "fetching") /\ UNCHANGED lock
      BY <2>1, <3>1, <3>2, GoesOnAlone
    <3>3. CASE Leave(s, Served(s))
      BY <2>1, <2>4, <3>1, <3>3, LeavesAlone
    <3>4. CASE Leave(s, [of |-> "refresh", at |-> "locking"])
      <4> DEFINE next == [of |-> "refresh", at |-> "locking"]
      <4>1. next.at = "locking" /\ next \in TaskRecords \union {NoTask} /\ Leave(s, next)
        BY <2>4, <3>4
      <4> HIDE DEF next
      <4> QED BY <2>1, <3>1, <4>1, LeavesAlone
    <3> QED BY <2>1, <3>2, <3>3, <3>4
  <2> QED BY <2>1, <2>3, <2>5, <2>6 DEF CacheInv
<1>2. CASE FetchEnds(s)
  <2>1. /\ task[s].at = "fetching" /\ UNCHANGED <<sweeping, disturbed>>
        /\ \/ /\ entry' = [entry EXCEPT !.due = FALSE]
              /\ Leave(s, IF task[s].of = "fill" THEN Served(s) ELSE NoTask)
           \/ UNCHANGED entry /\ Leave(s, NoTask)
    BY <1>2 DEF FetchEnds
  <2>2. /\ entry' \in CacheEntries /\ entry'.is = entry.is /\ entry'.mirror = entry.mirror
        /\ entry'.old = entry.old
    BY <2>1, EntryIsDue DEF CacheInv
  <2>3. PICK next \in TaskRecords \union {NoTask} :
          /\ Leave(s, next) /\ next.at \in {"idle", "served"}
          /\ next.at = "served" => task[s].of = "fill"
    <3>1. /\ Served(s) \in TaskRecords \union {NoTask} /\ Served(s).at = "served"
          /\ NoTask \in TaskRecords \union {NoTask} /\ NoTask.at = "idle"
      BY <2>1, NextTasks
    <3> QED BY <2>1, <3>1
  <2>4. task' \in [Servers -> TaskRecords \union {NoTask}]
    BY <2>3, TaskBecomes DEF Leave
  <2>5. ~ disturbed => LoneTask'
    <3> SUFFICES ASSUME ~ disturbed PROVE LoneTask'
      OBVIOUS
    <3>1. /\ entry'.is = "whole" /\ (task[s].of = "fill" => ~ entry'.old)
          /\ \A q \in Servers : task[q].at = "served" => ~ entry'.old
      BY <2>1, <2>2 DEF CacheInv, LoneTask
    <3> QED BY <2>1, <2>3, <3>1, LeavesAlone
  <2> QED BY <2>1, <2>2, <2>4, <2>5 DEF CacheInv
<1> QED BY <1>1, <1>2

\* While one fills an entry nobody has been given it.
LEMMA FillsKeep ==
  ASSUME CacheInv, NEW s \in Servers, FillBegins(s) \/ FillEnds(s) \/ FillFails(s)
  PROVE  CacheInv'
<1>0. task[s].at = "filling" /\ UNCHANGED sweeping
  BY DEF FillBegins, FillEnds, FillFails
<1>1. ~ disturbed => \A q \in Servers : task[q].at # "served"
  BY <1>0 DEF CacheInv, LoneTask
<1>t. /\ Served(s) \in TaskRecords \union {NoTask} /\ Served(s).at = "served"
      /\ NoTask \in TaskRecords \union {NoTask} /\ NoTask.at = "idle"
  BY <1>0, NextTasks
<1>2. CASE FillBegins(s)
  <2>1. /\ entry' = [entry EXCEPT !.is = "partial"]
        /\ UNCHANGED <<lock, task, sweeping, disturbed>>
    BY <1>2 DEF FillBegins
  <2>2. entry' \in CacheEntries /\ entry'.is = "partial" /\ entry'.mirror = entry.mirror
    BY <2>1, EntryUpdate DEF CacheInv
  <2>3. ~ disturbed => LoneTask'
    <3> SUFFICES ASSUME ~ disturbed PROVE LoneTask'
      OBVIOUS
    <3>1. \A q \in Servers : task[q].at \notin {"touching", "fetching", "served"}
      BY <1>0, <1>1, AloneInside
    <3>2. Inside' = Inside
      BY <2>1 DEF Inside
    <3> QED BY <1>0, <2>1, <2>2, <3>1, <3>2 DEF CacheInv, LoneTask
  <2> QED BY <2>1, <2>2, <2>3 DEF CacheInv
<1>3. CASE FillEnds(s)
  <2>1. CASE /\ entry' = [entry EXCEPT !.is = "whole", !.due = FALSE, !.old = FALSE]
             /\ Leave(s, Served(s)) /\ UNCHANGED disturbed
    <3>1. entry' \in CacheEntries /\ entry'.is = "whole" /\ ~ entry'.old
      BY <2>1 DEF CacheInv, CacheEntries
    <3>2. task' \in [Servers -> TaskRecords \union {NoTask}]
      BY <1>t, <2>1, TaskBecomes DEF Leave
    <3>3. ~ disturbed => LoneTask'
      BY <1>0, <1>1, <1>t, <2>1, <3>1, LeavesAlone
    <3> QED BY <2>1, <3>1, <3>2, <3>3 DEF CacheInv
  <2>2. CASE /\ entry' = [entry EXCEPT !.is = IF entry.mirror THEN "missing" ELSE entry.is]
             /\ Leave(s, NoTask) /\ disturbed' = (disturbed \/ ~ entry.mirror)
    <3> DEFINE is == IF entry.mirror THEN "missing" ELSE entry.is
    <3>1. is \in {"missing", "empty", "partial", "whole"} /\ (entry.mirror => is = "missing")
      BY DEF CacheInv, CacheEntries
    <3> HIDE DEF is
    <3>2. entry' \in CacheEntries /\ entry'.is = is /\ entry'.mirror = entry.mirror
      BY <2>2, <3>1, EntryUpdate DEF CacheInv, is
    <3>3. task' \in [Servers -> TaskRecords \union {NoTask}]
      BY <1>t, <2>2, TaskBecomes DEF Leave
    <3>4. ~ disturbed' => ~ disturbed /\ entry.mirror
      BY <2>2
    <3>5. ~ disturbed' => LoneTask'
      BY <1>0, <1>1, <1>t, <2>2, <3>1, <3>2, <3>4, LeavesAlone
    <3> QED BY <3>2, <3>3, <3>5 DEF CacheInv
  <2> QED BY <1>3, <2>1, <2>2 DEF FillEnds
<1>4. CASE FillFails(s)
  <2>1. /\ entry.is # "partial" /\ Leave(s, NoTask) /\ UNCHANGED <<entry, disturbed>>
    BY <1>4 DEF FillFails
  <2>2. task' \in [Servers -> TaskRecords \union {NoTask}]
    BY <1>t, <2>1, TaskBecomes DEF Leave
  <2>3. ~ disturbed /\ entry'.mirror => entry'.is # "empty"
    BY <2>1 DEF CacheInv, LoneTask
  <2>4. ~ disturbed => LoneTask'
    BY <1>0, <1>1, <1>t, <2>1, <2>3, LeavesAlone
  <2> QED BY <2>1, <2>2, <2>4 DEF CacheInv
<1> QED BY <1>2, <1>3, <1>4

\* Answers, cleanups, time and deaths.
LEMMA OthersKeep ==
  ASSUME CacheInv, LockInv,
         \/ \E s \in Servers : Answer(s) \/ SeeNoLock(s) \/ Sweep(s) \/ Die(s)
         \/ TimePasses \/ LockAges
  PROVE  CacheInv'
<1>t. NoTask \in TaskRecords \union {NoTask} /\ NoTask.at = "idle"
  BY DEF NoTask
<1>1. ASSUME NEW s \in Servers, Answer(s) PROVE CacheInv'
  <2>1. /\ task[s].at = "served" /\ task' = [task EXCEPT ![s] = NoTask]
        /\ UNCHANGED <<entry, lock, sweeping, disturbed>>
    BY <1>1 DEF Answer
  <2>2. /\ task' \in [Servers -> TaskRecords \union {NoTask}] /\ task'[s].at = "idle"
        /\ \A q \in Servers \ {s} : task'[q] = task[q]
    BY <1>t, <2>1, TaskBecomes
  <2>3. LoneTask => LoneTask'
    BY <2>1, <2>2 DEF LoneTask, Inside
  <2> QED BY <2>1, <2>2, <2>3 DEF CacheInv
<1>2. ASSUME NEW s \in Servers, SeeNoLock(s) PROVE CacheInv'
  <2>1. lock = NoLock /\ UNCHANGED <<entry, lock, task, disturbed>>
    BY <1>2 DEF SeeNoLock
  <2>2. LoneTask => LoneTask'
    BY <2>1 DEF LoneTask, Inside
  <2> QED BY <2>1, <2>2 DEF CacheInv
<1>3. ASSUME NEW s \in Servers, Sweep(s) PROVE CacheInv'
  <2>1. /\ s \in sweeping /\ sweeping' = sweeping \ {s} /\ UNCHANGED <<lock, task, disturbed>>
        /\ entry' = IF entry.old THEN [entry EXCEPT !.is = "missing", !.old = FALSE] ELSE entry
    BY <1>3 DEF Sweep
  <2>2. /\ entry' \in CacheEntries /\ entry'.mirror = entry.mirror
        /\ entry'.is = "missing" \/ (entry'.is = entry.is /\ entry'.old = entry.old)
        /\ entry'.is # entry.is => entry.old
    BY <2>1, EntryUpdate DEF CacheInv
  <2>3. LoneTask => LoneTask'
    <3> SUFFICES ASSUME LoneTask PROVE LoneTask'
      OBVIOUS
    <3>1. Inside = {} /\ Inside' = {}
      BY <2>1 DEF LoneTask, Inside
    <3>2. \A q \in Servers : task[q].at \notin {"looking", "filling", "fetching", "touching"}
      BY <3>1 DEF Inside
    <3>3. \A q \in Servers : task[q].at = "served" => entry' = entry
      BY <2>1 DEF LoneTask
    <3> QED BY <2>1, <2>2, <3>1, <3>2, <3>3 DEF LoneTask
  <2> QED BY <2>1, <2>2, <2>3 DEF CacheInv
<1>4. ASSUME NEW s \in Servers, Die(s) PROVE CacheInv'
  <2>1. /\ task' = [task EXCEPT ![s] = NoTask] /\ UNCHANGED <<entry, lock, sweeping>>
        /\ disturbed' = (disturbed \/ task[s].at = "filling")
    BY <1>4 DEF Die
  <2>2. /\ task' \in [Servers -> TaskRecords \union {NoTask}] /\ task'[s].at = "idle"
        /\ \A q \in Servers \ {s} : task'[q] = task[q]
    BY <1>t, <2>1, TaskBecomes
  <2>3. ~ disturbed' => ~ disturbed /\ task[s].at # "filling"
    BY <2>1
  <2>4. ~ disturbed' => LoneTask'
    BY <2>1, <2>2, <2>3 DEF CacheInv, LoneTask, Inside
  <2> QED BY <2>1, <2>2, <2>4 DEF CacheInv
<1>5. CASE TimePasses
  <2>1. /\ UNCHANGED <<lock, task, sweeping, disturbed>>
        /\ entry' \in CacheEntries /\ entry'.is = entry.is /\ entry'.mirror = entry.mirror
        /\ entry'.old = entry.old \/ \A s \in Servers : task[s] = NoTask
    BY <1>5 DEF TimePasses, CacheInv, CacheEntries
  <2>2. LoneTask => LoneTask'
    BY <1>t, <2>1 DEF LoneTask, Inside
  <2> QED BY <2>1, <2>2 DEF CacheInv
<1>6. CASE LockAges
  <2>1. lock # NoLock /\ lock' = [lock EXCEPT !.stale = TRUE]
        /\ UNCHANGED <<entry, task, sweeping, disturbed>>
    BY <1>6 DEF LockAges
  <2>2. lock \in LockRecords
    BY <2>1 DEF LockInv
  <2>3. lock' \in LockRecords /\ lock'.by = lock.by
    BY <2>1, <2>2 DEF LockRecords
  <2>4. lock' # NoLock
    BY <2>3, CacheAssumption DEF LockRecords, NoLock
  <2> QED BY <2>1, <2>3, <2>4 DEF CacheInv, LoneTask, Inside
<1> QED BY <1>1, <1>2, <1>3, <1>4, <1>5, <1>6

\* The lock stays a server's or nobody's.
LEMMA LockStays ==
  ASSUME LockInv, [CacheNext]_cacheVars
  PROVE  LockInv'
<1>1. ASSUME NEW s \in Servers, LockStep(s) PROVE LockInv'
  <2>1. lock' \in {lock, NoLock, [by |-> s, stale |-> FALSE]}
    BY <1>1 DEF LockStep, Ask, Acquire, Wait, BreakLock
  <2>2. [by |-> s, stale |-> FALSE] \in LockRecords
    BY DEF LockRecords
  <2> QED BY <2>1, <2>2 DEF LockInv
<1>2. ASSUME NEW s \in Servers, TaskStep(s) PROVE LockInv'
  <2>1. lock' \in {lock, NoLock}
    BY <1>2 DEF TaskStep, LookAndMiss, LookAndUse, Touch, FetchEnds, FillBegins, FillEnds,
                FillFails, Answer, Leave
  <2> QED BY <2>1 DEF LockInv
<1>3. ASSUME NEW s \in Servers, SeeNoLock(s) \/ Sweep(s) \/ Die(s) PROVE lock' = lock
  BY <1>3 DEF SeeNoLock, Sweep, Die
<1>4. CASE LockAges
  <2>1. lock # NoLock /\ lock' = [lock EXCEPT !.stale = TRUE]
    BY <1>4 DEF LockAges
  <2>2. lock \in LockRecords
    BY <2>1 DEF LockInv
  <2>3. lock' \in LockRecords
    BY <2>1, <2>2 DEF LockRecords
  <2> QED BY <2>3 DEF LockInv
<1>5. CASE TimePasses \/ UNCHANGED cacheVars
  BY <1>5 DEF TimePasses, cacheVars, LockInv
<1> QED BY <1>1, <1>2, <1>3, <1>4, <1>5 DEF CacheNext, LockInv

\* Every step on the entry keeps the invariant.
LEMMA NextCacheInv ==
  ASSUME CacheInv, LockInv, [CacheNext]_cacheVars
  PROVE  CacheInv'
<1>1. CASE UNCHANGED cacheVars
  BY <1>1 DEF cacheVars, CacheInv, LoneTask, Inside
<1> QED BY <1>1, LockStepsKeep, LooksKeep, UsesKeep, FillsKeep, OthersKeep DEF CacheNext, TaskStep

\* The cache keeps its inductive invariant, for every set of servers and number of mishaps.
THEOREM CacheInvariant == CacheSpec => [](CacheInv /\ LockInv)
<1>1. CacheInit => LockInv
  BY DEF CacheInit, LockInv
<1> QED BY <1>1, InitCacheInv, NextCacheInv, LockStays, PTL DEF CacheSpec

\* LoneTaskServesWhole: but for a fill broken off, a lock taken from a task that still ran, or
\* a cleanup at the same time, withCacheLock lets one task at a time in, and the path that
\* prepareGitReviewCheckout hands out has the whole repository.
THEOREM LoneTasksServeWhole == CacheSpec => []LoneTaskServesWhole
<1>1. CacheInv => LoneTaskServesWhole
  <2> SUFFICES ASSUME CacheInv, ~ disturbed PROVE LoneTaskServesWhole
    BY DEF LoneTaskServesWhole
  <2>1. Cardinality(Inside) <= 1
    <3>1. CASE Inside = {}
      BY <3>1, FS_EmptySet
    <3>2. ASSUME NEW s \in Inside PROVE Cardinality(Inside) <= 1
      <4>1. Inside = {s}
        BY <3>2 DEF CacheInv, LoneTask
      <4> QED BY <4>1, FS_Singleton
    <3> QED BY <3>1, <3>2
  <2> QED BY <2>1 DEF LoneTaskServesWhole, CacheInv, LoneTask
<1> QED BY <1>1, CacheInvariant, PTL

\* What CacheInv does not speak of.
CacheRest ==
  /\ sweeping \subseteq Servers /\ mishaps \in 0 .. MaxMishaps /\ disturbed \in BOOLEAN

\* Every step on the entry keeps it.
LEMMA CacheRestKeeps == CacheRest /\ [CacheNext]_cacheVars => CacheRest'
<1> SUFFICES ASSUME CacheRest, [CacheNext]_cacheVars PROVE CacheRest'
  OBVIOUS
<1>1. sweeping \subseteq Servers /\ mishaps \in 0 .. MaxMishaps /\ disturbed \in BOOLEAN
  BY DEF CacheRest
<1>2. Mishap => mishaps' \in 0 .. MaxMishaps
  BY <1>1, CacheAssumption DEF Mishap
<1>3. ASSUME NEW s \in Servers, LockStep(s) PROVE CacheRest'
  <2>1. disturbed' \in BOOLEAN
    BY <1>1, <1>3, Zenon DEF LockStep, Ask, Acquire, Wait, BreakLock
  <2> QED BY <1>1, <1>3, <2>1 DEF CacheRest, LockStep, Ask, Acquire, Wait, BreakLock
<1>4. ASSUME NEW s \in Servers, TaskStep(s) PROVE CacheRest'
  <2>1. disturbed' \in BOOLEAN
    BY <1>1, <1>4, Zenon
       DEF TaskStep, LookAndMiss, LookAndUse, Touch, FetchEnds, FillBegins, FillEnds, FillFails, Answer
  <2>2. sweeping' = sweeping /\ (mishaps' = mishaps \/ Mishap)
    BY <1>4, Zenon
       DEF TaskStep, LookAndMiss, LookAndUse, Touch, FetchEnds, FillBegins, FillEnds, FillFails, Answer
  <2> QED BY <1>1, <1>2, <2>1, <2>2 DEF CacheRest
<1>5. ASSUME NEW s \in Servers, SeeNoLock(s) \/ Sweep(s) PROVE CacheRest'
  BY <1>1, <1>5 DEF CacheRest, SeeNoLock, Sweep
<1>6. ASSUME NEW s \in Servers, Die(s) PROVE CacheRest'
  <2>1. disturbed' \in BOOLEAN
    BY <1>6, Zenon DEF Die
  <2> QED BY <1>1, <1>2, <1>6, <2>1 DEF CacheRest, Die
<1>7. CASE TimePasses
  BY <1>1, <1>7 DEF CacheRest, TimePasses
<1>8. CASE LockAges
  BY <1>1, <1>2, <1>8 DEF CacheRest, LockAges
<1>9. CASE UNCHANGED cacheVars
  BY <1>1, <1>9 DEF CacheRest, cacheVars
<1> QED BY <1>3, <1>4, <1>5, <1>6, <1>7, <1>8, <1>9 DEF CacheNext

\* CacheType: what the inductive invariant leaves out of it is inductive beside it.
THEOREM CacheTypes == CacheSpec => []CacheType
<1>1. ASSUME CacheInit PROVE CacheRest
  <2>1. 0 \in 0 .. MaxMishaps
    BY CacheAssumption
  <2>2. disturbed \in BOOLEAN
    BY <1>1, Zenon DEF CacheInit
  <2> QED BY <1>1, <2>1, <2>2 DEF CacheInit, CacheRest
<1>2. CacheInv /\ LockInv /\ CacheRest => CacheType
  BY DEF CacheInv, LockInv, CacheRest, CacheType, CacheEntries, TaskRecords, LockRecords, Places
<1> QED BY <1>1, <1>2, CacheRestKeeps, CacheInvariant, PTL DEF CacheSpec

-----------------------------------------------------------------------------
(* The score of a report *)

\* One report, enriched twice.
QualitySpec == QualityInit /\ [][QualityNext]_qualityVars

\* What each enrichment has made, and of what.
QualityInv ==
  /\ facts \in PossibleFacts
  /\ enriched \in {0, 1, 2}
  /\ enriched # 0 => first = Enrichment({}) /\ learned = Learnables(GapsOf({}))
  /\ enriched = 2 => saved = Enrichment(facts.writes)

\* Both enrichments are made of the same facts.
LEMMA QualityIsInductive ==
  /\ QualityInit => QualityInv
  /\ QualityInv /\ [QualityNext]_qualityVars => QualityInv'
<1>1. QualityInit => QualityInv
  BY ReportFactsAssumption DEF QualityInit, QualityInv
<1>2. ASSUME QualityInv, UNCHANGED facts
      PROVE  /\ \A W : Enrichment(W)' = Enrichment(W)
             /\ Learnables(GapsOf({}))' = Learnables(GapsOf({}))
  BY <1>2 DEF Enrichment, GapsOf, OverallScore, EvidenceScore, ExecutionScore, ArtifactsScore,
              TransparencyScore, MissingKinds, Superseded, Learnables, ExecutionLearnables,
              SectionsLearned
<1>3. ASSUME QualityInv, [QualityNext]_qualityVars PROVE QualityInv'
  <2>1. UNCHANGED facts
    BY <1>3 DEF QualityNext, EnrichReport, WriteKinds, EnrichSaved, qualityVars
  <2>2. Enrichment(facts.writes)' = Enrichment(facts.writes) /\ Enrichment({})' = Enrichment({})
    BY <2>1 DEF Enrichment, GapsOf, OverallScore, EvidenceScore, ExecutionScore, ArtifactsScore,
              TransparencyScore, MissingKinds, Superseded
  <2> QED BY <1>2, <1>3, <2>1, <2>2 DEF QualityInv, QualityNext, EnrichReport, WriteKinds, EnrichSaved, qualityVars
<1> QED BY <1>1, <1>3

\* Rounding and clamping give percents, and keep the order.
LEMMA Percents ==
  /\ \A n \in Int : ClampPercent(n) \in 0 .. 100
  /\ \A a, b \in Int : b > 0 => Round(a, b) \in Int
  /\ \A m, n \in Int : m <= n => ClampPercent(m) <= ClampPercent(n)
  /\ \A m, n \in Int : m <= n => Round(m, 5) <= Round(n, 5)
<1>1. \A n \in Int : ClampPercent(n) \in 0 .. 100
  BY DEF ClampPercent
<1>2. ASSUME NEW a \in Int, NEW b \in Int, b > 0 PROVE Round(a, b) \in Int
  <2>1. 2 * a + b \in Int /\ 2 * b \in Int /\ 2 * b > 0
    BY <1>2
  <2>2. \A x, y \in Int : y > 0 => x \div y \in Int
    OBVIOUS
  <2> QED BY <2>1, <2>2 DEF Round
<1>3. \A m, n \in Int : m <= n => ClampPercent(m) <= ClampPercent(n)
  BY DEF ClampPercent
<1>4. \A m, n \in Int : m <= n => Round(m, 5) <= Round(n, 5)
  BY DEF Round
<1> QED BY <1>1, <1>2, <1>3, <1>4

\* What a list of so many values holds is a finite set of at most so many.
LEMMA ListsAreFinite ==
  ASSUME NEW n \in Nat, NEW f, f = [i \in 1 .. n |-> f[i]], NEW S, \A x \in S : \E i \in 1 .. n : x = f[i]
  PROVE  IsFiniteSet(S) /\ Cardinality(S) <= n
<1> DEFINE T == {f[i] : i \in 1 .. n}
<1>1. f \in Surjection(1 .. n, T)
  BY DEF Surjection
<1>2. IsFiniteSet(1 .. n) /\ Cardinality(1 .. n) <= n
  BY FS_Interval
<1>3. IsFiniteSet(T) /\ Cardinality(T) <= n
  <2>1. IsFiniteSet(T) /\ Cardinality(T) <= Cardinality(1 .. n)
    BY <1>1, <1>2, FS_Surjection
  <2> QED BY <1>2, <2>1, FS_CardinalityType
<1>4. S \in SUBSET T
  OBVIOUS
<1> HIDE DEF T
<1>5. IsFiniteSet(S) /\ Cardinality(S) <= Cardinality(T)
  BY <1>3, <1>4, FS_Subset
<1> QED BY <1>3, <1>5, FS_CardinalityType

\* The gaps that a report may have at all.
PossibleGaps ==
  <<Gap("auth", "medium", "authenticated coverage"), Gap("auth", "high", "authenticated coverage"),
    Gap("ops", "high", "blocker"), Gap("ops", "medium", "blocker"),
    Gap("browser", "medium", "coverage gap"), Gap("runtime", "medium", "no runtime target"),
    Gap("ops", "medium", "suite skipped"), Gap("artifact", "high", "artifacts missing"),
    Gap("skill", "low", "no suite"), Gap("skill", "medium", "suite not runnable"),
    Gap("browser", "high", "suite did not pass"), Gap("browser", "medium", "suite did not pass")>>

\* One of the nine pieces of GapsOf.
IsGapOf(W, g) ==
  \/ facts.authGap # "none" /\ g = Gap("auth", facts.authGap, "authenticated coverage")
  \/ \E severity \in facts.blockers : g = Gap("ops", severity, "blocker")
  \/ /\ facts.words # "none" /\ ~ Superseded(facts.words, W)
     /\ g = Gap("browser", "medium", "coverage gap")
  \/ ~ facts.target /\ g = Gap("runtime", "medium", "no runtime target")
  \/ facts.suite = "skipped" /\ g = Gap("ops", "medium", "suite skipped")
  \/ MissingKinds(W) # {} /\ g = Gap("artifact", "high", "artifacts missing")
  \/ facts.suiteFound = "undetected" /\ g = Gap("skill", "low", "no suite")
  \/ /\ facts.suiteFound = "broken" /\ facts.suite # "succeeded"
     /\ g = Gap("skill", "medium", "suite not runnable")
  \/ /\ facts.suiteFound \in {"failing", "blocked"} /\ facts.suite # "succeeded"
     /\ g = Gap("browser", IF facts.suiteFound = "blocked" THEN "high" ELSE "medium",
                "suite did not pass")

\* GapsOf, piece by piece.
LEMMA PiecesOfGaps == ASSUME NEW W, NEW g PROVE g \in GapsOf(W) <=> IsGapOf(W, g)
<1> DEFINE
      a == When(facts.authGap # "none", Gap("auth", facts.authGap, "authenticated coverage"))
      b == {Gap("ops", severity, "blocker") : severity \in facts.blockers}
      c == When(facts.words # "none" /\ ~ Superseded(facts.words, W),
                Gap("browser", "medium", "coverage gap"))
      d == When(~ facts.target, Gap("runtime", "medium", "no runtime target"))
      e == When(facts.suite = "skipped", Gap("ops", "medium", "suite skipped"))
      f == When(MissingKinds(W) # {}, Gap("artifact", "high", "artifacts missing"))
      h == When(facts.suiteFound = "undetected", Gap("skill", "low", "no suite"))
      i == When(facts.suiteFound = "broken" /\ facts.suite # "succeeded",
                Gap("skill", "medium", "suite not runnable"))
      j == When(facts.suiteFound \in {"failing", "blocked"} /\ facts.suite # "succeeded",
                Gap("browser", IF facts.suiteFound = "blocked" THEN "high" ELSE "medium",
                    "suite did not pass"))
<1>1. GapsOf(W) = UNION {a, b, c, d, e, f, h, i, j}
  BY DEF GapsOf
<1>2. g \in b <=> \E severity \in facts.blockers : g = Gap("ops", severity, "blocker")
  OBVIOUS
<1>3. /\ g \in a <=> facts.authGap # "none" /\ g = Gap("auth", facts.authGap, "authenticated coverage")
      /\ g \in c <=> /\ facts.words # "none" /\ ~ Superseded(facts.words, W)
                     /\ g = Gap("browser", "medium", "coverage gap")
      /\ g \in d <=> ~ facts.target /\ g = Gap("runtime", "medium", "no runtime target")
      /\ g \in e <=> facts.suite = "skipped" /\ g = Gap("ops", "medium", "suite skipped")
  BY DEF When
<1>4. /\ g \in f <=> MissingKinds(W) # {} /\ g = Gap("artifact", "high", "artifacts missing")
      /\ g \in h <=> facts.suiteFound = "undetected" /\ g = Gap("skill", "low", "no suite")
      /\ g \in i <=> /\ facts.suiteFound = "broken" /\ facts.suite # "succeeded"
                     /\ g = Gap("skill", "medium", "suite not runnable")
  BY DEF When
<1>5. g \in j <=> /\ facts.suiteFound \in {"failing", "blocked"} /\ facts.suite # "succeeded"
                  /\ g = Gap("browser", IF facts.suiteFound = "blocked" THEN "high" ELSE "medium",
                             "suite did not pass")
  BY DEF When
<1> HIDE DEF a, b, c, d, e, f, h, i, j
<1>6. g \in GapsOf(W) <=>
        \/ g \in a \/ g \in b \/ g \in c \/ g \in d \/ g \in e \/ g \in f
        \/ g \in h \/ g \in i \/ g \in j
  BY <1>1
<1> QED BY <1>2, <1>3, <1>4, <1>5, <1>6 DEF IsGapOf

\* There are twelve gaps, of nine titles.
LEMMA GapsArePossible ==
  ASSUME facts \in PossibleFacts, NEW W, NEW g \in GapsOf(W)
  PROVE  /\ \E i \in 1 .. 12 : g = PossibleGaps[i]
         /\ g.title \in {"artifacts missing", "authenticated coverage", "coverage gap",
              "suite did not pass", "blocker", "suite skipped", "no runtime target", "no suite",
              "suite not runnable"}
<1>1. facts.blockers \in SUBSET {"high", "medium"} /\ facts.authGap \in {"none", "medium", "high"}
  BY DEF PossibleFacts
<1>2. \/ g = Gap("auth", "medium", "authenticated coverage")
      \/ g = Gap("auth", "high", "authenticated coverage")
      \/ g = Gap("ops", "high", "blocker") \/ g = Gap("ops", "medium", "blocker")
      \/ g = Gap("browser", "medium", "coverage gap") \/ g = Gap("runtime", "medium", "no runtime target")
      \/ g = Gap("ops", "medium", "suite skipped") \/ g = Gap("artifact", "high", "artifacts missing")
      \/ g = Gap("skill", "low", "no suite") \/ g = Gap("skill", "medium", "suite not runnable")
      \/ g = Gap("browser", "high", "suite did not pass")
      \/ g = Gap("browser", "medium", "suite did not pass")
  BY <1>1, PiecesOfGaps DEF IsGapOf
<1>3. \E i \in 1 .. 12 : g = PossibleGaps[i]
  <2>1. /\ PossibleGaps[1] = Gap("auth", "medium", "authenticated coverage")
        /\ PossibleGaps[2] = Gap("auth", "high", "authenticated coverage")
        /\ PossibleGaps[3] = Gap("ops", "high", "blocker")
        /\ PossibleGaps[4] = Gap("ops", "medium", "blocker")
        /\ PossibleGaps[5] = Gap("browser", "medium", "coverage gap")
        /\ PossibleGaps[6] = Gap("runtime", "medium", "no runtime target")
    BY DEF PossibleGaps
  <2>2. /\ PossibleGaps[7] = Gap("ops", "medium", "suite skipped")
        /\ PossibleGaps[8] = Gap("artifact", "high", "artifacts missing")
        /\ PossibleGaps[9] = Gap("skill", "low", "no suite")
        /\ PossibleGaps[10] = Gap("skill", "medium", "suite not runnable")
        /\ PossibleGaps[11] = Gap("browser", "high", "suite did not pass")
        /\ PossibleGaps[12] = Gap("browser", "medium", "suite did not pass")
    BY DEF PossibleGaps
  <2>3. \/ g = PossibleGaps[1] \/ g = PossibleGaps[2] \/ g = PossibleGaps[3]
        \/ g = PossibleGaps[4] \/ g = PossibleGaps[5] \/ g = PossibleGaps[6]
        \/ g = PossibleGaps[7] \/ g = PossibleGaps[8] \/ g = PossibleGaps[9]
        \/ g = PossibleGaps[10] \/ g = PossibleGaps[11] \/ g = PossibleGaps[12]
    BY <1>2, <2>1, <2>2
  <2> QED BY <2>3
<1>4. g.title \in {"artifacts missing", "authenticated coverage", "coverage gap",
              "suite did not pass", "blocker", "suite skipped", "no runtime target", "no suite",
              "suite not runnable"}
  <2>1. \A a, b, c : g = Gap(a, b, c) => g.title = c
    BY DEF Gap
  <2>2. \/ g.title = "authenticated coverage" \/ g.title = "blocker" \/ g.title = "coverage gap"
        \/ g.title = "no runtime target" \/ g.title = "suite skipped"
        \/ g.title = "artifacts missing" \/ g.title = "no suite"
        \/ g.title = "suite not runnable" \/ g.title = "suite did not pass"
    BY <1>2, <2>1, Zenon
  <2> QED BY <2>2
<1> QED BY <1>3, <1>4

\* The saved report's gaps are some of the first ones.
LEMMA GapsOnlyClose ==
  ASSUME facts \in PossibleFacts, NEW W
  PROVE  /\ GapsOf(W) \subseteq GapsOf({})
         /\ MissingKinds(W) \subseteq MissingKinds({})
         /\ \A g \in GapsOf({}) \ GapsOf(W) :
              \/ g.title = "artifacts missing"
              \/ g.title = "coverage gap" /\ facts.words \in {"no new artifacts", "role step"}
<1>1. Superseded(facts.words, {}) => Superseded(facts.words, W)
  BY DEF Superseded, BrowserEvidence
<1>2. MissingKinds(W) \subseteq MissingKinds({})
  BY DEF MissingKinds
<1>3. GapsOf(W) \subseteq GapsOf({})
  <2> SUFFICES ASSUME NEW g \in GapsOf(W) PROVE g \in GapsOf({})
    OBVIOUS
  <2>1. MissingKinds(W) # {} => MissingKinds({}) # {}
    BY <1>2
  <2>2. IsGapOf(W, g)
    BY PiecesOfGaps
  <2>3. IsGapOf({}, g)
    BY <1>1, <2>1, <2>2 DEF IsGapOf
  <2> QED BY <2>3, PiecesOfGaps
<1>4. ASSUME NEW g \in GapsOf({}), g \notin GapsOf(W)
      PROVE  \/ g = Gap("artifact", "high", "artifacts missing")
             \/ /\ g = Gap("browser", "medium", "coverage gap")
                /\ ~ Superseded(facts.words, {}) /\ Superseded(facts.words, W)
  <2>1. IsGapOf({}, g) /\ ~ IsGapOf(W, g)
    BY <1>4, PiecesOfGaps
  <2> QED BY <1>1, <2>1 DEF IsGapOf
<1>5. ~ Superseded(facts.words, {}) /\ Superseded(facts.words, W) =>
        facts.words \in {"no new artifacts", "role step"}
  BY DEF Superseded, BrowserEvidence
<1>6. \A g \in GapsOf({}) \ GapsOf(W) :
        \/ g.title = "artifacts missing"
        \/ g.title = "coverage gap" /\ facts.words \in {"no new artifacts", "role step"}
  <2>1. TAKE g \in GapsOf({}) \ GapsOf(W)
  <2>2. \A a, b, c : g = Gap(a, b, c) => g.title = c
    BY DEF Gap
  <2>3. \/ g.title = "artifacts missing"
        \/ g.title = "coverage gap" /\ ~ Superseded(facts.words, {}) /\ Superseded(facts.words, W)
    BY <1>4, <2>2, Zenon
  <2> QED BY <1>5, <2>3
<1> QED BY <1>2, <1>3, <1>6

\* More gaps or more missing artifacts never make a better score, which is a percentage.
LEMMA ScoresOnlyRise ==
  ASSUME facts \in PossibleFacts, NEW W
  PROVE  OverallScore({}) <= OverallScore(W) /\ {OverallScore({}), OverallScore(W)} \subseteq 0 .. 100
<1>1. facts.findings.all \in Nat /\ facts.findings.evidenced \in Nat
      /\ facts.findings.withPaths \in Nat /\ facts.findings.withRefs \in Nat
      /\ facts.findings.uniform \in BOOLEAN /\ facts.required \in SUBSET Kinds
  BY DEF PossibleFacts
<1>2. EvidenceScore \in Int
  <2> DEFINE f == facts.findings
             t == ClampPercent(Round(100 * (f.withPaths + f.withRefs), 2 * f.all))
  <2>1. CASE f.all = 0
    BY <2>1 DEF EvidenceScore
  <2>2. CASE f.all # 0
    <3>1. 100 * (f.withPaths + f.withRefs) \in Int /\ 2 * f.all \in Int /\ 2 * f.all > 0
          /\ 10 * f.all \in Int /\ 10 * f.all > 0
      BY <1>1, <2>2
    <3>2. t \in Int
      <4>1. Round(100 * (f.withPaths + f.withRefs), 2 * f.all) \in Int
        BY <3>1, Percents
      <4>2. t \in 0 .. 100
        BY <4>1, Percents
      <4> HIDE DEF t
      <4> QED BY <4>2
    <3>3. 700 * f.evidenced + 3 * t * f.all \in Int
      <4> HIDE DEF t
      <4>1. \A x, y \in Int : 3 * x * y \in Int
        OBVIOUS
      <4>2. 3 * t * f.all \in Int
        BY <1>1, <3>2, <4>1
      <4> QED BY <1>1, <4>2
    <3>4. EvidenceScore = ClampPercent(Round(700 * f.evidenced + 3 * t * f.all, 10 * f.all))
      BY <2>2 DEF EvidenceScore
    <3>5. Round(700 * f.evidenced + 3 * t * f.all, 10 * f.all) \in Int
      <4> HIDE DEF t
      <4> QED BY <3>1, <3>3, Percents
    <3>6. EvidenceScore \in 0 .. 100
      BY <3>4, <3>5, Percents
    <3> QED BY <3>6
  <2> QED BY <2>1, <2>2
<1>3. ExecutionScore \in Int
  <2> DEFINE attempted == {s \in {"runtime", "qa", "suite"} : facts[s] \in {"succeeded", "failed"}}
             good == {s \in attempted : facts[s] = "succeeded"}
  <2>1. CASE attempted = {}
    BY <2>1 DEF ExecutionScore
  <2>2. CASE attempted # {}
    <3> DEFINE l == <<"runtime", "qa", "suite">>
    <3>1. \A x \in attempted : \E i \in 1 .. 3 : x = l[i]
      OBVIOUS
    <3>2. l = [i \in 1 .. 3 |-> l[i]]
      OBVIOUS
    <3>3. good \in SUBSET attempted
      OBVIOUS
    <3>4. ExecutionScore = ClampPercent(Round(100 * Cardinality(good), Cardinality(attempted)))
      BY <2>2 DEF ExecutionScore
    <3> HIDE DEF l, attempted, good
    <3>5. IsFiniteSet(attempted)
      BY <3>1, <3>2, ListsAreFinite
    <3>6. IsFiniteSet(good)
      BY <3>3, <3>5, FS_Subset
    <3>7. Cardinality(attempted) \in Nat /\ Cardinality(good) \in Nat /\ Cardinality(attempted) # 0
      BY <2>2, <3>5, <3>6, FS_CardinalityType, FS_EmptySet
    <3>8. 100 * Cardinality(good) \in Int /\ Cardinality(attempted) \in Int /\ Cardinality(attempted) > 0
      BY <3>7
    <3>9. ExecutionScore \in 0 .. 100
      BY <3>4, <3>8, Percents
    <3> QED BY <3>9
  <2> QED BY <2>1, <2>2
<1>4. ArtifactsScore({}) \in Int /\ ArtifactsScore(W) \in Int /\ ArtifactsScore({}) <= ArtifactsScore(W)
  <2> DEFINE l == <<"screenshot", "runtime-log">>
  <2>1. \A x \in MissingKinds({}) : \E i \in 1 .. 2 : x = l[i]
    BY <1>1 DEF MissingKinds, Kinds
  <2>2. l = [i \in 1 .. 2 |-> l[i]]
    OBVIOUS
  <2> HIDE DEF l
  <2>3. IsFiniteSet(MissingKinds({}))
    BY <2>1, <2>2, ListsAreFinite
  <2>4. MissingKinds(W) \in SUBSET MissingKinds({})
    BY GapsOnlyClose
  <2>5. IsFiniteSet(MissingKinds(W)) /\ Cardinality(MissingKinds(W)) <= Cardinality(MissingKinds({}))
    BY <2>3, <2>4, FS_Subset
  <2>6. Cardinality(MissingKinds(W)) \in Nat /\ Cardinality(MissingKinds({})) \in Nat
    BY <2>3, <2>5, FS_CardinalityType
  <2>7. /\ 100 - 25 * Cardinality(MissingKinds(W)) \in Int
        /\ 100 - 25 * Cardinality(MissingKinds({})) \in Int
        /\ 100 - 25 * Cardinality(MissingKinds({})) <= 100 - 25 * Cardinality(MissingKinds(W))
    BY <2>5, <2>6
  <2>8. ArtifactsScore({}) <= ArtifactsScore(W)
    BY <2>7, Percents DEF ArtifactsScore
  <2>9. ArtifactsScore({}) \in 0 .. 100 /\ ArtifactsScore(W) \in 0 .. 100
    BY <2>7, Percents DEF ArtifactsScore
  <2> QED BY <2>8, <2>9
<1>5. TransparencyScore \in Int
  BY <1>1 DEF TransparencyScore, ClampPercent
<1>6. /\ CapabilityScore(GapsOf({})) \in Int /\ CapabilityScore(GapsOf(W)) \in Int
      /\ CapabilityScore(GapsOf({})) <= CapabilityScore(GapsOf(W))
  <2> DEFINE Of(gaps, severity) == Cardinality({g \in gaps : g.severity = severity})
  <2>1. PossibleGaps = [i \in 1 .. 12 |-> PossibleGaps[i]]
    BY DEF PossibleGaps
  <2>2. IsFiniteSet(GapsOf({}))
    <3>1. \A g \in GapsOf({}) : \E i \in 1 .. 12 : g = PossibleGaps[i]
      BY GapsArePossible
    <3> QED BY <2>1, <3>1, ListsAreFinite
  <2>3. ASSUME NEW severity
        PROVE  /\ Of(GapsOf(W), severity) \in Nat /\ Of(GapsOf({}), severity) \in Nat
               /\ Of(GapsOf(W), severity) <= Of(GapsOf({}), severity)
    <3> DEFINE mine == {g \in GapsOf(W) : g.severity = severity}
               all  == {g \in GapsOf({}) : g.severity = severity}
    <3>1. all \in SUBSET GapsOf({}) /\ mine \in SUBSET all
      BY GapsOnlyClose
    <3> HIDE DEF mine, all
    <3>2. IsFiniteSet(all)
      BY <2>2, <3>1, FS_Subset
    <3>3. IsFiniteSet(mine) /\ Cardinality(mine) <= Cardinality(all)
      BY <3>1, <3>2, FS_Subset
    <3>4. Cardinality(mine) \in Nat /\ Cardinality(all) \in Nat
      BY <3>2, <3>3, FS_CardinalityType
    <3> QED BY <3>3, <3>4 DEF mine, all
  <2> DEFINE Lost(gaps) == Of(gaps, "high") * 35 + Of(gaps, "medium") * 18 + Of(gaps, "low") * 8
  <2>4. \A gaps : CapabilityScore(gaps) = ClampPercent(100 - Lost(gaps))
    BY DEF CapabilityScore, Penalty
  <2> HIDE DEF Of
  <2>5. /\ 100 - Lost(GapsOf({})) \in Int /\ 100 - Lost(GapsOf(W)) \in Int
        /\ 100 - Lost(GapsOf({})) <= 100 - Lost(GapsOf(W))
    BY <2>3
  <2> HIDE DEF Lost
  <2>6. CapabilityScore(GapsOf({})) <= CapabilityScore(GapsOf(W))
    BY <2>4, <2>5, Percents
  <2>7. CapabilityScore(GapsOf({})) \in 0 .. 100 /\ CapabilityScore(GapsOf(W)) \in 0 .. 100
    BY <2>4, <2>5, Percents
  <2> QED BY <2>6, <2>7
<1> DEFINE sum(V) == EvidenceScore + ExecutionScore + ArtifactsScore(V) + TransparencyScore
                     + CapabilityScore(GapsOf(V))
<1>7. sum({}) \in Int /\ sum(W) \in Int /\ sum({}) <= sum(W)
  BY <1>2, <1>3, <1>4, <1>5, <1>6
<1>8. \A V : OverallScore(V) = ClampPercent(Round(sum(V), 5))
  BY DEF OverallScore
<1> HIDE DEF sum
<1>9. Round(sum({}), 5) \in Int /\ Round(sum(W), 5) \in Int /\ Round(sum({}), 5) <= Round(sum(W), 5)
  BY <1>7, Percents
<1> QED BY <1>8, <1>9, Percents

\* No more than thirteen learnables are about the execution.
LEMMA ExecutionIsLearned ==
  ASSUME facts \in PossibleFacts
  PROVE  Cardinality(ExecutionLearnables(GapsOf({}))) <= MaxLearned
<1> DEFINE l == <<"runtime", "suite", "pages", "login", "artifacts missing",
                  "authenticated coverage", "coverage gap", "suite did not pass", "blocker",
                  "suite skipped", "no runtime target", "no suite", "suite not runnable">>
           S == ExecutionLearnables(GapsOf({}))
<1>1. \A x \in SectionsLearned : x \in {"runtime", "suite", "pages", "login"}
  BY DEF SectionsLearned, When
<1>2. \A x \in {g.title : g \in FirstGaps(GapsOf({}))} :
        x \in {"artifacts missing", "authenticated coverage", "coverage gap",
              "suite did not pass", "blocker", "suite skipped", "no runtime target", "no suite",
              "suite not runnable"}
  BY GapsArePossible DEF FirstGaps
<1>3. \A x \in S :
        \/ x \in {"runtime", "suite", "pages", "login"}
        \/ x \in {"artifacts missing", "authenticated coverage", "coverage gap",
              "suite did not pass", "blocker", "suite skipped", "no runtime target", "no suite",
              "suite not runnable"}
  BY <1>1, <1>2 DEF ExecutionLearnables
<1> HIDE DEF S
<1>4. \A x \in S : \E i \in 1 .. 13 : x = l[i]
  <2>1. /\ l[1] = "runtime" /\ l[2] = "suite" /\ l[3] = "pages" /\ l[4] = "login"
        /\ l[5] = "artifacts missing" /\ l[6] = "authenticated coverage" /\ l[7] = "coverage gap"
        /\ l[8] = "suite did not pass" /\ l[9] = "blocker" /\ l[10] = "suite skipped"
        /\ l[11] = "no runtime target" /\ l[12] = "no suite" /\ l[13] = "suite not runnable"
    OBVIOUS
  <2> HIDE DEF l
  <2>2. TAKE x \in S
  <2>3. CASE x \in {"runtime", "suite", "pages", "login"}
    <3>1. \/ x = l[1] \/ x = l[2] \/ x = l[3] \/ x = l[4]
      BY <2>1, <2>3
    <3> QED BY <3>1
  <2>4. CASE x \in {"artifacts missing", "authenticated coverage", "coverage gap",
              "suite did not pass", "blocker", "suite skipped", "no runtime target", "no suite",
              "suite not runnable"}
    <3>1. \/ x = l[5] \/ x = l[6] \/ x = l[7] \/ x = l[8] \/ x = l[9]
          \/ x = l[10] \/ x = l[11] \/ x = l[12] \/ x = l[13]
      BY <2>1, <2>4
    <3> QED BY <3>1
  <2> QED BY <1>3, <2>3, <2>4
<1>5. l = [i \in 1 .. 13 |-> l[i]]
  OBVIOUS
<1> HIDE DEF l
<1>6. IsFiniteSet(S) /\ Cardinality(S) <= 13
  BY <1>4, <1>5, ListsAreFinite
<1>7. Cardinality(S) \in Nat
  BY <1>6, FS_CardinalityType
<1> QED BY <1>6, <1>7 DEF S, MaxLearned

\* Reports keep what was made of them, whatever the roles and the handoff left.
THEOREM QualityInvariant == QualitySpec => []QualityInv
BY QualityIsInductive, PTL DEF QualitySpec

\* SavedReportOnlyImproves: artifacts close gaps and never open one, so that the score of the
\* saved report is not below the one that was logged, and the facts of the execution fit into
\* the learnables (buildCapabilityGaps, buildQualityScorecard, synthesizeLearnablesFromReport).
THEOREM SavedReportsImprove == QualitySpec => []SavedReportOnlyImproves
<1>1. ASSUME QualityInv, enriched = 2 PROVE SavedReportOnlyImproves
  <2>1. /\ facts \in PossibleFacts
        /\ first.gaps = GapsOf({}) /\ first.score = OverallScore({})
        /\ saved.gaps = GapsOf(facts.writes) /\ saved.score = OverallScore(facts.writes)
        /\ learned = Learnables(GapsOf({}))
    BY <1>1 DEF QualityInv, Enrichment
  <2>2. OverallScore({}) <= OverallScore(facts.writes)
    BY <2>1, ScoresOnlyRise
  <2>3. SectionsLearned \subseteq learned
    BY <2>1 DEF Learnables, ExecutionLearnables
  <2>4. Cardinality(ExecutionLearnables(first.gaps)) <= MaxLearned
    BY <2>1, ExecutionIsLearned
  <2>5. saved.score >= first.score
    BY <2>1, <2>2 DEF OverallScore
  <2> QED BY <2>1, <2>3, <2>4, <2>5, GapsOnlyClose DEF SavedReportOnlyImproves
<1>2. QualityInv => SavedReportOnlyImproves
  BY <1>1 DEF SavedReportOnlyImproves
<1> QED BY <1>2, QualityInvariant, PTL

\* What was not enriched yet is nothing.
QualityRest ==
  /\ enriched = 0 => kinds = {} /\ first = NothingYet
  /\ kinds \in {{}, facts.writes}
  /\ enriched # 2 => saved = NothingYet

\* QualityType: scores are between 0 and 100, whatever the roles and the handoff left
\* (buildQualityScorecard).
THEOREM QualityTypes == QualitySpec => []QualityType
<1>1. QualityInit => QualityRest
  BY DEF QualityInit, QualityRest
<1>2. QualityInv /\ QualityRest /\ [QualityNext]_qualityVars => QualityRest'
  BY DEF QualityInv, QualityRest, QualityNext, EnrichReport, WriteKinds, EnrichSaved, qualityVars
<1>3. ASSUME QualityInv, QualityRest PROVE QualityType
  <2>1. facts \in PossibleFacts /\ kinds \subseteq Kinds /\ enriched \in 0 .. 2
    BY <1>3 DEF QualityInv, QualityRest, PossibleFacts
  <2>2. {OverallScore({}), OverallScore(facts.writes)} \subseteq 0 .. 100
    BY <2>1, ScoresOnlyRise
  <2>3. NothingYet.score \in 0 .. 100
    BY DEF NothingYet
  <2>4. first.score \in 0 .. 100
    BY <1>3, <2>2, <2>3 DEF QualityInv, QualityRest, Enrichment
  <2>5. saved.score \in 0 .. 100
    BY <1>3, <2>2, <2>3 DEF QualityInv, QualityRest, Enrichment
  <2> QED BY <2>1, <2>4, <2>5 DEF QualityType
<1> QED BY <1>1, <1>2, <1>3, QualityInvariant, PTL DEF QualitySpec

-----------------------------------------------------------------------------
(* The files of a job *)

\* A job's files, the stores, one retention run at a time and one reader.
StorageSpec == StorageInit /\ [][StorageNext]_storageVars

\* A transfer that is not over.
UnderWay(t) ==
  /\ t \in Transfers /\ t.of \in Files
  /\ \/ t.primary = "asked" /\ (t.mirror = "failed" => mirroring = "optional")
     \/ t.primary = "done" /\ t.mirror = "asked"
  /\ mirroring = "none" => t.mirror = "done"

\* Where the file of a row is
Both(f) == f \in copies["primary"] /\ (mirroring = "required" => f \in copies["mirror"])
\* and where a deleted one is.
Nowhere(f) == f \notin copies["primary"] /\ f \notin copies["mirror"]

\* The rows have their types, and a transfer is either none or not over; without a mirror
\* nothing goes there.
StorageTypes ==
  /\ mirroring \in {"none", "optional", "required"}
  /\ copies \in [Stores -> SUBSET Files]
  /\ ending \in {"running", "filed", "failed"}
  /\ put = NoTransfer \/ UnderWay(put)
  /\ removing = NoTransfer \/ UnderWay(removing)
  /\ filed \in SUBSET Files /\ touched \in SUBSET Files /\ hurt \in SUBSET Files
  /\ strays \in SUBSET ({"put", "remove"} \X Files)
  /\ mirroring = "none" => copies["mirror"] = {} /\ strays = {}

\* Before the job ends there are no rows and no retention run; what its transfers have
\* answered is in the stores; and a job that fails has hurt all its files.
WhileRunning ==
  /\ ending # "running" => put = NoTransfer
  /\ ending # "filed" => filed = {} /\ touched = {} /\ purge = NoPurge /\ removing = NoTransfer
  /\ ending = "running" =>
       /\ strays = {}
       /\ \A f \in copies["primary"] : f # put.of \/ put = NoTransfer => Both(f)
       /\ put # NoTransfer =>
            /\ put.primary = "done" => put.of \in copies["primary"]
            /\ put.mirror = "done" /\ mirroring = "required" => put.of \in copies["mirror"]
  /\ ending = "failed" => hurt = Files

\* Once it has ended well no transfer of it is left, and what no retention run has found is
\* stored.
OnceFiled ==
  ending = "filed" =>
    /\ \A f \in Files : <<"put", f>> \notin strays
    /\ \A f \in filed \ touched : Both(f)
    /\ \A f \in Files \ hurt : f \in filed \/ Nowhere(f)

\* Retention is at files it has found, and those it is done with are nowhere, or were hurt.
WhileRemoving ==
  /\ \A f \in Files : <<"remove", f>> \in strays => f \in touched
  /\ purge \in [at : {"idle", "objects"}, found : SUBSET Files, left : SUBSET Files]
  /\ purge = NoPurge => removing = NoTransfer
  /\ purge.at = "idle" => purge = NoPurge
  /\ purge.left \subseteq purge.found /\ purge.found \subseteq touched
  /\ \A f \in purge.found \ purge.left : f \in hurt \/ Nowhere(f)
  /\ removing # NoTransfer =>
       /\ removing.of \in purge.left
       /\ removing.primary = "done" => removing.of \notin copies["primary"]
       /\ removing.mirror = "done" => removing.of \notin copies["mirror"]
       /\ removing.mirror = "failed" => removing.of \in hurt

\* A reader reads what has a row, and goes on to the mirror for a reason.
Readers ==
  /\ reader.at # "none" => reader.of \in filed \union touched
  /\ reader.at \in {"mirror", "missing"} /\ ~ reader.failed => reader.of \in touched
  /\ reader.at \in {"none", "primary", "mirror", "served", "missing"}
  /\ reader = [at |-> reader.at, of |-> reader.of, failed |-> reader.failed]
  /\ reader.failed \in BOOLEAN

\* The parts of the inductive invariant.
StorageInv == StorageTypes /\ WhileRunning /\ OnceFiled /\ WhileRemoving /\ Readers

\* At first the stores are empty.
LEMMA InitStorageInv == StorageInit => StorageInv
<1> SUFFICES ASSUME StorageInit PROVE StorageInv
  OBVIOUS
<1>1. copies["primary"] = {} /\ copies["mirror"] = {} /\ copies \in [Stores -> SUBSET Files]
  BY DEF StorageInit, Stores
<1>2. reader.at = "none" /\ reader.failed = FALSE /\ reader.of = "none"
  BY DEF StorageInit, NotReading
<1>3. purge.at = "idle" /\ purge.found = {} /\ purge.left = {}
      /\ purge \in [at : {"idle", "objects"}, found : SUBSET Files, left : SUBSET Files]
  BY DEF StorageInit, NoPurge
<1>4. StorageTypes /\ WhileRunning
  BY <1>1 DEF StorageInit, StorageTypes, WhileRunning
<1>5. OnceFiled /\ WhileRemoving
  BY <1>1, <1>3 DEF StorageInit, OnceFiled, WhileRemoving
<1>6. Readers
  BY <1>2 DEF StorageInit, Readers, NotReading
<1> QED BY <1>4, <1>5, <1>6 DEF StorageInv

\* What a request does to the stores: it touches one file, in the stores it is left to.
LEMMA CarriedOut ==
  ASSUME copies \in [Stores -> SUBSET Files], NEW f \in Files, NEW op \in {"put", "remove"},
         NEW where, copies' = Carried(op, where, f)
  PROVE  /\ copies' \in [Stores -> SUBSET Files]
         /\ \A w \in Stores :
              /\ w \notin where => copies'[w] = copies[w]
              /\ w \in where /\ op = "put" => copies'[w] = copies[w] \union {f}
              /\ w \in where /\ op = "remove" => copies'[w] = copies[w] \ {f}
BY DEF Carried

\* What requests whose outcome nobody learns may have done.
LEMMA LeftEffects ==
  ASSUME copies \in [Stores -> SUBSET Files], NEW f \in Files, NEW op \in {"put", "remove"},
         NEW where, copies' \in LeftToStores(op, where, f)
  PROVE  /\ copies' \in [Stores -> SUBSET Files]
         /\ \A w \in Stores :
              /\ w \notin where => copies'[w] = copies[w]
              /\ op = "remove" =>
                     copies'[w] \subseteq copies[w] /\ copies[w] \subseteq copies'[w] \union {f}
<1>1. PICK w \in SUBSET where : copies' = Carried(op, w, f)
  BY DEF LeftToStores
<1>2. /\ copies' \in [Stores -> SUBSET Files]
      /\ \A v \in Stores :
              /\ v \notin w => copies'[v] = copies[v]
              /\ v \in w /\ op = "put" => copies'[v] = copies[v] \union {f}
              /\ v \in w /\ op = "remove" => copies'[v] = copies[v] \ {f}
  BY <1>1, CarriedOut
<1> QED BY <1>2

\* A transfer begins with both stores asked, or the only one.
LEMMA Asking ==
  ASSUME mirroring \in {"none", "optional", "required"}, NEW f \in Files
  PROVE  UnderWay(AskedBoth(f)) /\ AskedBoth(f) # NoTransfer /\ AskedBoth(f).of = f
         /\ AskedBoth(f).primary = "asked" /\ AskedBoth(f).mirror \in {"asked", "done"}
         /\ (AskedBoth(f).mirror = "done" => mirroring = "none")
BY DEF UnderWay, AskedBoth, NoTransfer, Transfers

\* A transfer that begins.
LEMMA BeginsKeep ==
  ASSUME StorageInv, NEW f \in Files, BeginPut(f) \/ BeginRemoval(f)
  PROVE  StorageInv'
<1>1. /\ UnderWay(AskedBoth(f)) /\ AskedBoth(f) # NoTransfer /\ AskedBoth(f).of = f
      /\ AskedBoth(f).primary = "asked" /\ AskedBoth(f).mirror \in {"asked", "done"}
      /\ AskedBoth(f).mirror = "done" => mirroring = "none"
  BY Asking DEF StorageInv, StorageTypes
<1> DEFINE t == AskedBoth(f)
<1> HIDE DEF t
<1>2. CASE BeginPut(f)
  <2>1. /\ put' = t /\ UNCHANGED <<mirroring, copies, ending, filed, purge, removing, strays, reader,
                    touched, hurt>>
        /\ ending = "running" /\ f \notin copies["primary"] /\ put = NoTransfer
    BY <1>2 DEF BeginPut, t, Stored
  <2>2. StorageTypes'
    BY <1>1, <2>1 DEF StorageInv, StorageTypes, UnderWay, t
  <2>3. WhileRunning'
    BY <1>1, <2>1 DEF StorageInv, WhileRunning, t, Both
  <2> QED BY <2>1, <2>2, <2>3 DEF StorageInv, OnceFiled, WhileRemoving, Readers, Both, Nowhere
<1>3. CASE BeginRemoval(f)
  <2>1. /\ removing' = t /\ UNCHANGED <<mirroring, copies, ending, put, filed, purge, strays, reader,
                    touched, hurt>>
        /\ f \in purge.left /\ purge.at = "objects"
    BY <1>3 DEF BeginRemoval, t
  <2>2. StorageTypes'
    BY <1>1, <2>1 DEF StorageInv, StorageTypes, UnderWay, t
  <2>3. purge # NoPurge
    BY <2>1 DEF NoPurge
  <2>4. WhileRemoving'
    BY <1>1, <2>1, <2>3 DEF StorageInv, StorageTypes, WhileRemoving, Nowhere, t
  <2>5. WhileRunning'
    BY <2>1, <2>3 DEF StorageInv, WhileRunning, Both
  <2> QED BY <2>1, <2>2, <2>4, <2>5 DEF StorageInv, OnceFiled, Readers, Both, Nowhere
<1> QED BY <1>2, <1>3

\* The rows are written once all files are stored.
LEMMA FilingKeeps ==
  ASSUME StorageInv, FileArtifacts
  PROVE  StorageInv'
<1>1. /\ ending = "running" /\ put = NoTransfer /\ copies["primary"] = Files
      /\ ending' = "filed" /\ filed' = Files
      /\ UNCHANGED <<mirroring, copies, put, purge, removing, strays, reader,
                    touched, hurt>>
  BY DEF FileArtifacts, Stored
<1>2. \A f \in Files : Both(f)
  BY <1>1 DEF StorageInv, WhileRunning
<1>3. strays = {} /\ touched = {}
  BY <1>1 DEF StorageInv, WhileRunning
<1>4. StorageTypes' /\ WhileRunning'
  BY <1>1 DEF StorageInv, StorageTypes, WhileRunning, UnderWay
<1>5. OnceFiled'
  BY <1>1, <1>2, <1>3 DEF OnceFiled, Both
<1>6. WhileRemoving' /\ Readers'
  BY <1>1, <1>3 DEF StorageInv, WhileRunning, WhileRemoving, Readers, Nowhere
<1> QED BY <1>4, <1>5, <1>6 DEF StorageInv

\* A job that fails has hurt all its files.
LEMMA FailedKeeps ==
  ASSUME StorageInv, ending = "running", ending' = "failed", put' = NoTransfer, hurt' = Files,
         copies' \in [Stores -> SUBSET Files],
         mirroring = "none" => copies'["mirror"] = {} /\ strays' = {},
         strays' \in SUBSET ({"put"} \X Files),
         UNCHANGED <<mirroring, filed, purge, removing, reader, touched>>
  PROVE  StorageInv'
<1>1. StorageTypes'
  BY DEF StorageInv, StorageTypes, UnderWay
<1>2. WhileRunning' /\ OnceFiled' /\ Readers'
  BY DEF StorageInv, WhileRunning, OnceFiled, Readers
<1>3. WhileRemoving'
  <2>1. purge = NoPurge /\ removing = NoTransfer /\ purge.found = {} /\ touched = {}
    BY DEF StorageInv, WhileRunning, NoPurge
  <2>2. \A f \in Files : <<"remove", f>> \notin strays'
    OBVIOUS
  <2>3. /\ purge \in [at : {"idle", "objects"}, found : SUBSET Files, left : SUBSET Files]
        /\ purge.at = "idle" => purge = NoPurge
        /\ purge.left \subseteq purge.found /\ purge.found \subseteq touched
    BY DEF StorageInv, WhileRemoving
  <2> QED BY <2>1, <2>2, <2>3 DEF WhileRemoving
<1> QED BY <1>1, <1>2, <1>3 DEF StorageInv

\* A worker that dies leaves its transfers to the stores.
LEMMA EndKeeps ==
  ASSUME StorageInv, EndWithoutRows
  PROVE  StorageInv'
<1>1. /\ ending = "running" /\ ending' = "failed" /\ put' = NoTransfer /\ hurt' = Files
      /\ copies' \in LeftToStores("put", Unanswered(put), put.of)
      /\ UNCHANGED <<mirroring, filed, purge, removing, strays, reader, touched>>
  BY DEF EndWithoutRows
<1>2. strays' \in SUBSET ({"put"} \X Files)
  BY <1>1 DEF StorageInv, WhileRunning
<1>3. copies' \in [Stores -> SUBSET Files] /\ (mirroring = "none" => copies'["mirror"] = {})
  <2>1. CASE put = NoTransfer
    <3>1. Unanswered(put) = {}
      BY <2>1 DEF Unanswered, NoTransfer, Stores
    <3>2. copies' = Carried("put", {}, put.of)
      BY <1>1, <3>1 DEF LeftToStores
    <3>3. copies' = copies
      BY <3>2 DEF Carried, StorageInv, StorageTypes
    <3> QED BY <3>3 DEF StorageInv, StorageTypes
  <2>2. CASE UnderWay(put)
    <3>1. put.of \in Files /\ (mirroring = "none" => "mirror" \notin Unanswered(put))
      BY <2>2 DEF UnderWay, Unanswered
    <3>2. "mirror" \in Stores /\ "put" \in {"put", "remove"}
      BY DEF Stores
    <3>3. copies \in [Stores -> SUBSET Files] /\ (mirroring = "none" => copies["mirror"] = {})
      BY DEF StorageInv, StorageTypes
    <3>4. /\ copies' \in [Stores -> SUBSET Files]
          /\ \A w \in Stores : w \notin Unanswered(put) => copies'[w] = copies[w]
      BY <1>1, <3>1, <3>2, <3>3, LeftEffects
    <3> QED BY <3>1, <3>2, <3>3, <3>4
  <2> QED BY <2>1, <2>2 DEF StorageInv, StorageTypes
<1>4. mirroring = "none" => strays' = {}
  BY <1>1 DEF StorageInv, StorageTypes
<1> QED BY <1>1, <1>2, <1>3, <1>4, FailedKeeps

\* What a store answers to the worker.
LEMMA PutKeeps ==
  ASSUME StorageInv, NEW s \in Stores, AnswerPut(s)
  PROVE  StorageInv'
<1>1. put[s] = "asked"
  BY DEF AnswerPut
<1>40. PICK answer \in {"done", "failed"} : \E t :
        /\ t = [put EXCEPT ![s] = answer]
        /\ StoreAnswers("put", s, put.of, answer,
                       IF Unhandled(put, s, answer) THEN Unanswered(t) ELSE {},
                       IF Unhandled(put, s, answer) \/ Rejected(t) THEN Files ELSE {put.of})
        /\ IF Unhandled(put, s, answer) \/ (Answered(t) /\ Rejected(t))
           THEN /\ ending' = "failed" /\ put' = NoTransfer
                /\ strays' = IF Unhandled(put, s, answer) THEN strays
                             ELSE strays \union LeftBehind("put", t)
           ELSE /\ put' = IF Answered(t) THEN NoTransfer ELSE t
                /\ UNCHANGED <<ending, strays>>
  BY DEF AnswerPut
<1>2. PICK t :
        /\ t = [put EXCEPT ![s] = answer]
        /\ StoreAnswers("put", s, put.of, answer,
                       IF Unhandled(put, s, answer) THEN Unanswered(t) ELSE {},
                       IF Unhandled(put, s, answer) \/ Rejected(t) THEN Files ELSE {put.of})
        /\ IF Unhandled(put, s, answer) \/ (Answered(t) /\ Rejected(t))
           THEN /\ ending' = "failed" /\ put' = NoTransfer
                /\ strays' = IF Unhandled(put, s, answer) THEN strays
                             ELSE strays \union LeftBehind("put", t)
           ELSE /\ put' = IF Answered(t) THEN NoTransfer ELSE t
                /\ UNCHANGED <<ending, strays>>
  BY <1>40
<1>3. UNCHANGED <<mirroring, filed, aged, purge, removing, reader, touched>>
  BY DEF AnswerPut
<1>4. put # NoTransfer /\ UnderWay(put) /\ ending = "running"
  <2>1. put # NoTransfer
    BY <1>1 DEF NoTransfer, Stores
  <2> QED BY <2>1 DEF StorageInv, StorageTypes, WhileRunning
<1>5. /\ t \in Transfers /\ t.of = put.of /\ put.of \in Files
      /\ s = "primary" => t.primary = answer /\ t.mirror = put.mirror
      /\ s = "mirror" => t.mirror = answer /\ t.primary = put.primary
      /\ s \in {"primary", "mirror"}
  BY <1>2, <1>4 DEF UnderWay, Transfers, Stores
<1> DEFINE left == IF Unhandled(put, s, answer) THEN Unanswered(t) ELSE {}
           harmed == IF Unhandled(put, s, answer) \/ Rejected(t) THEN Files ELSE {put.of}
<1>6. left \in SUBSET Stores /\ (mirroring = "none" => left = {} /\ s # "mirror")
  BY <1>1, <1>4 DEF Unanswered, Unhandled, UnderWay
<1>0. PICK p \in Files : p = put.of
  BY <1>5
<1>7. StoreAnswers("put", s, p, answer, left, harmed)
  BY <1>0, <1>2
<1>8. "put" \in {"put", "remove"} /\ copies \in [Stores -> SUBSET Files]
  BY DEF StorageInv, StorageTypes
<1>9. harmed \in SUBSET Files
  BY <1>5
<1> HIDE DEF left, harmed
<1>10. /\ copies' \in [Stores -> SUBSET Files]
       /\ \A w \in Stores :
              /\ copies[w] \subseteq copies'[w] /\ copies'[w] \subseteq copies[w] \union {p}
              /\ w \notin left /\ w # s => copies'[w] = copies[w]
       /\ answer = "done" => p \in copies'[s] /\ hurt' = hurt
       /\ answer = "failed" => hurt' = hurt \union harmed
  <2>1. PICK where \in SUBSET Stores :
          /\ copies' = Carried("put", where, p) /\ where \subseteq {s} \union left
          /\ \/ answer = "done" /\ where = {s} /\ hurt' = hurt
             \/ answer = "failed" /\ hurt' = hurt \union harmed
    BY <1>6, <1>7, <1>8 DEF StoreAnswers, LeftToStores
  <2>2. /\ copies' \in [Stores -> SUBSET Files]
        /\ \A w \in Stores :
             /\ w \notin where => copies'[w] = copies[w]
             /\ w \in where => copies'[w] = copies[w] \union {p}
    BY <2>1, CarriedOut, <1>6, <1>7, <1>8
  <2> QED BY <2>1, <2>2, <1>6, <1>7, <1>8
<1>11. mirroring = "none" => copies'["mirror"] = {}
  BY <1>6, <1>10 DEF StorageInv, StorageTypes, Stores
<1>12. hurt' \in SUBSET Files
  BY <1>2, <1>9, <1>10 DEF StorageInv, StorageTypes
<1>13. CASE Unhandled(put, s, answer) \/ (Answered(t) /\ Rejected(t))
  <2>1. answer = "failed" /\ harmed = Files
    BY <1>2, <1>4, <1>5, <1>13 DEF Unhandled, Answered, Rejected, UnderWay, harmed
  <2>2. hurt' = Files
    BY <1>10, <1>12, <2>1 
  <2>3. strays' \in SUBSET ({"put"} \X Files)
    BY <1>2, <1>4, <1>5, <1>13 DEF LeftBehind, StorageInv, WhileRunning
  <2>4. mirroring = "none" => strays' = {}
    BY <1>2, <1>4, <1>5, <1>6, <1>13 DEF LeftBehind, StorageInv, StorageTypes, UnderWay
  <2> QED BY <1>2, <1>3, <1>4, <1>10, <1>11, <1>13, <2>2, <2>3, <2>4, FailedKeeps
<1>14. CASE ~ (Unhandled(put, s, answer) \/ (Answered(t) /\ Rejected(t)))
  <2>1. UNCHANGED <<ending, strays>> /\ put' = IF Answered(t) THEN NoTransfer ELSE t
    BY <1>2, <1>14
  <2>2. \A w \in Stores : w # s => copies'[w] = copies[w]
    BY <1>10, <1>14 DEF left
  <2>3. ~ Answered(t) => UnderWay(t) /\ t # NoTransfer
    <3>1. mirroring \in {"none", "optional", "required"}
      BY DEF StorageInv, StorageTypes
    <3> SUFFICES ASSUME ~ Answered(t) PROVE UnderWay(t) /\ t # NoTransfer
      OBVIOUS
    <3>2. CASE s = "primary"
      BY <1>1, <1>4, <1>5, <1>14, <3>1, <3>2 DEF UnderWay, Answered, NoTransfer, Transfers
    <3>3. CASE s = "mirror"
      BY <1>1, <1>4, <1>5, <1>14, <3>1, <3>3 DEF UnderWay, Answered, Unhandled, NoTransfer, Transfers
    <3> QED BY <1>5, <3>2, <3>3
  <2>4. StorageTypes'
    BY <1>3, <1>8, <1>10, <1>11, <1>12, <2>1, <2>3 DEF StorageInv, StorageTypes, UnderWay
  <2>5. /\ t.primary = "done" => p \in copies'["primary"]
        /\ t.mirror = "done" /\ mirroring = "required" => p \in copies'["mirror"]
    BY <1>0, <1>4, <1>5, <1>10 DEF StorageInv, WhileRunning, Stores
  <2>6. \A f \in copies'["primary"] : f # p => Both(f)'
    BY <1>0, <1>3, <1>4, <1>10 DEF StorageInv, WhileRunning, Both, Stores
  <2>7. Answered(t) => Both(p)'
    BY <1>3, <1>5, <1>14, <2>5 DEF Both, Answered, Rejected, Transfers
  <2>8. WhileRunning'
    BY <1>0, <1>3, <1>4, <1>5, <2>1, <2>3, <2>5, <2>6, <2>7 DEF StorageInv, WhileRunning
  <2>9. purge = NoPurge /\ removing = NoTransfer /\ purge.found = {} /\ touched = {}
    BY <1>4 DEF StorageInv, WhileRunning, NoPurge
  <2>10. WhileRemoving'
    BY <1>3, <2>1, <2>9 DEF StorageInv, WhileRemoving
  <2> QED BY <1>3, <1>4, <2>1, <2>4, <2>8, <2>10 DEF StorageInv, OnceFiled, Readers
<1> QED BY <1>13, <1>14

\* A step that only shrinks the stores, where retention may.
LEMMA FilesLeave ==
  ASSUME StorageTypes, OnceFiled, ending = "filed", ending' = ending, mirroring' = mirroring,
         filed' = filed, touched' = touched, hurt \subseteq hurt',
         NEW f \in touched, copies' \in [Stores -> SUBSET Files],
         strays' \intersect ({"put"} \X Files) \subseteq strays,
         \A w \in Stores : copies'[w] \subseteq copies[w] /\ copies[w] \subseteq copies'[w] \union {f}
  PROVE  OnceFiled' /\ (mirroring' = "none" => copies'["mirror"] = {})
         /\ \A g \in Files : Nowhere(g) => Nowhere(g)'
<1>1. /\ copies'["primary"] \subseteq copies["primary"]
      /\ copies["primary"] \subseteq copies'["primary"] \union {f}
      /\ copies'["mirror"] \subseteq copies["mirror"]
      /\ copies["mirror"] \subseteq copies'["mirror"] \union {f}
  BY DEF Stores
<1>2. \A g \in filed' \ touched' : Both(g)'
  BY <1>1 DEF OnceFiled, Both
<1>3. \A g \in Files : Nowhere(g) => Nowhere(g)'
  BY <1>1 DEF Nowhere
<1>4. \A g \in Files \ hurt' : g \in filed' \/ Nowhere(g)'
  BY <1>3 DEF OnceFiled
<1>5. \A g \in Files : <<"put", g>> \notin strays'
  BY DEF OnceFiled
<1>6. mirroring' = "none" => copies'["mirror"] = {}
  BY <1>1 DEF StorageTypes
<1> QED BY <1>2, <1>3, <1>4, <1>5, <1>6 DEF OnceFiled

\* A retention run is only where there are rows.
LEMMA PurgesAreLate ==
  ASSUME StorageInv, purge # NoPurge \/ removing # NoTransfer
  PROVE  ending = "filed" /\ purge # NoPurge
BY DEF StorageInv, StorageTypes, WhileRunning, WhileRemoving

\* What a store answers to a retention run.
LEMMA RemovalKeeps ==
  ASSUME StorageInv, NEW s \in Stores, AnswerRemoval(s)
  PROVE  StorageInv'
<1>1. removing[s] = "asked"
  BY DEF AnswerRemoval
<1>40. PICK answer \in {"done", "failed"} : \E t :
        /\ t = [removing EXCEPT ![s] = answer]
        /\ StoreAnswers("remove", s, removing.of, answer,
                       IF Unhandled(removing, s, answer) THEN Unanswered(t) ELSE {}, {removing.of})
        /\ IF Unhandled(removing, s, answer)
           THEN purge' = NoPurge /\ removing' = NoTransfer /\ UNCHANGED strays
           ELSE IF Answered(t)
           THEN /\ purge' = [purge EXCEPT !.left = @ \ {t.of}] /\ removing' = NoTransfer
                /\ strays' = strays \union LeftBehind("remove", t)
           ELSE removing' = t /\ UNCHANGED <<purge, strays>>
  BY DEF AnswerRemoval
<1>2. PICK t :
        /\ t = [removing EXCEPT ![s] = answer]
        /\ StoreAnswers("remove", s, removing.of, answer,
                       IF Unhandled(removing, s, answer) THEN Unanswered(t) ELSE {}, {removing.of})
        /\ IF Unhandled(removing, s, answer)
           THEN purge' = NoPurge /\ removing' = NoTransfer /\ UNCHANGED strays
           ELSE IF Answered(t)
           THEN /\ purge' = [purge EXCEPT !.left = @ \ {t.of}] /\ removing' = NoTransfer
                /\ strays' = strays \union LeftBehind("remove", t)
           ELSE removing' = t /\ UNCHANGED <<purge, strays>>
  BY <1>40
<1>3. UNCHANGED <<mirroring, ending, put, filed, aged, reader, touched>>
  BY DEF AnswerRemoval
<1>4. removing # NoTransfer /\ UnderWay(removing) /\ ending = "filed" /\ purge # NoPurge
  <2>1. removing # NoTransfer
    BY <1>1 DEF NoTransfer, Stores
  <2> QED BY <2>1, PurgesAreLate DEF StorageInv, StorageTypes
<1>5. PICK p \in Files : p = removing.of
  BY <1>4 DEF UnderWay
<1>6. /\ t \in Transfers /\ t.of = p /\ p \in purge.left /\ p \in touched
      /\ s = "primary" => t.primary = answer /\ t.mirror = removing.mirror
      /\ s = "mirror" => t.mirror = answer /\ t.primary = removing.primary
      /\ s \in {"primary", "mirror"}
  BY <1>2, <1>4, <1>5 DEF UnderWay, Transfers, Stores, StorageInv, WhileRemoving
<1> DEFINE left == IF Unhandled(removing, s, answer) THEN Unanswered(t) ELSE {}
<1>7. left \in SUBSET Stores
  BY DEF Unanswered
<1>8. StoreAnswers("remove", s, p, answer, left, {p})
  BY <1>2, <1>5
<1>9. "remove" \in {"put", "remove"} /\ copies \in [Stores -> SUBSET Files]
  BY DEF StorageInv, StorageTypes
<1> HIDE DEF left
<1>10. /\ copies' \in [Stores -> SUBSET Files]
       /\ \A w \in Stores :
              /\ copies'[w] \subseteq copies[w] /\ copies[w] \subseteq copies'[w] \union {p}
              /\ w \notin left /\ w # s => copies'[w] = copies[w]
       /\ answer = "done" => p \notin copies'[s] /\ hurt' = hurt
       /\ answer = "failed" => hurt' = hurt \union {p}
  <2>1. PICK where \in SUBSET Stores :
          /\ copies' = Carried("remove", where, p) /\ where \subseteq {s} \union left
          /\ \/ answer = "done" /\ where = {s} /\ hurt' = hurt
             \/ answer = "failed" /\ hurt' = hurt \union {p}
    BY <1>7, <1>8, <1>9 DEF StoreAnswers, LeftToStores
  <2>2. /\ copies' \in [Stores -> SUBSET Files]
        /\ \A w \in Stores :
             /\ w \notin where => copies'[w] = copies[w]
             /\ w \in where => copies'[w] = copies[w] \ {p}
    BY <2>1, CarriedOut, <1>7, <1>8, <1>9
  <2> QED BY <2>1, <2>2, <1>7, <1>8, <1>9
<1>11. hurt \subseteq hurt' /\ hurt' \in SUBSET Files
  BY <1>2, <1>10 DEF StorageInv, StorageTypes
<1>12. strays' = strays \/ (/\ strays' = strays \union LeftBehind("remove", t)
                              /\ Answered(t) /\ ~ Unhandled(removing, s, answer))
  BY <1>2
<1>13. LeftBehind("remove", t) \in SUBSET {<<"remove", p>>}
  BY <1>6 DEF LeftBehind
<1>14. /\ OnceFiled' /\ (mirroring' = "none" => copies'["mirror"] = {})
       /\ \A g \in Files : Nowhere(g) => Nowhere(g)'
  <2>1. strays' \intersect ({"put"} \X Files) \subseteq strays
    BY <1>12, <1>13
  <2> QED BY <1>3, <1>4, <1>6, <1>10, <1>11, <2>1, FilesLeave DEF StorageInv
<1>15. Readers'
  BY <1>3 DEF StorageInv, Readers
<1>16. WhileRunning'
  BY <1>2, <1>3, <1>4, <1>11 DEF StorageInv, WhileRunning
<1>17. ~ Unhandled(removing, s, answer) /\ ~ Answered(t) => UnderWay(t) /\ t # NoTransfer
  <2>1. mirroring \in {"none", "optional", "required"}
    BY DEF StorageInv, StorageTypes
  <2> SUFFICES ASSUME ~ Answered(t), ~ Unhandled(removing, s, answer) PROVE UnderWay(t) /\ t # NoTransfer
    OBVIOUS
  <2>2. CASE s = "primary"
    BY <1>1, <1>4, <1>6, <2>1, <2>2 DEF UnderWay, Answered, NoTransfer, Transfers
  <2>3. CASE s = "mirror"
    BY <1>1, <1>4, <1>6, <2>1, <2>3 DEF UnderWay, Answered, Unhandled, NoTransfer, Transfers
  <2> QED BY <1>6, <2>2, <2>3
<1>18. StorageTypes'
  <2>1. strays' \in SUBSET ({"put", "remove"} \X Files)
    BY <1>12, <1>13 DEF StorageInv, StorageTypes
  <2>2. removing' = NoTransfer \/ UnderWay(removing)'
    <3>1. removing' = t /\ UnderWay(t) => UnderWay(removing)'
      BY <1>3 DEF UnderWay
    <3> QED BY <1>2, <1>17, <3>1
  <2>3. put' = NoTransfer \/ UnderWay(put)'
    BY <1>3 DEF StorageInv, StorageTypes, UnderWay
  <2>4. mirroring = "none" => strays' = {}
    <3>1. mirroring = "none" => strays = {} /\ removing.mirror = "done" /\ s # "mirror"
      BY <1>1, <1>4 DEF StorageInv, StorageTypes, UnderWay
    <3> QED BY <1>6, <1>12, <3>1 DEF LeftBehind
  <2> QED BY <1>3, <1>10, <1>11, <1>14, <2>1, <2>2, <2>3, <2>4 DEF StorageInv, StorageTypes
<1>19. /\ \A f \in Files : <<"remove", f>> \in strays' => f \in touched'
       /\ purge \in [at : {"idle", "objects"}, found : SUBSET Files, left : SUBSET Files]
       /\ purge.at # "idle" /\ purge.left \subseteq purge.found /\ purge.found \subseteq touched
       /\ \A f \in purge.found \ purge.left : f \in hurt' \/ Nowhere(f)'
  <2>1. /\ purge \in [at : {"idle", "objects"}, found : SUBSET Files, left : SUBSET Files]
        /\ purge.at # "idle" /\ purge.left \subseteq purge.found /\ purge.found \subseteq touched
    BY <1>4 DEF StorageInv, WhileRemoving
  <2>2. \A f \in purge.found \ purge.left : f \in hurt \/ Nowhere(f)
    BY DEF StorageInv, WhileRemoving
  <2>3. \A f \in Files : <<"remove", f>> \in strays' => f \in touched'
    BY <1>3, <1>6, <1>12, <1>13 DEF StorageInv, WhileRemoving
  <2> QED BY <1>11, <1>14, <2>1, <2>2, <2>3
<1>20. CASE Unhandled(removing, s, answer)
  <2>1. purge' = NoPurge /\ removing' = NoTransfer
    BY <1>2, <1>20
  <2>2. WhileRemoving'
    BY <1>3, <1>19, <2>1 DEF WhileRemoving, NoPurge
  <2> QED BY <1>14, <1>15, <1>16, <1>18, <2>2 DEF StorageInv
<1>21. \/ answer = "failed" /\ p \in hurt'
       \/ answer = "done" /\ p \notin copies'[s] /\ hurt' = hurt
  BY <1>2, <1>10
<1>22. /\ removing.primary = "done" => p \notin copies'["primary"]
       /\ removing.mirror = "done" => p \notin copies'["mirror"]
       /\ removing.mirror = "failed" => p \in hurt'
  BY <1>4, <1>5, <1>10, <1>11 DEF StorageInv, WhileRemoving, Stores
<1>23. /\ t.primary = "done" => p \notin copies'["primary"]
       /\ t.mirror = "done" => p \notin copies'["mirror"]
       /\ t.mirror = "failed" => p \in hurt'
  BY <1>6, <1>21, <1>22
<1>24. t.primary = "failed" => p \in hurt'
  <2>1. removing.primary # "failed"
    BY <1>4 DEF UnderWay
  <2> QED BY <1>6, <1>21, <2>1
<1>25. CASE ~ Unhandled(removing, s, answer) /\ Answered(t)
  <2>1. purge' = [purge EXCEPT !.left = @ \ {p}] /\ removing' = NoTransfer
    BY <1>2, <1>6, <1>25
  <2>2. /\ purge' \in [at : {"idle", "objects"}, found : SUBSET Files, left : SUBSET Files]
        /\ purge'.at = purge.at /\ purge'.found = purge.found /\ purge'.left = purge.left \ {p}
    BY <1>19, <2>1
  <2>3. p \in hurt' \/ Nowhere(p)'
    BY <1>6, <1>23, <1>24, <1>25 DEF Answered, Transfers, Nowhere
  <2>4. \A f \in purge'.found \ purge'.left : f \in hurt' \/ Nowhere(f)'
    BY <1>19, <2>2, <2>3
  <2>5. WhileRemoving'
    BY <1>3, <1>19, <2>1, <2>2, <2>4 DEF WhileRemoving
  <2> QED BY <1>14, <1>15, <1>16, <1>18, <2>5 DEF StorageInv
<1>26. CASE ~ Unhandled(removing, s, answer) /\ ~ Answered(t)
  <2>1. removing' = t /\ UNCHANGED purge
    BY <1>2, <1>26
  <2>2. WhileRemoving'
    BY <1>3, <1>4, <1>6, <1>19, <1>23, <2>1 DEF WhileRemoving
  <2> QED BY <1>14, <1>15, <1>16, <1>18, <2>2 DEF StorageInv
<1> QED BY <1>20, <1>25, <1>26

\* An API that dies leaves its deletions to the stores.
LEMMA DeathKeeps ==
  ASSUME StorageInv, DieInPurge
  PROVE  StorageInv'
<1>1. /\ purge # NoPurge /\ purge' = NoPurge /\ removing' = NoTransfer
      /\ copies' \in LeftToStores("remove", Unanswered(removing), removing.of)
      /\ hurt' = hurt \union {f \in Files : f = removing.of}
      /\ UNCHANGED <<mirroring, ending, put, filed, strays, reader, touched>>
  BY DEF DieInPurge
<1>2. ending = "filed"
  BY <1>1, PurgesAreLate
<1>3. hurt \subseteq hurt' /\ hurt' \in SUBSET Files
  BY <1>1 DEF StorageInv, StorageTypes
<1>4. copies \in [Stores -> SUBSET Files]
  BY DEF StorageInv, StorageTypes
<1>5. /\ copies' \in [Stores -> SUBSET Files]
      /\ OnceFiled' /\ (mirroring' = "none" => copies'["mirror"] = {})
  <2>1. CASE removing = NoTransfer
    <3>1. Unanswered(removing) = {}
      BY <2>1 DEF Unanswered, NoTransfer, Stores
    <3>2. copies' = Carried("remove", {}, removing.of)
      BY <1>1, <3>1 DEF LeftToStores
    <3>3. copies' = copies
      BY <1>4, <3>2 DEF Carried
    <3> QED BY <1>1, <1>3, <1>4, <3>3 DEF StorageInv, StorageTypes, OnceFiled, Both, Nowhere
  <2>2. CASE removing # NoTransfer
    <3>1. PICK f \in touched : f = removing.of /\ f \in Files
      BY <2>2 DEF StorageInv, StorageTypes, WhileRemoving
    <3>2. copies' \in LeftToStores("remove", Unanswered(removing), f) /\ "remove" \in {"put", "remove"}
      BY <1>1, <3>1
    <3>3. /\ copies' \in [Stores -> SUBSET Files]
          /\ \A w \in Stores :
              /\ w \notin Unanswered(removing) => copies'[w] = copies[w]
              /\ copies'[w] \subseteq copies[w] /\ copies[w] \subseteq copies'[w] \union {f}
      BY <1>4, <3>1, <3>2, LeftEffects
    <3>4. strays' \intersect ({"put"} \X Files) \subseteq strays
      BY <1>1
    <3> QED BY <1>1, <1>2, <1>3, <3>3, <3>4, FilesLeave DEF StorageInv
  <2> QED BY <2>1, <2>2
<1>6. StorageTypes'
  BY <1>1, <1>3, <1>5 DEF StorageInv, StorageTypes, UnderWay
<1>7. WhileRunning' /\ Readers'
  BY <1>1, <1>2, <1>3 DEF StorageInv, WhileRunning, Readers
<1>8. WhileRemoving'
  BY <1>1 DEF StorageInv, WhileRemoving, NoPurge
<1> QED BY <1>5, <1>6, <1>7, <1>8 DEF StorageInv

\* The mirror answers a request nobody awaits.
LEMMA StraysKeep ==
  ASSUME StorageInv, NEW op \in {"put", "remove"}, NEW f \in Files, EndStray(op, f)
  PROVE  StorageInv'
<1>1. <<op, f>> \in strays /\ strays' = strays \ {<<op, f>>}
      /\ UNCHANGED <<mirroring, ending, put, filed, reader, touched>>
  BY DEF EndStray
<1>2. PICK answer, harmed :
        /\ answer \in {"done", "failed"}
        /\ StoreAnswers(op, "mirror", f, answer, {}, harmed)
        /\ harmed \subseteq {f} \union purge.left
        /\ \/ purge' = NoPurge /\ removing' = NoTransfer /\ op = "remove"
           \/ UNCHANGED <<purge, removing>>
  BY DEF EndStray
<1>3. copies \in [Stores -> SUBSET Files] /\ "mirror" \in Stores /\ {} \in SUBSET Stores
      /\ "primary" \in Stores
  BY DEF StorageInv, StorageTypes, Stores
<1>4. /\ copies' \in [Stores -> SUBSET Files]
      /\ copies'["primary"] = copies["primary"]
      /\ op = "remove" => \A w \in Stores :
              copies'[w] \subseteq copies[w] /\ copies[w] \subseteq copies'[w] \union {f}
      /\ hurt' = hurt \/ hurt' = hurt \union harmed
  <2>1. PICK left \in SUBSET Stores, s \in Stores : left = {} /\ s = "mirror"
    BY <1>3
  <2>2. StoreAnswers(op, s, f, answer, left, harmed)
    BY <1>2, <2>1
  <2>3. "primary" \notin left /\ "primary" # s
    BY <2>1
  <2>4. CASE op = "put"
    <3>1. StoreAnswers("put", s, f, answer, left, harmed)
      BY <2>2, <2>4
    <3>2. /\ copies' \in [Stores -> SUBSET Files]
          /\ \A w \in Stores : w \notin left /\ w # s => copies'[w] = copies[w]
          /\ answer = "done" => hurt' = hurt
          /\ answer = "failed" => hurt' = hurt \union harmed
      <4>1. PICK where \in SUBSET Stores :
              /\ copies' = Carried("put", where, f) /\ where \subseteq {s} \union left
              /\ \/ answer = "done" /\ where = {s} /\ hurt' = hurt
                 \/ answer = "failed" /\ hurt' = hurt \union harmed
        BY <1>3, <3>1 DEF StoreAnswers, LeftToStores
      <4>2. /\ copies' \in [Stores -> SUBSET Files]
            /\ \A w \in Stores :
                 /\ w \notin where => copies'[w] = copies[w]
                 /\ w \in where => copies'[w] = copies[w] \union {f}
        BY <4>1, CarriedOut, <1>3, <3>1
      <4> QED BY <4>1, <4>2, <1>3, <3>1
    <3> QED BY <1>2, <1>3, <2>3, <2>4, <3>2
  <2>5. CASE op = "remove"
    <3>1. StoreAnswers("remove", s, f, answer, left, harmed)
      BY <2>2, <2>5
    <3>2. /\ copies' \in [Stores -> SUBSET Files]
          /\ \A w \in Stores :
               /\ copies'[w] \subseteq copies[w] /\ copies[w] \subseteq copies'[w] \union {f}
               /\ w \notin left /\ w # s => copies'[w] = copies[w]
          /\ answer = "done" => hurt' = hurt
          /\ answer = "failed" => hurt' = hurt \union harmed
      <4>1. PICK where \in SUBSET Stores :
              /\ copies' = Carried("remove", where, f) /\ where \subseteq {s} \union left
              /\ \/ answer = "done" /\ where = {s} /\ hurt' = hurt
                 \/ answer = "failed" /\ hurt' = hurt \union harmed
        BY <1>3, <3>1 DEF StoreAnswers, LeftToStores
      <4>2. /\ copies' \in [Stores -> SUBSET Files]
            /\ \A w \in Stores :
                 /\ w \notin where => copies'[w] = copies[w]
                 /\ w \in where => copies'[w] = copies[w] \ {f}
        BY <4>1, CarriedOut, <1>3, <3>1
      <4> QED BY <4>1, <4>2, <1>3, <3>1
    <3> QED BY <1>2, <1>3, <2>3, <3>2
  <2> QED BY <2>4, <2>5
<1>5. mirroring # "none" /\ ending # "running"
  BY <1>1 DEF StorageInv, StorageTypes, WhileRunning
<1>6. hurt \subseteq hurt' /\ hurt' \in SUBSET Files
  BY <1>2, <1>4 DEF StorageInv, StorageTypes, WhileRemoving
<1>7. StorageTypes'
  BY <1>1, <1>2, <1>4, <1>5, <1>6 DEF StorageInv, StorageTypes, UnderWay
<1>8. Readers'
  BY <1>1 DEF StorageInv, Readers
<1>9. WhileRunning'
  BY <1>1, <1>2, <1>5, <1>6 DEF StorageInv, WhileRunning
<1>10. CASE op = "put"
  <2>1. ending = "failed" /\ purge = NoPurge /\ touched = {} /\ removing = NoTransfer
        /\ UNCHANGED <<purge, removing>>
    BY <1>1, <1>2, <1>5, <1>10 DEF StorageInv, StorageTypes, WhileRunning, OnceFiled
  <2>2. OnceFiled'
    BY <1>1, <2>1 DEF OnceFiled
  <2>3. WhileRemoving'
    BY <1>1, <2>1 DEF StorageInv, WhileRemoving, NoPurge
  <2> QED BY <1>7, <1>8, <1>9, <2>2, <2>3 DEF StorageInv
<1>11. CASE op = "remove"
  <2>1. f \in touched /\ ending = "filed"
    BY <1>1, <1>11 DEF StorageInv, StorageTypes, WhileRunning, WhileRemoving
  <2>2. OnceFiled' /\ \A g \in Files : Nowhere(g) => Nowhere(g)'
    <3>1. strays' \intersect ({"put"} \X Files) \subseteq strays
      BY <1>1
    <3>2. \A w \in Stores : copies'[w] \subseteq copies[w] /\ copies[w] \subseteq copies'[w] \union {f}
      BY <1>4, <1>11
    <3> QED BY <1>1, <1>4, <1>6, <2>1, <3>1, <3>2, FilesLeave DEF StorageInv
  <2>3. \A g \in Files : <<"remove", g>> \in strays' => g \in touched'
    BY <1>1 DEF StorageInv, WhileRemoving
  <2>4. WhileRemoving'
    <3>1. CASE purge' = NoPurge /\ removing' = NoTransfer
      BY <2>3, <3>1 DEF WhileRemoving, NoPurge
    <3>2. CASE UNCHANGED <<purge, removing>>
      <4>1. \A w \in Stores : copies'[w] \subseteq copies[w]
        BY <1>4, <1>11
      <4>2. \A g \in purge'.found \ purge'.left : g \in hurt' \/ Nowhere(g)'
        BY <1>6, <2>2, <3>2 DEF StorageInv, StorageTypes, WhileRemoving
      <4>3. removing' # NoTransfer =>
               /\ removing'.of \in purge'.left
               /\ removing'.primary = "done" => removing'.of \notin copies'["primary"]
               /\ removing'.mirror = "done" => removing'.of \notin copies'["mirror"]
               /\ removing'.mirror = "failed" => removing'.of \in hurt'
        BY <1>3, <1>6, <3>2, <4>1 DEF StorageInv, WhileRemoving
      <4>4. /\ purge' \in [at : {"idle", "objects"}, found : SUBSET Files, left : SUBSET Files]
            /\ purge' = NoPurge => removing' = NoTransfer
            /\ purge'.at = "idle" => purge' = NoPurge
            /\ purge'.left \subseteq purge'.found /\ purge'.found \subseteq touched'
        BY <1>1, <3>2 DEF StorageInv, WhileRemoving
      <4> QED BY <2>3, <4>2, <4>3, <4>4 DEF WhileRemoving
    <3> QED BY <1>2, <3>1, <3>2
  <2> QED BY <1>7, <1>8, <1>9, <2>2, <2>4 DEF StorageInv
<1> QED BY <1>10, <1>11

\* Time, the beginning of a retention run, and its end.
LEMMA RunsKeep ==
  ASSUME StorageInv, PassCutoff \/ BeginPurge \/ DeleteRows
  PROVE  StorageInv'
<1>1. CASE PassCutoff
  <2>1. UNCHANGED <<mirroring, copies, ending, put, filed, purge, removing, strays, reader,
                    touched, hurt>>
    BY <1>1 DEF PassCutoff
  <2>2. StorageTypes' /\ WhileRunning' /\ OnceFiled'
    BY <2>1 DEF StorageInv, StorageTypes, WhileRunning, OnceFiled, UnderWay, Both, Nowhere
  <2>3. WhileRemoving' /\ Readers'
    BY <2>1 DEF StorageInv, WhileRemoving, Readers, Nowhere
  <2> QED BY <2>2, <2>3 DEF StorageInv
<1>2. CASE BeginPurge
  <2>1. PICK picked : /\ picked = filed /\ picked # {}
                     /\ purge' = [at |-> "objects", found |-> picked, left |-> picked]
                     /\ touched' = touched \union picked /\ purge = NoPurge
                     /\ UNCHANGED <<mirroring, copies, ending, put, filed, removing, strays, reader, hurt>>
    BY <1>2 DEF BeginPurge
  <2>2. ending = "filed" /\ removing = NoTransfer /\ picked \in SUBSET Files
    BY <2>1 DEF StorageInv, StorageTypes, WhileRunning, WhileRemoving
  <2>3. StorageTypes' /\ WhileRunning'
    BY <2>1, <2>2 DEF StorageInv, StorageTypes, WhileRunning, UnderWay
  <2>4. OnceFiled'
    BY <2>1, <2>2 DEF StorageInv, OnceFiled, Both, Nowhere
  <2>5. purge'.at = "objects" /\ purge'.found = picked /\ purge'.left = picked
        /\ purge' \in [at : {"idle", "objects"}, found : SUBSET Files, left : SUBSET Files]
    BY <2>1, <2>2
  <2>6. WhileRemoving'
    BY <2>1, <2>2, <2>5 DEF StorageInv, WhileRemoving
  <2>7. Readers'
    BY <2>1 DEF StorageInv, Readers
  <2> QED BY <2>3, <2>4, <2>6, <2>7 DEF StorageInv
<1>3. CASE DeleteRows
  <2>1. /\ purge.at = "objects" /\ purge.left = {} /\ filed' = filed \ purge.found /\ purge' = NoPurge
        /\ UNCHANGED <<mirroring, copies, ending, put, removing, strays, reader, touched, hurt>>
    BY <1>3 DEF DeleteRows
  <2>2. purge # NoPurge /\ ending = "filed"
    BY <2>1, PurgesAreLate DEF NoPurge
  <2>3. removing = NoTransfer
    BY <2>1 DEF StorageInv, WhileRemoving
  <2>4. StorageTypes' /\ WhileRunning'
    BY <2>1, <2>2, <2>3 DEF StorageInv, StorageTypes, WhileRunning, UnderWay
  <2>5. \A f \in purge.found : f \in hurt \/ Nowhere(f)
    BY <2>1 DEF StorageInv, WhileRemoving
  <2>6. OnceFiled'
    BY <2>1, <2>2, <2>5 DEF StorageInv, OnceFiled, Both, Nowhere
  <2>7. WhileRemoving'
    BY <2>1, <2>3 DEF StorageInv, WhileRemoving, NoPurge
  <2>8. Readers'
    BY <2>1 DEF StorageInv, Readers, WhileRemoving
  <2> QED BY <2>4, <2>6, <2>7, <2>8 DEF StorageInv
<1> QED BY <1>1, <1>2, <1>3

\* Readers change nothing but themselves.
LEMMA DownloadsKeep ==
  ASSUME StorageInv, \/ \E f \in Files : BeginDownload(f)
                     \/ \E s \in Stores : AskStore(s)
  PROVE  StorageInv'
<1>1. UNCHANGED <<mirroring, copies, ending, put, filed, purge, removing, strays, touched, hurt>>
  BY DEF BeginDownload, AskStore
<1>2. StorageTypes' /\ WhileRunning' /\ OnceFiled' /\ WhileRemoving'
  BY <1>1 DEF StorageInv, StorageTypes, WhileRunning, OnceFiled, UnderWay, Both, Nowhere, WhileRemoving
<1>3. ASSUME NEW f \in Files, BeginDownload(f) PROVE Readers'
  <2>1. f \in filed /\ reader' = [at |-> "primary", of |-> f, failed |-> FALSE]
    BY <1>3 DEF BeginDownload
  <2> QED BY <1>1, <2>1 DEF Readers
<1>4. ASSUME NEW s \in Stores, AskStore(s) PROVE Readers'
  <2>1. /\ reader.at = s /\ s \in {"primary", "mirror"} /\ reader.of \in filed \union touched
        /\ reader = [at |-> reader.at, of |-> reader.of, failed |-> reader.failed]
        /\ reader.failed \in BOOLEAN
    BY <1>4 DEF AskStore, StorageInv, Readers, Stores
  <2>2. CASE reader' = [reader EXCEPT !.at = "served"]
    <3>1. reader' = [at |-> "served", of |-> reader.of, failed |-> reader.failed]
      BY <2>1, <2>2
    <3> QED BY <1>1, <2>1, <3>1 DEF Readers
  <2>3. ASSUME NEW broken \in BOOLEAN, ~ broken => reader.of \notin copies[s],
               reader' = [reader EXCEPT !.failed = @ \/ broken,
                          !.at = IF s = "primary" /\ mirroring # "none" THEN "mirror" ELSE "missing"]
        PROVE  Readers'
    <3>1. PICK place : place = IF s = "primary" /\ mirroring # "none" THEN "mirror" ELSE "missing"
      OBVIOUS
    <3>2. reader' = [at |-> place, of |-> reader.of, failed |-> reader.failed \/ broken]
      BY <2>1, <2>3, <3>1
    <3>3. reader'.at = place /\ reader'.of = reader.of /\ reader'.failed = (reader.failed \/ broken)
      BY <3>2
    <3>4. ~ reader.failed /\ ~ broken => reader.of \in touched
      <4>1. s = "mirror" /\ ~ reader.failed => reader.of \in touched
        BY <2>1 DEF StorageInv, Readers
      <4>2. s = "primary" /\ ~ broken => reader.of \in touched
        <5>1. \A g \in filed : ending = "filed"
          BY DEF StorageInv, WhileRunning
        <5> QED BY <2>1, <2>3, <5>1 DEF StorageInv, OnceFiled, Both
      <4> QED BY <2>1, <4>1, <4>2
    <3>5. place \in {"mirror", "missing"}
      BY <3>1
    <3>6. reader'.failed \in BOOLEAN /\ (~ reader'.failed => ~ reader.failed /\ ~ broken)
      BY <2>1, <3>3
    <3>7. reader' = [at |-> reader'.at, of |-> reader'.of, failed |-> reader'.failed]
      BY <3>2, <3>3
    <3> QED BY <1>1, <2>1, <3>3, <3>4, <3>5, <3>6, <3>7 DEF Readers
  <2> QED BY <1>4, <2>2, <2>3 DEF AskStore
<1> QED BY <1>2, <1>3, <1>4 DEF StorageInv

\* Every step on the files keeps the invariant.
LEMMA NextStorageInv == StorageInv /\ [StorageNext]_storageVars => StorageInv'
<1> SUFFICES ASSUME StorageInv, [StorageNext]_storageVars PROVE StorageInv'
  OBVIOUS
<1>1. CASE UNCHANGED storageVars
  <2>1. UNCHANGED <<mirroring, copies, ending, put, filed, purge, removing, strays, reader,
                    touched, hurt>>
    BY <1>1 DEF storageVars
  <2>2. StorageTypes' /\ WhileRunning' /\ OnceFiled'
    BY <2>1 DEF StorageInv, StorageTypes, WhileRunning, OnceFiled, UnderWay, Both, Nowhere
  <2>3. WhileRemoving' /\ Readers'
    BY <2>1 DEF StorageInv, WhileRemoving, Readers, Nowhere
  <2> QED BY <2>2, <2>3 DEF StorageInv
<1> QED BY <1>1, BeginsKeep, FilingKeeps, EndKeeps, PutKeeps, RemovalKeeps, DeathKeeps, StraysKeep,
           RunsKeep, DownloadsKeep DEF StorageNext

\* Files and rows keep their inductive invariant, for every set of files and number of faults.
THEOREM StorageInvariant == StorageSpec => []StorageInv
BY InitStorageInv, NextStorageInv, PTL DEF StorageSpec

\* FilesFollowRows: putObjectFromFile has both stores' answers before a row is written, a
\* retention run deletes files before rows, and a download goes on to the mirror; so rows have
\* their files, and files without a failed transfer have their rows.
THEOREM FilesHaveRows == StorageSpec => []FilesFollowRows
<1>1. StorageInv => FilesFollowRows
  <2> SUFFICES ASSUME StorageInv PROVE FilesFollowRows
    OBVIOUS
  <2>1. \A f \in filed \ touched :
          f \in copies["primary"] /\ (mirroring = "required" => f \in copies["mirror"])
    <3>1. \A g \in filed : ending = "filed"
      BY DEF StorageInv, WhileRunning
    <3> QED BY <3>1 DEF StorageInv, OnceFiled, Both
  <2>2. reader.at = "missing" /\ ~ reader.failed => reader.of \in touched
    BY DEF StorageInv, Readers
  <2>3. ending # "running" =>
          \A f \in Files \ hurt : f \in copies["primary"] \union copies["mirror"] => f \in filed
    BY DEF StorageInv, StorageTypes, WhileRunning, OnceFiled, Nowhere
  <2> QED BY <2>1, <2>2, <2>3 DEF FilesFollowRows
<1> QED BY <1>1, StorageInvariant, PTL

\* What StorageInv does not speak of.
StorageRest == faults \in 0 .. MaxFaults /\ aged \in BOOLEAN /\ (reader.at = "none" => reader.of = "none")

\* Every step on the files keeps it.
LEMMA StorageRestKeeps == StorageInv /\ StorageRest /\ [StorageNext]_storageVars => StorageRest'
<1> SUFFICES ASSUME StorageInv, StorageRest, [StorageNext]_storageVars PROVE StorageRest'
  OBVIOUS
<1>0. faults \in 0 .. MaxFaults /\ aged \in BOOLEAN /\ (reader.at = "none" => reader.of = "none")
  BY DEF StorageRest
<1>1. \/ faults' = faults
      \/ faults < MaxFaults /\ faults' = faults + 1
  <2>1. ASSUME NEW op, NEW s, NEW f, NEW answer, NEW left, NEW harmed,
               StoreAnswers(op, s, f, answer, left, harmed)
        PROVE  faults' = faults \/ (faults < MaxFaults /\ faults' = faults + 1)
    BY <2>1, Zenon DEF StoreAnswers
  <2>2. CASE \/ \E f \in Files, op \in {"put", "remove"} : EndStray(op, f)
             \/ \E s \in Stores : AnswerPut(s) \/ AnswerRemoval(s)
    BY <2>1, <2>2, Zenon DEF EndStray, AnswerPut, AnswerRemoval
  <2>3. CASE \/ \E f \in Files : BeginPut(f) \/ BeginRemoval(f) \/ BeginDownload(f)
             \/ FileArtifacts \/ PassCutoff \/ BeginPurge \/ DeleteRows \/ UNCHANGED storageVars
    BY <2>3 DEF BeginPut, BeginRemoval, BeginDownload, FileArtifacts, PassCutoff, BeginPurge, DeleteRows, storageVars
  <2>4. CASE (\E s \in Stores : AskStore(s)) \/ EndWithoutRows \/ DieInPurge
    BY <2>4, Zenon DEF AskStore, EndWithoutRows, DieInPurge
  <2> QED BY <2>2, <2>3, <2>4 DEF StorageNext
<1>2. faults' \in 0 .. MaxFaults
  BY <1>0, <1>1, FaultsAssumption
<1>3. aged' \in BOOLEAN
  BY <1>0, Zenon DEF StorageNext, EndStray, AnswerPut, AnswerRemoval, BeginPut, BeginRemoval, BeginDownload,
     FileArtifacts, PassCutoff, BeginPurge, DeleteRows, storageVars, AskStore, EndWithoutRows, DieInPurge
<1>4. \/ reader' = reader
      \/ \E f \in Files : BeginDownload(f)
      \/ \E s \in Stores : AskStore(s)
  BY Zenon DEF StorageNext, EndStray, AnswerPut, AnswerRemoval, BeginPut, BeginRemoval,
     FileArtifacts, PassCutoff, BeginPurge, DeleteRows, storageVars, EndWithoutRows, DieInPurge
<1>5. reader' = reader \/ reader'.at # "none"
  <2>1. reader = [at |-> reader.at, of |-> reader.of, failed |-> reader.failed]
    BY DEF StorageInv, Readers
  <2>2. ASSUME NEW f \in Files, BeginDownload(f) PROVE reader'.at # "none"
    BY <2>2 DEF BeginDownload
  <2>3. ASSUME NEW s \in Stores, AskStore(s) PROVE reader'.at # "none"
    <3>1. \/ reader' = [reader EXCEPT !.at = "served"]
          \/ \E broken \in BOOLEAN :
               reader' = [reader EXCEPT !.failed = @ \/ broken,
                            !.at = IF s = "primary" /\ mirroring # "none" THEN "mirror" ELSE "missing"]
      BY <2>3, Zenon DEF AskStore
    <3> QED BY <2>1, <3>1
  <2> QED BY <1>4, <2>2, <2>3
<1> QED BY <1>0, <1>2, <1>3, <1>5 DEF StorageRest

\* StorageType: what the inductive invariant leaves out of it is inductive beside it.
THEOREM StorageIsTyped == StorageSpec => []StorageType
<1>1. ASSUME StorageInit PROVE StorageRest
  <2>1. 0 \in 0 .. MaxFaults
    BY FaultsAssumption
  <2> QED BY <1>1, <2>1 DEF StorageInit, StorageRest, NotReading
<1>2. ASSUME StorageInv, StorageRest PROVE StorageType
  <2>1. NoTransfer \in Transfers
    BY DEF NoTransfer, Transfers
  <2>2. put \in Transfers /\ removing \in Transfers
    BY <1>2, <2>1 DEF StorageInv, StorageTypes, UnderWay
  <2>3. reader.of \in Files \union {"none"}
    BY <1>2 DEF StorageInv, StorageTypes, StorageRest, Readers
  <2>4. reader \in [at : {"none", "primary", "mirror", "served", "missing"},
                    of : Files \union {"none"}, failed : BOOLEAN]
    BY <1>2, <2>3 DEF StorageInv, Readers
  <2>5. purge \in [at : {"idle", "objects", "rows"}, found : SUBSET Files, left : SUBSET Files]
    BY <1>2 DEF StorageInv, WhileRemoving
  <2>6. {put, removing} \subseteq Transfers /\ {filed, touched, hurt} \subseteq SUBSET Files
    BY <1>2, <2>2 DEF StorageInv, StorageTypes
  <2> QED BY <1>2, <2>4, <2>5, <2>6, Zenon DEF StorageInv, StorageTypes, StorageRest, StorageType
<1> QED BY <1>1, <1>2, StorageRestKeeps, StorageInvariant, PTL DEF StorageSpec

-----------------------------------------------------------------------------
(* The verdict on a report *)

\* One audit, whatever its handoff says.
VerdictSpec == VerdictInit /\ [][VerdictNext]_auditReportVars

\* An attempt that failed left a finding; once the report is collected the handoff's
\* execution has returned; and a saved report is what its facts make of it.
VerdictInv ==
  /\ (\E t \in Titles : sections[t] = "planned") => issues \intersect {"high", "medium"} # {}
  /\ report \in {"roles", "collected", "enriched", "written", "saved", "failed"}
  /\ report \in {"collected", "enriched", "written", "saved"} => stage = "returned"
  /\ report = "saved" => verdict = Enriched(produced)
  /\ sections = [t \in Titles |-> sections[t]]
  /\ known \subseteq Severities /\ issues \subseteq Severities
  /\ stage \in Running \union {"entry", "closing", "terminating", "returned", "threw"}

\* At first nothing has been tried.
LEMMA InitVerdictInv == VerdictInit => VerdictInv
BY DEF VerdictInit, HandoffInit, VerdictInv, Titles

\* A step that plans a title finds something of weight, and finds are kept.
LEMMA ExecutionKeeps ==
  ASSUME VerdictInv, HandoffNext, UNCHANGED verdictVars
  PROVE  VerdictInv'
<1>1. stage # "returned" \/ UNCHANGED <<stage, sections, issues>>
  BY DEF HandoffNext, WorkerStep, NotExecuted, NothingToStart, EntryThrows, Start, Healthy,
         BootTimesOut, SuiteEnds, Launch, NavigationFails, Visit, MayVisit, WalkEnds, Throws,
         Close, ShellIsGone, Kill, Running, Answers, ServerEnds, ShellEnds, AppChanges, outputVars
<1>2. /\ issues \subseteq issues' /\ issues' \subseteq Severities
      /\ \/ sections' = sections
         \/ \E t \in Titles : /\ sections' = [sections EXCEPT ![t] = "planned"]
                              /\ issues' \intersect {"high", "medium"} # {}
         \/ \E t \in Titles, s \in {"skipped", "ready"} : sections' = [sections EXCEPT ![t] = s]
  <2> USE DEF VerdictInv, Report, Find, GoOn, Titles, outputVars, AppChanges, Severities
  <2>1. CASE NotExecuted \/ NothingToStart \/ EntryThrows \/ Start
    BY <2>1 DEF NotExecuted, NothingToStart, EntryThrows, Start
  <2>2. CASE Healthy \/ BootTimesOut
    BY <2>2 DEF Healthy, BootTimesOut
  <2>3. CASE \E status \in {"planned", "skipped", "ready"} : SuiteEnds(status)
    BY <2>3 DEF SuiteEnds
  <2>4. CASE \E plan \in SUBSET Urls : plan # {} /\ Launch(plan)
    BY <2>4 DEF Launch
  <2>5. CASE \/ \E u \in Urls : NavigationFails(u)
             \/ \E u \in Urls, links \in SUBSET Urls, severities \in SUBSET Severities : Visit(u, links, severities)
    BY <2>5 DEF NavigationFails, Visit
  <2>6. CASE WalkEnds \/ Throws \/ Close \/ ShellIsGone \/ Kill
    BY <2>6 DEF WalkEnds, Throws, Close, ShellIsGone, Kill
  <2>7. CASE Answers \/ ServerEnds \/ ShellEnds
    BY <2>7 DEF Answers, ServerEnds, ShellEnds
  <2> QED BY <2>1, <2>2, <2>3, <2>4, <2>5, <2>6, <2>7 DEF HandoffNext, WorkerStep
<1>3. stage' \in Running \union {"entry", "closing", "terminating", "returned", "threw"}
  BY DEF VerdictInv, HandoffNext, WorkerStep, NotExecuted, NothingToStart, EntryThrows, Start, Healthy,
         BootTimesOut, SuiteEnds, Launch, NavigationFails, Visit, MayVisit, WalkEnds, Throws,
         Close, ShellIsGone, Kill, Running, Answers, ServerEnds, ShellEnds, AppChanges, GoOn
<1>4. (\E t \in Titles : sections'[t] = "planned") => issues' \intersect {"high", "medium"} # {}
  BY <1>2 DEF VerdictInv
<1>5. sections' = [t \in Titles |-> sections'[t]]
  BY <1>2 DEF VerdictInv
<1>6. UNCHANGED <<report, handoff, known, produced, verdict>>
  BY DEF verdictVars
<1>7. report \in {"collected", "enriched", "written", "saved"} => UNCHANGED <<stage, sections, issues>>
  BY <1>1 DEF VerdictInv
<1>8. report = "saved" => verdict' = Enriched(produced)'
  <2> SUFFICES ASSUME report = "saved" PROVE verdict' = Enriched(produced)'
    OBVIOUS
  <2> QED BY <1>6, <1>7 DEF VerdictInv, Enriched, Packed, AllFindings, Found, Missing,
                            FailedAttempts, CapabilityGaps, ReleaseGateDecision
<1> QED BY <1>2, <1>3, <1>4, <1>5, <1>6, <1>7, <1>8 DEF VerdictInv

\* Steps of executeAuditJobCore once the roles are done.
LEMMA ReportKeeps ==
  ASSUME VerdictInv, UNCHANGED handoffVars,
         \/ \E h \in Handoffs, before \in {{}} \union {{s} : s \in Severities} : TakeOutputs(h, before)
         \/ Enrich \/ (\E complete \in BOOLEAN : WriteArtifacts(complete)) \/ EnrichAgain \/ AuditThrows
  PROVE  VerdictInv'
<1>1. UNCHANGED <<stage, sections, issues>>
  BY DEF handoffVars
<1>2. CASE \E h \in Handoffs, before \in {{}} \union {{s} : s \in Severities} : TakeOutputs(h, before)
  BY <1>1, <1>2 DEF TakeOutputs, VerdictInv
<1>3. CASE Enrich
  BY <1>1, <1>3 DEF Enrich, VerdictInv
<1>4. CASE \E complete \in BOOLEAN : WriteArtifacts(complete)
  BY <1>1, <1>4 DEF WriteArtifacts, VerdictInv
<1>5. CASE EnrichAgain
  <2>1. UNCHANGED <<stage, sections, issues, handoff, known, produced>> /\ report = "written"
        /\ verdict' = Enriched(produced) /\ report' = "saved"
    BY <1>1, <1>5 DEF EnrichAgain
  <2>2. Enriched(produced)' = Enriched(produced)
    BY <2>1 DEF Enriched, Packed, AllFindings, Found, Missing, FailedAttempts, CapabilityGaps,
                ReleaseGateDecision
  <2> QED BY <2>1, <2>2 DEF VerdictInv
<1>6. CASE AuditThrows
  BY <1>1, <1>6 DEF AuditThrows, VerdictInv
<1> QED BY <1>2, <1>3, <1>4, <1>5, <1>6

\* Every step of the execution and of the report keeps the invariant.
LEMMA NextVerdictInv == VerdictInv /\ [VerdictNext]_auditReportVars => VerdictInv'
<1> SUFFICES ASSUME VerdictInv, [VerdictNext]_auditReportVars PROVE VerdictInv'
  OBVIOUS
<1>1. CASE UNCHANGED auditReportVars
  BY <1>1 DEF auditReportVars, handoffVars, verdictVars, VerdictInv, Enriched, Packed, AllFindings,
              Found, Missing, FailedAttempts, CapabilityGaps, ReleaseGateDecision
<1>2. CASE HandoffNext /\ UNCHANGED verdictVars
  BY <1>2, ExecutionKeeps
<1>3. CASE \/ \E h \in Handoffs, before \in {{}} \union {{s} : s \in Severities} : TakeOutputs(h, before)
           \/ Enrich \/ (\E complete \in BOOLEAN : WriteArtifacts(complete)) \/ EnrichAgain \/ AuditThrows
  <2>1. UNCHANGED handoffVars
    BY <1>3 DEF TakeOutputs, Enrich, WriteArtifacts, EnrichAgain, AuditThrows
  <2> QED BY <1>3, <2>1, ReportKeeps
<1> QED BY <1>1, <1>2, <1>3 DEF VerdictNext

\* The report keeps its inductive invariant, for every set of handoffs and of pages.
THEOREM VerdictInvariant == VerdictSpec => []VerdictInv
BY InitVerdictInv, NextVerdictInv, PTL DEF VerdictSpec

\* GateFollowsFindings: enrichReportForUniversalAudit makes the saved gate of all findings and
\* of the artifacts that are missing, and a title left planned by executeStandardizedHandoff
\* has a finding that keeps the gate from passing.
THEOREM GatesFollowFindings == VerdictSpec => []GateFollowsFindings
<1>1. VerdictInv => GateFollowsFindings
  <2> SUFFICES ASSUME VerdictInv, report = "saved" PROVE GateFollowsFindings
    BY DEF GateFollowsFindings
  <2>1. /\ verdict.gate = IF handoff.decision # "none" THEN handoff.decision
                          ELSE ReleaseGateDecision(produced)
        /\ verdict.packed = Packed /\ verdict.failed = FailedAttempts
        /\ verdict.gaps = CapabilityGaps(produced)
    BY DEF VerdictInv, Enriched
  <2>2. "artifact" \in verdict.gaps <=> Missing(produced)
    BY <2>1 DEF CapabilityGaps
  <2>3. ASSUME handoff.decision = "none"
        PROVE  /\ verdict.gate = "pass" => ~ Found("high") /\ ~ Found("medium") /\ ~ Missing(produced)
               /\ verdict.gate = "fail" => Found("high") \/ Missing(produced)
    BY <2>1, <2>3 DEF ReleaseGateDecision
  <2>4. ~ Found("high") /\ ~ Found("medium") => verdict.failed = {}
    <3> SUFFICES ASSUME verdict.failed # {} PROVE Found("high") \/ Found("medium")
      OBVIOUS
    <3>1. issues \intersect {"high", "medium"} # {}
      BY <2>1 DEF FailedAttempts, VerdictInv
    <3>2. PICK s \in issues : s \in {"high", "medium"}
      BY <3>1
    <3>3. [of |-> "execution", severity |-> s] \in AllFindings
      BY <3>2 DEF AllFindings
    <3> QED BY <3>2, <3>3 DEF Found
  <2>5. handoff.packs = "none" => verdict.packed = AllFindings
    BY <2>1 DEF Packed
  <2>6. Missing(produced) => ~ produced
    BY DEF Missing
  <2> QED BY <2>2, <2>3, <2>4, <2>5, <2>6 DEF GateFollowsFindings
<1> QED BY <1>1, VerdictInvariant, PTL

\* Of the execution: what VerdictInv does not speak of.
ProcessTypes ==
  /\ app \in [shape : {"shell", "child", "background"}, deaf : BOOLEAN]
  /\ shell \in {"none", "running", "exited"}
  /\ server \in {"none", "starting", "up", "gone"}
  /\ signalled \in BOOLEAN
  /\ browser \in {"none", "open", "closed"}
\* Of the walk, which opens no more pages than it may,
WalkTypes ==
  /\ queued \subseteq Urls /\ visited \subseteq Urls /\ pages \subseteq Urls
  /\ IsFiniteSet(pages) /\ Cardinality(pages) <= MaxPages
\* and of the report.
SectionTypes == sections \in [Titles -> {"none", "planned", "skipped", "ready"}]

\* Every step of the execution keeps the types of its processes,
LEMMA ProcessTypesKeep == ProcessTypes /\ (HandoffNext \/ UNCHANGED handoffVars) => ProcessTypes'
<1> SUFFICES ASSUME ProcessTypes, HandoffNext \/ UNCHANGED handoffVars PROVE ProcessTypes'
  OBVIOUS
<1> USE DEF ProcessTypes
<1>1. CASE WorkerStep
  <2>1. signalled' \in BOOLEAN
    BY <1>1, Zenon DEF WorkerStep, NotExecuted, NothingToStart, EntryThrows, Start, Healthy, BootTimesOut,
       SuiteEnds, Launch, NavigationFails, Visit, WalkEnds, Throws, Close, ShellIsGone, Kill, GoOn, processVars
  <2>2. app' = app
    BY <1>1 DEF WorkerStep, NotExecuted, NothingToStart, EntryThrows, Start, Healthy, BootTimesOut,
       SuiteEnds, Launch, NavigationFails, Visit, WalkEnds, Throws, Close, ShellIsGone, Kill, GoOn, processVars
  <2> QED
    BY <1>1, <2>1, <2>2 DEF WorkerStep, NotExecuted, NothingToStart, EntryThrows, Start, Healthy, BootTimesOut,
       SuiteEnds, Launch, NavigationFails, Visit, WalkEnds, Throws, Close, ShellIsGone, Kill, GoOn, processVars
<1>2. CASE Answers \/ ServerEnds \/ ShellEnds
  BY <1>2 DEF Answers, ServerEnds, ShellEnds, AppChanges
<1>3. CASE UNCHANGED handoffVars
  BY <1>3 DEF handoffVars
<1> QED BY <1>1, <1>2, <1>3 DEF HandoffNext

\* of its walk,
LEMMA WalkTypesKeep == WalkTypes /\ (HandoffNext \/ UNCHANGED handoffVars) => WalkTypes'
<1> SUFFICES ASSUME WalkTypes, HandoffNext \/ UNCHANGED handoffVars PROVE WalkTypes'
  OBVIOUS
<1> USE DEF WalkTypes
<1>1. CASE WorkerStep
  <2>1. CASE \E plan \in SUBSET Urls : plan # {} /\ Launch(plan)
    BY <2>1 DEF Launch
  <2>2. CASE \E u \in Urls : NavigationFails(u)
    BY <2>2 DEF NavigationFails
  <2>3. ASSUME NEW u \in Urls, NEW links \in SUBSET Urls, NEW seenSoFar \in SUBSET Severities,
               Visit(u, links, seenSoFar)
        PROVE  WalkTypes'
    <3>1. /\ IsFiniteSet(pages \union {u})
          /\ \/ Cardinality(pages \union {u}) = Cardinality(pages)
             \/ Cardinality(pages \union {u}) = Cardinality(pages) + 1
      BY FS_AddElement
    <3>2. Cardinality(pages) \in Nat
      BY FS_CardinalityType
    <3>3. pages' = pages \union {u} /\ Cardinality(pages) < MaxPages
      BY <2>3 DEF Visit, MayVisit
    <3>4. visited' \subseteq Urls /\ queued' \subseteq Urls /\ pages' \subseteq Urls
      BY <2>3 DEF Visit
    <3>5. Cardinality(pages') <= MaxPages
      BY <3>1, <3>2, <3>3, HandoffAssumption
    <3> QED BY <3>1, <3>3, <3>4, <3>5
  <2>4. CASE Close
    <3>1. IsFiniteSet({}) /\ Cardinality({}) = 0
      BY FS_EmptySet
    <3>2. 0 <= MaxPages
      BY HandoffAssumption
    <3> QED BY <2>4, <3>1, <3>2, Zenon DEF Close
  <2>5. CASE \/ NotExecuted \/ NothingToStart \/ EntryThrows \/ Start \/ Healthy \/ BootTimesOut
             \/ (\E status \in {"planned", "skipped", "ready"} : SuiteEnds(status))
             \/ WalkEnds \/ Throws \/ ShellIsGone \/ Kill
    BY <2>5 DEF NotExecuted, NothingToStart, EntryThrows, Start, Healthy, BootTimesOut, SuiteEnds, WalkEnds,
       Throws, ShellIsGone, Kill, GoOn, walkVars
  <2> QED BY <1>1, <2>1, <2>2, <2>3, <2>4, <2>5 DEF WorkerStep
<1>2. CASE Answers \/ ServerEnds \/ ShellEnds
  BY <1>2 DEF Answers, ServerEnds, ShellEnds, AppChanges, walkVars
<1>3. CASE UNCHANGED handoffVars
  BY <1>3 DEF handoffVars
<1> QED BY <1>1, <1>2, <1>3 DEF HandoffNext

\* and of its sections.
LEMMA SectionTypesKeep == SectionTypes /\ (HandoffNext \/ UNCHANGED handoffVars) => SectionTypes'
<1> SUFFICES ASSUME SectionTypes, HandoffNext \/ UNCHANGED handoffVars PROVE SectionTypes'
  OBVIOUS
<1> USE DEF SectionTypes
<1>1. \/ sections' = sections
      \/ \E t \in Titles, s \in {"planned", "skipped", "ready"} : Report(t, s)
  BY DEF HandoffNext, WorkerStep, NotExecuted, NothingToStart, EntryThrows, Start, Healthy, BootTimesOut,
     SuiteEnds, Launch, NavigationFails, Visit, WalkEnds, Throws, Close, ShellIsGone, Kill, GoOn, outputVars,
     Answers, ServerEnds, ShellEnds, AppChanges, handoffVars, Titles
<1> QED BY <1>1 DEF Report

\* What is enriched is one of the verdicts.
VerdictRest ==
  /\ handoff \in Handoffs \union {NoHandoff} /\ produced \in BOOLEAN
  /\ verdict \in [gate : {"none", "pass", "warn", "fail"}, packed : SUBSET Findings,
                  failed : SUBSET Titles, gaps : SUBSET {"blocker", "artifact"}]

\* The gate is one of three, and the packed findings are findings.
LEMMA EnrichedIsTyped ==
  ASSUME VerdictInv, handoff \in Handoffs \union {NoHandoff}, NEW written
  PROVE  Enriched(written) \in [gate : {"none", "pass", "warn", "fail"}, packed : SUBSET Findings,
                                failed : SUBSET Titles, gaps : SUBSET {"blocker", "artifact"}]
<1>1. handoff.decision \in {"none", "pass", "warn", "fail"} /\ handoff.packs \in {"none", "linked", "dangling"}
  BY HandoffsAssumption DEF NoHandoff
<1>2. ReleaseGateDecision(written) \in {"none", "pass", "warn", "fail"}
  BY DEF ReleaseGateDecision
<1>3. AllFindings \subseteq Findings
  BY DEF AllFindings, Findings, VerdictInv
<1>4. Packed \subseteq Findings
  BY <1>1, <1>3 DEF Packed
<1> QED BY <1>1, <1>2, <1>4 DEF Enriched, FailedAttempts, CapabilityGaps

\* Every step of the report keeps its types.
LEMMA VerdictRestKeeps == VerdictInv /\ VerdictRest /\ [VerdictNext]_auditReportVars => VerdictRest'
<1> SUFFICES ASSUME VerdictInv, VerdictRest, [VerdictNext]_auditReportVars PROVE VerdictRest'
  OBVIOUS
<1>1. /\ handoff \in Handoffs \union {NoHandoff} /\ produced \in BOOLEAN
      /\ verdict \in [gate : {"none", "pass", "warn", "fail"}, packed : SUBSET Findings,
                      failed : SUBSET Titles, gaps : SUBSET {"blocker", "artifact"}]
  BY DEF VerdictRest
<1>2. CASE UNCHANGED verdictVars
  BY <1>1, <1>2 DEF verdictVars, VerdictRest
<1>3. CASE \E h \in Handoffs, before \in {{}} \union {{s} : s \in Severities} : TakeOutputs(h, before)
  BY <1>1, <1>3 DEF TakeOutputs, VerdictRest
<1>4. CASE Enrich \/ EnrichAgain
  <2>1. UNCHANGED <<handoff, produced>> /\ \E w \in BOOLEAN : verdict' = Enriched(w)
    BY <1>1, <1>4, Zenon DEF Enrich, EnrichAgain
  <2> QED BY <1>1, <2>1, EnrichedIsTyped DEF VerdictRest
<1>5. CASE (\E complete \in BOOLEAN : WriteArtifacts(complete)) \/ AuditThrows
  <2>1. produced' \in BOOLEAN
    BY <1>1, <1>5, Zenon DEF WriteArtifacts, AuditThrows
  <2>2. UNCHANGED <<handoff, verdict>>
    BY <1>5 DEF WriteArtifacts, AuditThrows
  <2> QED BY <1>1, <2>1, <2>2 DEF VerdictRest
<1> QED BY <1>2, <1>3, <1>4, <1>5 DEF VerdictNext, auditReportVars

\* VerdictType: what the inductive invariant leaves out of it is inductive beside it.
THEOREM VerdictTypes == VerdictSpec => []VerdictType
<1>1. ASSUME VerdictInit PROVE ProcessTypes /\ WalkTypes /\ SectionTypes /\ VerdictRest
  <2>1. signalled \in BOOLEAN /\ produced \in BOOLEAN
    BY <1>1, Zenon DEF VerdictInit, HandoffInit
  <2>2. ProcessTypes
    BY <1>1, <2>1 DEF VerdictInit, HandoffInit, ProcessTypes
  <2>3. IsFiniteSet({}) /\ Cardinality({}) = 0 /\ 0 <= MaxPages
    BY FS_EmptySet, HandoffAssumption
  <2>4. WalkTypes
    BY <1>1, <2>3, Zenon DEF VerdictInit, HandoffInit, WalkTypes
  <2>5. SectionTypes
    BY <1>1 DEF VerdictInit, HandoffInit, SectionTypes
  <2> QED BY <1>1, <2>1, <2>2, <2>4, <2>5 DEF VerdictInit, VerdictRest, NoVerdict
<1>2. ProcessTypes /\ WalkTypes /\ SectionTypes /\ [VerdictNext]_auditReportVars
        => ProcessTypes' /\ WalkTypes' /\ SectionTypes'
  <2>1. [VerdictNext]_auditReportVars => HandoffNext \/ UNCHANGED handoffVars
    BY DEF VerdictNext, auditReportVars, TakeOutputs, Enrich, WriteArtifacts, EnrichAgain, AuditThrows
  <2> QED BY <2>1, ProcessTypesKeep, WalkTypesKeep, SectionTypesKeep
<1>3. ASSUME VerdictInv, ProcessTypes, WalkTypes, SectionTypes, VerdictRest PROVE VerdictType
  <2>1. HandoffType
    <3>1. {queued, visited, pages} \subseteq SUBSET Urls /\ Cardinality(pages) <= MaxPages
      BY <1>3 DEF WalkTypes
    <3> QED BY <1>3, <3>1, Zenon DEF HandoffType, VerdictInv, ProcessTypes, SectionTypes
  <2> QED BY <1>3, <2>1, Zenon DEF VerdictType, VerdictInv, VerdictRest
<1> QED BY <1>1, <1>2, <1>3, VerdictRestKeeps, VerdictInvariant, PTL DEF VerdictSpec

-----------------------------------------------------------------------------
(* What the browser may open *)

\* One browser, whatever the handoff names and the job's secrets are.
AccessSpec == AccessInit /\ [][AccessNext]_accessVars

\* authCoverage, as the plan makes it.
Planning ==
  [method |-> AuthMethod, authenticated |-> Authenticated,
   declared |-> Cardinality(ProtectedDeclared), skipped |-> SkippedCount,
   left |-> {c.path : c \in Skipped(Candidates)}, reasons |-> BlockedReasons]

\* Before the walk nothing is to be opened; after it has begun, authCoverage is what the plan
\* made of the handoff, and whatever is or was to be opened is open to this browser.
AccessInv ==
  /\ navigation \subseteq NavTargets /\ protected \subseteq Routes
  /\ jobSecrets \in [session : Sessions, credential : Credentials]
  /\ loggedIn \in BOOLEAN
  /\ qa \in {"login", "plan", "walk"}
  /\ qa # "walk" => tried = {}
  /\ qa = "walk" => coverage = Planning
  /\ qa = "walk" /\ ~ Authenticated => (toOpen \union tried) \intersect ByPrefix = {}

\* At first there is no plan.
LEMMA InitAccessInv == AccessInit => AccessInv
BY DEF AccessInit, AccessInv

\* A link that may be opened without authentication is below no protected route.
LEMMA LinksAreOpen ==
  ASSUME ~ Authenticated, NEW l \in Routes, NEW requiresAuth,
         SkipReason(l, requiresAuth) = "none"
  PROVE  l \notin ByPrefix
<1>1. RouteKind[l] # "none"
  BY RoutesAssumption DEF RouteKinds
<1> QED BY <1>1 DEF SkipReason

\* Nor is a route of the plan.
LEMMA PlansAreOpen ==
  ASSUME AccessInv, ~ Authenticated
  PROVE  Planned \intersect ByPrefix = {}
<1>1. \A c \in Candidates : c.path \in Routes
  BY RoutesAssumption DEF Candidates, AccessInv, Targets
<1> QED BY <1>1, LinksAreOpen DEF Planned

\* What is decided before the walk stays.
LEMMA SameAccess ==
  ASSUME UNCHANGED <<jobSecrets, navigation, protected, loggedIn>>
  PROVE  /\ Authenticated' = Authenticated /\ ByPrefix' = ByPrefix
         /\ Planning' = Planning
BY DEF Authenticated, ByPrefix, Planning, AuthMethod, SessionAccepted, ProtectedDeclared,
       SkippedCount, Skipped, Candidates, SkipReason, BlockedReasons

\* Every step of the browser keeps the invariant.
LEMMA NextAccessInv == AccessInv /\ [AccessNext]_accessVars => AccessInv'
<1> SUFFICES ASSUME AccessInv, [AccessNext]_accessVars PROVE AccessInv'
  OBVIOUS
<1>1. CASE UNCHANGED accessVars
  <2>1. UNCHANGED <<qa, jobSecrets, navigation, protected, loggedIn, toOpen, tried, coverage>>
    BY <1>1 DEF accessVars
  <2> QED BY <2>1, SameAccess DEF AccessInv
<1>2. CASE \E succeeds \in BOOLEAN : Login(succeeds)
  BY <1>2 DEF Login, AccessInv
<1>3. CASE Plan
  <2>1. /\ qa = "plan" /\ qa' = "walk" /\ toOpen' = Planned /\ coverage' = Planning
        /\ UNCHANGED <<jobSecrets, navigation, protected, loggedIn, tried>>
    BY <1>3 DEF Plan, Planning
  <2>2. /\ Authenticated' = Authenticated /\ ByPrefix' = ByPrefix /\ Planning' = Planning
    BY <2>1, SameAccess
  <2>3. tried = {}
    BY <2>1 DEF AccessInv
  <2>4. ~ Authenticated => (toOpen' \union tried') \intersect ByPrefix = {}
    BY <2>1, <2>3, PlansAreOpen
  <2> QED BY <2>1, <2>2, <2>3, <2>4 DEF AccessInv
<1>4. CASE \/ \E page \in Pages, links \in {{}, Pages} : Open(page, links)
           \/ \E page \in Pages : FailToOpen(page)
           \/ OpenBase(Pages)
  <2>1. /\ qa = "walk" /\ UNCHANGED <<qa, jobSecrets, navigation, protected, loggedIn, coverage>>
        /\ \A l \in toOpen' \union tried' :
             l \in toOpen \union tried \/ (l \in Routes /\ SkipReason(l, FALSE) = "none")
    BY <1>4 DEF Pages, Open, FailToOpen, OpenBase
  <2>2. /\ Authenticated' = Authenticated /\ ByPrefix' = ByPrefix /\ Planning' = Planning
    BY <2>1, SameAccess
  <2>3. ~ Authenticated => (toOpen' \union tried') \intersect ByPrefix = {}
    BY <2>1, LinksAreOpen DEF AccessInv
  <2> QED BY <2>1, <2>2, <2>3 DEF AccessInv
<1> QED BY <1>1, <1>2, <1>3, <1>4 DEF AccessNext

\* The browser keeps its inductive invariant, for every set of routes and targets.
THEOREM AccessInvariant == AccessSpec => []AccessInv
BY InitAccessInv, NextAccessInv, PTL DEF AccessSpec

\* There are no more paths than targets.
LEMMA PathsAreFewer ==
  ASSUME NEW S, IsFiniteSet(S)
  PROVE  /\ IsFiniteSet({c.path : c \in S})
         /\ Cardinality({c.path : c \in S}) <= Cardinality(S)
<1> DEFINE T == {c.path : c \in S}
           f == [c \in S |-> c.path]
<1>1. f \in Surjection(S, T)
  BY DEF Surjection
<1> HIDE DEF T, f
<1>2. IsFiniteSet(T) /\ Cardinality(T) <= Cardinality(S)
  BY <1>1, FS_Surjection
<1> QED BY <1>2 DEF T

\* There are finitely many targets for finitely many protected routes.
LEMMA RoutesAreTargets ==
  ASSUME NEW P, IsFiniteSet(P)
  PROVE  IsFiniteSet([path : P, requiresAuth : {TRUE}])
<1> DEFINE T == [path : P, requiresAuth : {TRUE}]
           f == [r \in P |-> [path |-> r, requiresAuth |-> TRUE]]
<1>1. f \in Surjection(P, T)
  <2>1. f \in [P -> T]
    OBVIOUS
  <2>2. ASSUME NEW t \in T PROVE \E r \in P : f[r] = t
    <3>1. t.path \in P /\ t = [path |-> t.path, requiresAuth |-> TRUE]
      OBVIOUS
    <3> QED BY <3>1
  <2> QED BY <2>1, <2>2 DEF Surjection
<1> HIDE DEF T, f
<1>2. IsFiniteSet(T)
  BY <1>1, FS_Surjection
<1> QED BY <1>2 DEF T

\* What the plan counts is finite, and counts as nothing only if there is nothing.
LEMMA SkipsAreCounted ==
  ASSUME AccessInv
  PROVE  /\ IsFiniteSet(Skipped(navigation))
         /\ IsFiniteSet(Skipped([path : protected, requiresAuth : {TRUE}]))
         /\ SkippedCount \in Nat
         /\ SkippedCount = 0 <=> Skipped(Candidates) = {}
         /\ IsFiniteSet(ProtectedDeclared) /\ Cardinality(ProtectedDeclared) \in Nat
<1> DEFINE required == [path : protected, requiresAuth : {TRUE}]
<1>1. IsFiniteSet(navigation) /\ IsFiniteSet(protected)
  BY FS_Subset, RoutesAssumption DEF AccessInv
<1>2. IsFiniteSet(required)
  BY <1>1, RoutesAreTargets
<1>3. IsFiniteSet(Skipped(navigation)) /\ IsFiniteSet(Skipped(required))
  <2>1. Skipped(navigation) \in SUBSET navigation /\ Skipped(required) \in SUBSET required
    BY DEF Skipped
  <2> QED BY <1>1, <1>2, <2>1, FS_Subset
<1>4. Cardinality(Skipped(navigation)) \in Nat /\ Cardinality(Skipped(required)) \in Nat
  BY <1>3, FS_CardinalityType
<1>5. /\ Cardinality(Skipped(navigation)) = 0 <=> Skipped(navigation) = {}
      /\ Cardinality(Skipped(required)) = 0 <=> Skipped(required) = {}
  BY <1>3, FS_EmptySet
<1>6. Skipped(Candidates) = Skipped(navigation) \union Skipped(required)
  BY DEF Skipped, Candidates
<1>7. IsFiniteSet(ProtectedDeclared)
  <2> DEFINE closed == {c \in navigation : c.requiresAuth}
  <2>1. IsFiniteSet(closed)
    BY <1>1, FS_Subset
  <2>2. IsFiniteSet({c.path : c \in closed})
    BY <2>1, PathsAreFewer
  <2> HIDE DEF closed
  <2>3. IsFiniteSet(protected \union {c.path : c \in closed})
    BY <1>1, <2>2, FS_Union
  <2> QED BY <2>3 DEF ProtectedDeclared, closed
<1>8. Cardinality(ProtectedDeclared) \in Nat
  BY <1>7, FS_CardinalityType
<1>9. SkippedCount = Cardinality(Skipped(navigation)) + Cardinality(Skipped(required))
  BY DEF SkippedCount
<1> HIDE DEF required
<1>10. SkippedCount \in Nat /\ (SkippedCount = 0 <=> Skipped(Candidates) = {})
  BY <1>4, <1>5, <1>6, <1>9
<1> QED BY <1>3, <1>7, <1>8, <1>10 DEF required

\* Without authentication a declared page is skipped: as a protected route, or as a target.
LEMMA DeclaredPagesAreSkipped ==
  ASSUME AccessInv, ~ Authenticated, NEW r \in ProtectedDeclared, RouteKind[r] = "page"
  PROVE  \/ \E c \in Skipped(navigation) : c.path = r
         \/ \E c \in Skipped([path : protected, requiresAuth : {TRUE}]) : c.path = r
<1>1. CASE r \in protected
  <2>1. [path |-> r, requiresAuth |-> TRUE] \in [path : protected, requiresAuth : {TRUE}]
    BY <1>1
  <2>2. SkipReason(r, TRUE) = "protected"
    BY DEF SkipReason
  <2>3. PICK c : /\ c \in [path : protected, requiresAuth : {TRUE}]
                 /\ c.path = r /\ c.requiresAuth = TRUE
    BY <2>1
  <2>4. SkipReason(c.path, c.requiresAuth) = "protected"
    BY <2>2, <2>3
  <2>5. c \in Skipped([path : protected, requiresAuth : {TRUE}])
    BY <2>3, <2>4 DEF Skipped
  <2> QED BY <2>3, <2>5
<1>2. CASE r \in {t.path : t \in {c \in navigation : c.requiresAuth}}
  <2>1. PICK c \in navigation : c.requiresAuth /\ c.path = r
    BY <1>2
  <2>2. SkipReason(c.path, c.requiresAuth) = "protected"
    BY <2>1 DEF SkipReason
  <2>3. c \in Skipped(navigation)
    BY <2>1, <2>2 DEF Skipped
  <2> QED BY <2>1, <2>3
<1> QED BY <1>1, <1>2 DEF ProtectedDeclared

\* If all that is declared are pages, no more is declared than was skipped.
LEMMA PagesAreAllSkipped ==
  ASSUME AccessInv, ~ Authenticated, \A r \in ProtectedDeclared : RouteKind[r] = "page"
  PROVE  Cardinality(ProtectedDeclared) <= SkippedCount
<1> DEFINE one == Skipped(navigation)
           two == Skipped([path : protected, requiresAuth : {TRUE}])
           A == {c.path : c \in one}
           B == {c.path : c \in two}
<1>1. IsFiniteSet(one) /\ IsFiniteSet(two) /\ Cardinality(ProtectedDeclared) \in Nat
  BY SkipsAreCounted
<1>2. ProtectedDeclared \subseteq A \union B
  BY DeclaredPagesAreSkipped
<1>3. SkippedCount = Cardinality(one) + Cardinality(two)
  BY DEF SkippedCount
<1>4. Cardinality(one) \in Nat /\ Cardinality(two) \in Nat
  BY <1>1, FS_CardinalityType
<1> HIDE DEF one, two
<1>5. /\ IsFiniteSet(A) /\ Cardinality(A) <= Cardinality(one)
      /\ IsFiniteSet(B) /\ Cardinality(B) <= Cardinality(two)
  BY <1>1, PathsAreFewer
<1> HIDE DEF A, B
<1>6. /\ IsFiniteSet(A \union B)
      /\ Cardinality(A \union B) = Cardinality(A) + Cardinality(B) - Cardinality(A \cap B)
  BY <1>5, FS_Union
<1>7. IsFiniteSet(A \cap B)
  BY <1>5, FS_Subset
<1>8. Cardinality(A) \in Nat /\ Cardinality(B) \in Nat /\ Cardinality(A \cap B) \in Nat
      /\ Cardinality(A \union B) \in Nat
  BY <1>5, <1>6, <1>7, FS_CardinalityType
<1>9. Cardinality(ProtectedDeclared) <= Cardinality(A \union B)
  BY <1>2, <1>6, FS_Subset
<1> QED BY <1>1, <1>3, <1>4, <1>5, <1>6, <1>8, <1>9

\* A job without authentication knows why.
LEMMA BlocksHaveReasons ==
  ASSUME AccessInv, ~ Authenticated, ProtectedDeclared # {}, SkippedCount # 0
  PROVE  BlockedReasons # {}
<1>1. /\ jobSecrets.session \in {"absent", "unusable", "blank"}
      /\ jobSecrets.credential \in {"absent", "unusable", "pair"} /\ ~ loggedIn
  BY DEF AccessInv, Authenticated, Sessions, Credentials
<1>2. CASE jobSecrets.session = "absent" /\ jobSecrets.credential = "absent"
  BY <1>2 DEF BlockedReasons
<1>3. CASE ~ (jobSecrets.session = "absent" /\ jobSecrets.credential = "absent")
  <2>1. BlockedReasons =
          {why \in {"session unusable", "session blank", "credential unusable", "login failed"} :
             \/ why = "session unusable" /\ jobSecrets.session = "unusable"
             \/ why = "session blank" /\ jobSecrets.session = "blank"
             \/ why = "credential unusable" /\ jobSecrets.credential = "unusable"
             \/ why = "login failed" /\ jobSecrets.credential = "pair" /\ ~ loggedIn}
    BY <1>3 DEF BlockedReasons
  <2>2. CASE jobSecrets.session = "unusable"
    BY <2>1, <2>2
  <2>3. CASE jobSecrets.session = "blank"
    BY <2>1, <2>3
  <2>4. CASE jobSecrets.credential = "unusable"
    BY <2>1, <2>4
  <2>5. CASE jobSecrets.credential = "pair"
    BY <1>1, <2>1, <2>5
  <2> QED BY <1>1, <1>3, <2>2, <2>3, <2>4, <2>5
<1> QED BY <1>2, <1>3

\* ProtectedPagesAreAccountedFor: without authentication getBrowserQaSkipReason keeps the walk
\* out of the protected routes, and buildBrowserAuthCapabilityGap counts what was skipped
\* against what was declared, and knows why.
THEOREM PagesAreAccounted == AccessSpec => []ProtectedPagesAreAccountedFor
<1>1. AccessInv => ProtectedPagesAreAccountedFor
  <2> SUFFICES ASSUME AccessInv, qa = "walk" PROVE ProtectedPagesAreAccountedFor
    BY DEF ProtectedPagesAreAccountedFor
  <2>1. /\ coverage.authenticated = Authenticated /\ coverage.skipped = SkippedCount
        /\ coverage.declared = Cardinality(ProtectedDeclared)
        /\ coverage.left = {c.path : c \in Skipped(Candidates)}
        /\ coverage.reasons = BlockedReasons
    BY DEF AccessInv, Planning
  <2>2. /\ SkippedCount \in Nat /\ (SkippedCount = 0 <=> Skipped(Candidates) = {})
        /\ Cardinality(ProtectedDeclared) \in Nat
    BY SkipsAreCounted
  <2>3. Cardinality(ProtectedDeclared) = 0 <=> ProtectedDeclared = {}
    BY SkipsAreCounted, FS_EmptySet
  <2>4. ~ Authenticated => tried \intersect ByPrefix = {}
    BY DEF AccessInv
  <2>5. AuthGap # "none" => coverage.reasons # {} /\ coverage.left # {}
    <3> SUFFICES ASSUME AuthGap # "none" PROVE coverage.reasons # {} /\ coverage.left # {}
      OBVIOUS
    <3>1. ~ Authenticated /\ Cardinality(ProtectedDeclared) # 0 /\ SkippedCount # 0
      BY <2>1 DEF AuthGap
    <3>2. BlockedReasons # {}
      BY <2>3, <3>1, BlocksHaveReasons
    <3> QED BY <2>1, <2>2, <3>1, <3>2
  <2>6. AuthGap = "none" /\ ~ Authenticated => ProtectedDeclared \intersect Pages = {}
    <3> SUFFICES ASSUME AuthGap = "none", ~ Authenticated, NEW r \in ProtectedDeclared, r \in Pages
                 PROVE  FALSE
      OBVIOUS
    <3>1. Cardinality(ProtectedDeclared) # 0
      BY <2>3
    <3>2. SkippedCount = 0
      BY <2>1, <3>1 DEF AuthGap
    <3>3. RouteKind[r] = "page"
      BY DEF Pages
    <3>4. \/ \E c \in Skipped(navigation) : c.path = r
          \/ \E c \in Skipped([path : protected, requiresAuth : {TRUE}]) : c.path = r
      BY <3>3, DeclaredPagesAreSkipped
    <3>5. Skipped(Candidates) # {}
      BY <3>4 DEF Skipped, Candidates
    <3> QED BY <2>2, <3>2, <3>5
  <2>7. AuthGap = "medium" => \E r \in ProtectedDeclared : RouteKind[r] # "page"
    <3> SUFFICES ASSUME AuthGap = "medium", \A r \in ProtectedDeclared : RouteKind[r] = "page"
                 PROVE  FALSE
      OBVIOUS
    <3>1. ~ Authenticated /\ ~ (SkippedCount >= Cardinality(ProtectedDeclared))
      BY <2>1 DEF AuthGap
    <3>2. Cardinality(ProtectedDeclared) <= SkippedCount
      BY <3>1, PagesAreAllSkipped
    <3> QED BY <2>2, <3>1, <3>2
  <2> QED BY <2>4, <2>5, <2>6, <2>7 DEF ProtectedPagesAreAccountedFor
<1> QED BY <1>1, AccessInvariant, PTL

\* The pages of the walk.
WalkedPages ==
  /\ toOpen \subseteq Pages /\ tried \subseteq Pages /\ opened \subseteq tried
  /\ Cardinality(opened) <= MaxOpened

\* The walk opens no more pages than it may.
LEMMA WalkedPagesKeep == AccessInv /\ WalkedPages /\ [AccessNext]_accessVars => WalkedPages'
<1> SUFFICES ASSUME AccessInv, WalkedPages, [AccessNext]_accessVars PROVE WalkedPages'
  OBVIOUS
<1>0. /\ toOpen \subseteq Pages /\ tried \subseteq Pages /\ opened \subseteq tried
      /\ Cardinality(opened) <= MaxOpened
  BY DEF WalkedPages
<1>1. ASSUME NEW l \in Routes, SkipReason(l, FALSE) = "none" PROVE l \in Pages
  BY <1>1, RoutesAssumption DEF SkipReason, Pages, RouteKinds
<1>2. Planned \subseteq Pages
  <2> SUFFICES ASSUME NEW c \in Candidates, SkipReason(c.path, c.requiresAuth) = "none" PROVE c.path \in Pages
    BY DEF Planned
  <2>1. c.path \in Routes
    BY RoutesAssumption DEF Candidates, AccessInv, Targets
  <2> QED BY <2>1, RoutesAssumption DEF SkipReason, Pages, RouteKinds
<1>3. CASE (\E succeeds \in BOOLEAN : Login(succeeds)) \/ UNCHANGED accessVars
  BY <1>0, <1>3 DEF Login, accessVars, WalkedPages
<1>4. CASE Plan
  BY <1>0, <1>2, <1>4 DEF Plan, WalkedPages
<1>5. ASSUME NEW page \in Pages, NEW links \in {{}, Pages}, Open(page, links) PROVE WalkedPages'
  <2>1. {l \in links : SkipReason(l, FALSE) = "none"} \subseteq Pages
    OBVIOUS
  <2>2. IsFiniteSet(opened)
    BY <1>0, RoutesAssumption, FS_Subset DEF Pages
  <2>3. Cardinality(opened) \in Nat /\ Cardinality(opened') \in Nat
        /\ Cardinality(opened') <= Cardinality(opened) + 1
    <3>1. opened' = opened \union {page}
      BY <1>5 DEF Open
    <3>2. /\ IsFiniteSet(opened \union {page})
          /\ \/ Cardinality(opened \union {page}) = Cardinality(opened)
             \/ Cardinality(opened \union {page}) = Cardinality(opened) + 1
      BY <2>2, FS_AddElement
    <3>3. Cardinality(opened) \in Nat /\ Cardinality(opened \union {page}) \in Nat
      BY <2>2, <3>2, FS_CardinalityType
    <3> QED BY <3>1, <3>2, <3>3
  <2>4. Cardinality(opened') <= MaxOpened
    BY <1>5, <2>3, RoutesAssumption DEF Open
  <2> QED BY <1>0, <1>5, <2>1, <2>4 DEF Open, WalkedPages
<1>6. CASE \E page \in Pages : FailToOpen(page)
  BY <1>0, <1>6 DEF FailToOpen, WalkedPages
<1>7. CASE OpenBase(Pages)
  BY <1>0, <1>7 DEF OpenBase, WalkedPages
<1> QED BY <1>3, <1>4, <1>5, <1>6, <1>7 DEF AccessNext

\* AccessType: what the inductive invariant leaves out of it is inductive beside it.
THEOREM AccessTypes == AccessSpec => []AccessType
<1>1. ASSUME AccessInit PROVE WalkedPages
  <2>1. Cardinality({}) = 0 /\ 0 <= MaxOpened
    BY FS_EmptySet, RoutesAssumption
  <2> QED BY <1>1, <2>1 DEF AccessInit, WalkedPages
<1>2. ASSUME AccessInv, WalkedPages PROVE AccessType
  <2>1. {toOpen, tried, opened} \subseteq SUBSET Pages
    BY <1>2 DEF WalkedPages
  <2> QED BY <1>2, <2>1, Zenon DEF AccessInv, WalkedPages, AccessType
<1> QED BY <1>1, <1>2, WalkedPagesKeep, AccessInvariant, PTL DEF AccessSpec

-----------------------------------------------------------------------------
(* The commands of the loop *)

\* Two commands at a time, against one API.
CyclesSpec == CyclesInit /\ [][CyclesNext]_cycleVars

\* What a command, a job and a summary consist of.
Lines    == {"launch", "stdout", "collect"}
Statuses == Final \union {"none", "queued", "running"}
Readings == [status : Statuses, trail : SUBSET Lines, report : BOOLEAN]
Commands == [mode : Modes, at : Steps, tries : Nat, job : Nat, space : Nat, waits : BOOLEAN,
             seen : Readings, leftover : BOOLEAN]
Queued   == [by : Nat, of : Nat, space : Nat, status : Statuses, trail : SUBSET Lines]
SummaryRows  == [by : Nat, mode : Modes \union {"none"}, status : Statuses, report : BOOLEAN]

\* The rows have their types, and every job has a place for its summary.
CycleRows ==
  /\ cycle \in Seq(Commands) /\ dogfoodJobs \in Seq(Queued)
  /\ files \in Seq(SummaryRows) /\ Len(files) = Len(dogfoodJobs)
  /\ proSpaces \in Seq(BOOLEAN)

\* Steps of a command before it has queued what it was to queue.
Before == {"prepare", "workspace", "create", "upgrade", "access", "archive", "upload", "queue"}

\* An audit that has a report; and a workspace that is pro.
Reported(j, api) == j # 0 /\ api[j].of = 0 /\ api[j].status = "succeeded"
IsPro(s, spaces)  == s \in 1 .. Len(spaces) /\ spaces[s]

\* Command i has the workspace and the job that its next request is about.
OnItsWay(i, c, api, spaces) ==
  /\ c.job \in 0 .. Len(api)
  /\ c.at \in Before =>
       /\ \A j \in 1 .. Len(api) : api[j].by # i
       /\ c.mode = "analyze" <=> c.job = 0
       /\ ~ c.seen.report /\ c.seen.status = "none"
  /\ c.at \in {"workspace", "create", "upgrade", "archive", "upload"} => c.mode = "analyze"
  /\ c.at \in {"access", "queue"} => c.mode # "collect"
  /\ c.at = "upgrade" => c.space \in 1 .. Len(spaces)
  /\ c.at \in {"access", "archive", "upload", "queue"} /\ c.mode = "analyze" => IsPro(c.space, spaces)
  /\ c.at \in {"access", "queue"} /\ c.mode = "remediate" => Reported(c.job, api)
  /\ c.at \in InTry \union {"directory", "ok"} => c.job # 0
  /\ c.at \in Before \union {"directory"} => c.seen = Unread
  /\ c.leftover => c.mode = "analyze" /\ c.at # "ok" /\ (c.at \in InTry \/ c.seen = Unread)

\* What it has read of its job stays true, and its summary says that.
HasRead(i, c, api, summaries) ==
  /\ c.seen.status = "succeeded" => c.job # 0 /\ api[c.job].status = "succeeded"
  /\ c.seen.report => Reported(c.job, api)
  /\ c.at \notin Ended \union {"judge"} \/ (c.at = "broken" /\ c.leftover) =>
       \A j \in 1 .. Len(summaries) : summaries[j].by # i
  /\ c.at \in {"judge", "ok"} /\ summaries[c.job].by = i => summaries[c.job].status = c.seen.status
  /\ c.at = "ok" /\ c.waits => c.seen.status = "succeeded"

\* A command queues one job; fixes are of audits that have a report, audits of workspaces
\* that are pro; and a summary that names a report is of such an audit.
JobsFit ==
  \A j \in 1 .. Len(dogfoodJobs) :
    /\ dogfoodJobs[j].by \in 1 .. Len(cycle) /\ files[j].by \in 0 .. Len(cycle)
    /\ \A k \in 1 .. Len(dogfoodJobs) : dogfoodJobs[j].by = dogfoodJobs[k].by => j = k
    /\ IF dogfoodJobs[j].of = 0 THEN IsPro(dogfoodJobs[j].space, proSpaces)
       ELSE dogfoodJobs[j].of \in 1 .. Len(dogfoodJobs) /\ Reported(dogfoodJobs[j].of, dogfoodJobs)
    /\ files[j].report => Reported(j, dogfoodJobs)

\* Command i fits, as it stands.
CommandFits(i) ==
  /\ OnItsWay(i, cycle[i], dogfoodJobs, proSpaces)
  /\ HasRead(i, cycle[i], dogfoodJobs, files)

\* The parts of the inductive invariant.
CommandsFit == CycleRows /\ JobsFit /\ \A i \in 1 .. Len(cycle) : CommandFits(i)

\* The API forgets no job, the loop no workspace, and command i writes summaries of its own,
\* or spoils them.
MoreJobs(i, api, later) ==
  /\ later \in Seq(Queued) /\ Len(api) <= Len(later)
  /\ \A j \in 1 .. Len(api) :
       /\ later[j].by = api[j].by /\ later[j].of = api[j].of /\ later[j].space = api[j].space
       /\ api[j].status = "succeeded" => later[j].status = "succeeded"
  /\ \A j \in 1 .. Len(later) : j > Len(api) => later[j].by = i

MoreFiles(i, summaries, later) ==
  /\ later \in Seq(SummaryRows) /\ Len(summaries) <= Len(later)
  /\ \A j \in 1 .. Len(summaries) : later[j] = summaries[j] \/ later[j].by \in {0, i}
  /\ \A j \in 1 .. Len(later) : j > Len(summaries) => later[j].by = 0

MoreSpaces(spaces, later) ==
  /\ later \in Seq(BOOLEAN) /\ Len(spaces) <= Len(later)
  /\ \A s \in 1 .. Len(spaces) : spaces[s] => later[s]

\* A command is not disturbed by what another one, or the product, does.
LEMMA OthersUndisturbed ==
  ASSUME NEW i \in Nat, NEW k \in Nat, k # i, k # 0, NEW c \in Commands,
         NEW api \in Seq(Queued), NEW apiLater, MoreJobs(i, api, apiLater),
         NEW summaries \in Seq(SummaryRows), NEW summaries2, MoreFiles(i, summaries, summaries2),
         NEW spaces \in Seq(BOOLEAN), NEW spaces2, MoreSpaces(spaces, spaces2),
         Len(summaries) = Len(api),
         OnItsWay(k, c, api, spaces), HasRead(k, c, api, summaries)
  PROVE  OnItsWay(k, c, apiLater, spaces2) /\ HasRead(k, c, apiLater, summaries2)
<1>1. /\ Len(api) \in Nat /\ Len(apiLater) \in Nat /\ Len(summaries2) \in Nat /\ Len(spaces) \in Nat
      /\ Len(spaces2) \in Nat
      /\ c.job \in Nat /\ c.space \in Nat
  BY DEF MoreJobs, MoreFiles, MoreSpaces, Commands
<1>2. ASSUME Reported(c.job, api), c.job \in 0 .. Len(api)
      PROVE  Reported(c.job, apiLater)
  BY <1>1, <1>2 DEF MoreJobs, Reported
<1>3. ASSUME IsPro(c.space, spaces) PROVE IsPro(c.space, spaces2)
  BY <1>1, <1>3 DEF MoreSpaces, IsPro
<1>4. OnItsWay(k, c, apiLater, spaces2)
  <2>1. c.job \in 0 .. Len(apiLater)
    BY <1>1 DEF OnItsWay, MoreJobs
  <2>2. ASSUME c.at \in Before, NEW j \in 1 .. Len(apiLater)
        PROVE  apiLater[j].by # k
    <3>1. CASE j <= Len(api)
      <4>1. j \in 1 .. Len(api)
        BY <1>1, <3>1
      <4>2. api[j].by # k
        BY <2>2, <4>1, Zenon DEF OnItsWay
      <4> QED BY <4>1, <4>2 DEF MoreJobs
    <3>2. CASE j > Len(api)
      BY <1>1, <2>2, <3>2 DEF MoreJobs
    <3> QED BY <1>1, <3>1, <3>2
  <2>3. c.at = "upgrade" => c.space \in 1 .. Len(spaces2)
    BY <1>1 DEF OnItsWay, MoreSpaces
  <2> QED BY <1>2, <1>3, <2>1, <2>2, <2>3 DEF OnItsWay
<1>5. HasRead(k, c, apiLater, summaries2)
  <2>1. c.seen.status = "succeeded" => apiLater[c.job].status = "succeeded"
    BY <1>1 DEF OnItsWay, HasRead, MoreJobs
  <2>2. ASSUME c.at \notin Ended \union {"judge"} \/ (c.at = "broken" /\ c.leftover),
               NEW j \in 1 .. Len(summaries2)
        PROVE  summaries2[j].by # k
    <3>1. CASE j <= Len(summaries)
      BY <1>1, <2>2, <3>1 DEF HasRead, MoreFiles
    <3>2. CASE j > Len(summaries)
      BY <1>1, <2>2, <3>2 DEF MoreFiles
    <3> QED BY <1>1, <3>1, <3>2
  <2>3. ASSUME c.at \in {"judge", "ok"}, summaries2[c.job].by = k
        PROVE  summaries2[c.job].status = c.seen.status
    <3>1. c.job \in 1 .. Len(summaries)
      BY <1>1, <2>3 DEF OnItsWay, InTry
    <3> QED BY <1>1, <2>3, <3>1 DEF HasRead, MoreFiles
  <2> QED BY <1>2, <2>1, <2>2, <2>3 DEF HasRead, OnItsWay
<1> QED BY <1>4, <1>5

\* It suffices to look at the command that takes a step.
LEMMA OneCommandMoves ==
  ASSUME CommandsFit, NEW i \in 1 .. Len(cycle),
         cycle' \in Seq(Commands), Len(cycle') = Len(cycle),
         \A k \in 1 .. Len(cycle) : k # i => cycle'[k] = cycle[k],
         MoreJobs(i, dogfoodJobs, dogfoodJobs'), MoreFiles(i, files, files'),
         MoreSpaces(proSpaces, proSpaces'), Len(files') = Len(dogfoodJobs'),
         JobsFit', CommandFits(i)'
  PROVE  CommandsFit'
<1>1. CycleRows'
  BY DEF CycleRows, MoreJobs, MoreFiles, MoreSpaces
<1>2. ASSUME NEW k \in 1 .. Len(cycle'), k # i
      PROVE  CommandFits(k)'
  <2>1. k \in 1 .. Len(cycle) /\ cycle[k] \in Commands /\ cycle'[k] = cycle[k] /\ CommandFits(k)
    BY <1>2 DEF CommandsFit, CycleRows
  <2>2. OnItsWay(k, cycle[k], dogfoodJobs', proSpaces') /\ HasRead(k, cycle[k], dogfoodJobs', files')
    <3>1. /\ dogfoodJobs \in Seq(Queued) /\ files \in Seq(SummaryRows) /\ proSpaces \in Seq(BOOLEAN)
          /\ Len(files) = Len(dogfoodJobs) /\ k \in Nat /\ i \in Nat /\ k # 0
          /\ OnItsWay(k, cycle[k], dogfoodJobs, proSpaces) /\ HasRead(k, cycle[k], dogfoodJobs, files)
      BY <2>1 DEF CommandsFit, CycleRows, CommandFits
    <3> QED BY <1>2, <2>1, <3>1, OthersUndisturbed
  <2> QED BY <2>1, <2>2 DEF CommandFits
<1> QED BY <1>1, <1>2 DEF CommandsFit

\* Replacing a command in the list.
LEMMA CommandReplaced ==
  ASSUME NEW c \in Seq(Commands), NEW i \in 1 .. Len(c), NEW n \in Commands
  PROVE  LET d == [c EXCEPT ![i] = n]
         IN  /\ d \in Seq(Commands) /\ Len(d) = Len(c) /\ d[i] = n
             /\ \A k \in 1 .. Len(c) : k # i => d[k] = c[k]
OBVIOUS

\* Command i is c, which fits.
LEMMA CommandNow ==
  ASSUME CommandsFit, NEW i \in 1 .. Len(cycle)
  PROVE  /\ cycle[i] \in Commands
         /\ OnItsWay(i, cycle[i], dogfoodJobs, proSpaces)
         /\ HasRead(i, cycle[i], dogfoodJobs, files)
BY DEF CommandsFit, CycleRows, CommandFits

\* Where the rest stays as it is, it suffices that the command fits.
LEMMA OnlyCommandMoves ==
  ASSUME CommandsFit, NEW i \in 1 .. Len(cycle), NEW n \in Commands,
         cycle' = [cycle EXCEPT ![i] = n], UNCHANGED <<dogfoodJobs, files, proSpaces>>,
         OnItsWay(i, n, dogfoodJobs, proSpaces), HasRead(i, n, dogfoodJobs, files)
  PROVE  CommandsFit'
<1>1. /\ cycle' \in Seq(Commands) /\ Len(cycle') = Len(cycle) /\ cycle'[i] = n
      /\ \A k \in 1 .. Len(cycle) : k # i => cycle'[k] = cycle[k]
  BY CommandReplaced DEF CommandsFit, CycleRows
<1>2. CommandFits(i)'
  BY <1>1 DEF CommandFits
<1>3. JobsFit'
  BY <1>1 DEF JobsFit, CommandsFit
<1>4. /\ MoreJobs(i, dogfoodJobs, dogfoodJobs') /\ MoreFiles(i, files, files')
      /\ MoreSpaces(proSpaces, proSpaces') /\ Len(files') = Len(dogfoodJobs')
  BY DEF CommandsFit, CycleRows, MoreJobs, MoreFiles, MoreSpaces
<1> QED BY <1>1, <1>2, <1>3, <1>4, OneCommandMoves

\* The same where the loop's workspaces grow.
LEMMA SpacesGrow ==
  ASSUME CommandsFit, NEW i \in 1 .. Len(cycle), NEW n \in Commands,
         cycle' = [cycle EXCEPT ![i] = n], UNCHANGED <<dogfoodJobs, files>>,
         MoreSpaces(proSpaces, proSpaces'),
         OnItsWay(i, n, dogfoodJobs, proSpaces'), HasRead(i, n, dogfoodJobs, files)
  PROVE  CommandsFit'
<1>1. /\ cycle' \in Seq(Commands) /\ Len(cycle') = Len(cycle) /\ cycle'[i] = n
      /\ \A k \in 1 .. Len(cycle) : k # i => cycle'[k] = cycle[k]
  BY CommandReplaced DEF CommandsFit, CycleRows
<1>2. CommandFits(i)'
  BY <1>1 DEF CommandFits
<1>3. JobsFit'
  <2>1. \A s \in Nat : IsPro(s, proSpaces) => IsPro(s, proSpaces')
    BY DEF IsPro, MoreSpaces, CommandsFit, CycleRows
  <2>2. \A j \in 1 .. Len(dogfoodJobs) : dogfoodJobs[j].space \in Nat
    <3>1. \A j \in 1 .. Len(dogfoodJobs) : dogfoodJobs[j] \in Queued
      BY DEF CommandsFit, CycleRows
    <3> QED BY <3>1 DEF Queued
  <2> QED BY <1>1, <2>1, <2>2 DEF JobsFit, CommandsFit
<1>4. MoreJobs(i, dogfoodJobs, dogfoodJobs') /\ MoreFiles(i, files, files')
                                             /\ Len(files') = Len(dogfoodJobs')
  BY DEF CommandsFit, CycleRows, MoreJobs, MoreFiles
<1> QED BY <1>1, <1>2, <1>3, <1>4, OneCommandMoves

\* What a step leaves of a command.
Kept(n, c) ==
  n.mode = c.mode /\ n.job = c.job /\ n.space = c.space /\ n.waits = c.waits /\ n.seen = c.seen

\* A command that goes on, or ends, is otherwise as it was.
LEMMA WentOn ==
  ASSUME CommandsFit, NEW i \in 1 .. Len(cycle), NEW s \in Steps, Go(i, s)
  PROVE  \E n \in Commands : /\ cycle' = [cycle EXCEPT ![i] = n] /\ n.at = s
                             /\ Kept(n, cycle[i]) /\ n.leftover = cycle[i].leftover
<1> DEFINE n == [cycle[i] EXCEPT !.at = s, !.tries = 0]
<1>1. /\ n \in Commands /\ n.at = s /\ Kept(n, cycle[i]) /\ n.leftover = cycle[i].leftover
  BY CommandNow DEF Commands, Kept
<1>2. cycle' = [cycle EXCEPT ![i] = n]
  BY CommandNow DEF Go, CommandsFit, CycleRows
<1> QED BY <1>1, <1>2

\* The same for one that ends.
LEMMA HasEnded ==
  ASSUME CommandsFit, NEW i \in 1 .. Len(cycle), NEW s \in Ended, End(i, s)
  PROVE  \E n \in Commands : /\ cycle' = [cycle EXCEPT ![i] = n] /\ n.at = s /\ Kept(n, cycle[i])
                             /\ n.leftover = (cycle[i].leftover /\ cycle[i].at \notin InTry)
<1> DEFINE b == cycle[i].leftover /\ cycle[i].at \notin InTry
           n == [cycle[i] EXCEPT !.at = s, !.leftover = b]
<1>1. b \in BOOLEAN
  OBVIOUS
<1>2. n \in Commands /\ n.at = s /\ Kept(n, cycle[i]) /\ n.leftover = b
  <2> HIDE DEF b
  <2> QED BY <1>1, CommandNow DEF Commands, Kept, Steps
<1>3. cycle' = [cycle EXCEPT ![i] = n]
  BY CommandNow DEF End, CommandsFit, CycleRows
<1> QED BY <1>2, <1>3

\* A command may break off at any step.
LEMMA BrokenOnItsWay ==
  ASSUME NEW i, NEW n \in Commands, NEW api, NEW spaces, n.at = "broken",
         n.job \in 0 .. Len(api), n.leftover => n.mode = "analyze" /\ n.seen = Unread
  PROVE  OnItsWay(i, n, api, spaces)
BY DEF OnItsWay, Before, InTry

\* A command may break off at any step, whatever it was about to change.
LEMMA BrokenFits ==
  ASSUME NEW i \in Nat, NEW c \in Commands, NEW n \in Commands, n.at = "broken", Kept(n, c),
         n.leftover = (c.leftover /\ c.at \notin InTry),
         NEW api \in Seq(Queued), NEW apiLater, MoreJobs(i, api, apiLater),
         NEW summaries, NEW summaries2, NEW spaces, NEW spaces2,
         \A j \in 1 .. Len(summaries2) : summaries2[j].by = i =>
           j \in 1 .. Len(summaries) /\ summaries[j].by = i,
         OnItsWay(i, c, api, spaces), HasRead(i, c, api, summaries)
  PROVE  OnItsWay(i, n, apiLater, spaces2) /\ HasRead(i, n, apiLater, summaries2)
<1>1. /\ Len(api) \in Nat /\ Len(apiLater) \in Nat /\ c.job \in 0 .. Len(api) /\ Len(api) <= Len(apiLater)
  BY DEF OnItsWay, MoreJobs
<1>2. n.leftover => c.leftover /\ c.at \notin InTry
  OBVIOUS
<1>4. OnItsWay(i, n, apiLater, spaces2)
  <2>1. n.leftover => c.mode = "analyze" /\ c.seen = Unread
    BY <1>2, Zenon DEF OnItsWay
  <2> QED BY <1>1, <2>1, BrokenOnItsWay DEF Kept
<1>3. HasRead(i, n, apiLater, summaries2)
  <2>1. ASSUME n.leftover, NEW j \in 1 .. Len(summaries2) PROVE summaries2[j].by # i
    <3>1. c.at \notin Ended \union {"judge"} \/ (c.at = "broken" /\ c.leftover)
      BY <1>2, <2>1 DEF OnItsWay, InTry, Ended
    <3> QED BY <2>1, <3>1 DEF HasRead
  <2> QED BY <1>1, <2>1 DEF HasRead, Kept, MoreJobs, Reported, Ended
<1> QED BY <1>4, <1>3

\* Where it changed nothing else, that is all.
LEMMA BrokenKeeps ==
  ASSUME CommandsFit, NEW i \in 1 .. Len(cycle), End(i, "broken"),
         UNCHANGED <<dogfoodJobs, files, proSpaces>>
  PROVE  CommandsFit'
<1>1. PICK n \in Commands : /\ cycle' = [cycle EXCEPT ![i] = n] /\ n.at = "broken" /\ Kept(n, cycle[i])
                           /\ n.leftover = (cycle[i].leftover /\ cycle[i].at \notin InTry)
  BY HasEnded DEF Ended
<1>2. dogfoodJobs \in Seq(Queued) /\ i \in Nat /\ MoreJobs(i, dogfoodJobs, dogfoodJobs)
  BY DEF CommandsFit, CycleRows, MoreJobs
<1>3. OnItsWay(i, n, dogfoodJobs, proSpaces) /\ HasRead(i, n, dogfoodJobs, files)
  BY <1>1, <1>2, CommandNow, BrokenFits
<1> QED BY <1>1, <1>3, OnlyCommandMoves

\* The directory of the job comes before what is waited for, or written.
LEMMA MakeDirectoryKeeps ==
  ASSUME CommandsFit, NEW i \in 1 .. Len(cycle), MakeDirectory(i) PROVE CommandsFit'
<1>1. UNCHANGED <<dogfoodJobs, files, proSpaces>>
  BY DEF MakeDirectory
<1>2. ASSUME NEW s \in {"wait", "save"}, Go(i, s), cycle[i].at = "directory"
      PROVE  CommandsFit'
  <2>1. PICK n \in Commands : /\ cycle' = [cycle EXCEPT ![i] = n] /\ n.at = s /\ Kept(n, cycle[i])
                             /\ n.leftover = cycle[i].leftover
    BY <1>2, WentOn DEF Steps, Reading
  <2>2. OnItsWay(i, n, dogfoodJobs, proSpaces)
    BY <1>2, <2>1, CommandNow DEF OnItsWay, Kept, Before, InTry
  <2>3. HasRead(i, n, dogfoodJobs, files)
    BY <1>2, <2>1, CommandNow DEF HasRead, Kept, Ended
  <2> QED BY <1>1, <2>1, <2>2, <2>3, OnlyCommandMoves
<1> QED BY <1>2 DEF MakeDirectory

\* A file that could not be written ends the command; a summary cut short tells nothing.
LEMMA DiskFailsKeeps ==
  ASSUME CommandsFit, NEW i \in 1 .. Len(cycle), DiskFails(i) PROVE CommandsFit'
<1>1. /\ UNCHANGED <<dogfoodJobs, proSpaces>> /\ End(i, "broken")
      /\ UNCHANGED files \/ (cycle[i].at = "save" /\ files' = [files EXCEPT ![cycle[i].job] = NoFile])
  BY DEF DiskFails
<1>2. CASE UNCHANGED files
  BY <1>1, <1>2, BrokenKeeps
<1>3. CASE cycle[i].at = "save" /\ files' = [files EXCEPT ![cycle[i].job] = NoFile]
  <2>1. PICK n \in Commands : /\ cycle' = [cycle EXCEPT ![i] = n] /\ n.at = "broken" /\ Kept(n, cycle[i])
                             /\ n.leftover = (cycle[i].leftover /\ cycle[i].at \notin InTry)
    BY <1>1, HasEnded DEF Ended
  <2>2. /\ dogfoodJobs \in Seq(Queued) /\ i \in Nat /\ i # 0 /\ Len(files) = Len(dogfoodJobs)
        /\ files \in Seq(SummaryRows) /\ cycle \in Seq(Commands)
        /\ MoreJobs(i, dogfoodJobs, dogfoodJobs') /\ MoreSpaces(proSpaces, proSpaces')
    BY <1>1 DEF CommandsFit, CycleRows, MoreJobs, MoreSpaces
  <2>3. NoFile \in SummaryRows /\ NoFile.by = 0 /\ ~ NoFile.report
    BY DEF NoFile, SummaryRows, Statuses
  <2>4. /\ files' \in Seq(SummaryRows) /\ Len(files') = Len(files)
        /\ \A j \in 1 .. Len(files) : files'[j] = files[j] \/ files'[j] = NoFile
    <3>1. PICK row \in SummaryRows : row = NoFile
      BY <2>3
    <3>2. PICK job \in 1 .. Len(files) : job = cycle[i].job
      BY <1>3, <2>2, CommandNow DEF OnItsWay, InTry
    <3>3. files' = [files EXCEPT ![job] = row]
      BY <1>3, <3>1, <3>2
    <3> QED BY <2>2, <3>1, <3>3
  <2>5. MoreFiles(i, files, files')
    BY <2>2, <2>3, <2>4 DEF MoreFiles
  <2>6. \A j \in 1 .. Len(files') : files'[j].by = i => j \in 1 .. Len(files) /\ files[j].by = i
    BY <2>2, <2>3, <2>4
  <2>7. OnItsWay(i, n, dogfoodJobs, proSpaces) /\ HasRead(i, n, dogfoodJobs, files')
    BY <1>1, <2>1, <2>2, <2>6, CommandNow, BrokenFits
  <2>8. /\ cycle' \in Seq(Commands) /\ Len(cycle') = Len(cycle) /\ cycle'[i] = n
        /\ \A k \in 1 .. Len(cycle) : k # i => cycle'[k] = cycle[k]
    BY <2>1, <2>2, CommandReplaced
  <2>9. CommandFits(i)'
    BY <1>1, <2>7, <2>8 DEF CommandFits
  <2>10. JobsFit'
    <3>1. \A j \in 1 .. Len(files) : (files'[j].by = files[j].by \/ files'[j].by = 0)
                                     /\ (files'[j].report => files[j].report)
      BY <2>3, <2>4
    <3>2. 0 \in 0 .. Len(cycle)
      BY <2>2
    <3> QED BY <1>1, <2>2, <2>8, <3>1, <3>2 DEF JobsFit, CommandsFit
  <2> QED BY <1>1, <2>2, <2>4, <2>5, <2>8, <2>9, <2>10, OneCommandMoves
<1> QED BY <1>1, <1>2, <1>3

\* ApiClient.request
LEMMA LoseRequestKeeps ==
  ASSUME CommandsFit, NEW i \in 1 .. Len(cycle), LoseRequest(i) PROVE CommandsFit'
<1>1. UNCHANGED <<dogfoodJobs, files, proSpaces>>
  BY DEF LoseRequest
<1>2. CASE End(i, "broken")
  BY <1>1, <1>2, BrokenKeeps
<1>3. CASE cycle' = [cycle EXCEPT ![i].tries = @ + 1]
  <2> DEFINE n == [cycle[i] EXCEPT !.tries = cycle[i].tries + 1]
  <2>1. n \in Commands /\ n.at = cycle[i].at /\ Kept(n, cycle[i]) /\ n.leftover = cycle[i].leftover
    BY CommandNow DEF Commands, Kept
  <2>2. cycle' = [cycle EXCEPT ![i] = n]
    BY <1>3, CommandNow DEF CommandsFit, CycleRows
  <2> HIDE DEF n
  <2>3. PICK m \in Commands : m = n
    BY <2>1
  <2>4. OnItsWay(i, m, dogfoodJobs, proSpaces) /\ HasRead(i, m, dogfoodJobs, files)
    BY <2>1, <2>3, CommandNow DEF OnItsWay, HasRead, Kept
  <2> QED BY <1>1, <2>2, <2>3, <2>4, OnlyCommandMoves
<1> QED BY <1>2, <1>3 DEF LoseRequest

\* The steps of a command
LEMMA PrepareKeeps ==
  ASSUME CommandsFit, NEW i \in 1 .. Len(cycle), Prepare(i) PROVE CommandsFit'
<1>1. UNCHANGED <<dogfoodJobs, files, proSpaces>> /\ cycle[i].at = "prepare"
  BY DEF Prepare
<1>2. CASE End(i, "broken")
  BY <1>1, <1>2, BrokenKeeps
<1>3. ASSUME NEW s \in Steps, Go(i, s), cycle[i].mode = "remediate" => CanRemediate(cycle[i].job),
             s = CASE cycle[i].mode = "analyze" -> "workspace"
                   [] cycle[i].mode = "remediate" -> "access"
                   [] OTHER -> IF cycle[i].waits THEN "wait" ELSE "envelope"
      PROVE  CommandsFit'
  <2>1. PICK n \in Commands : /\ cycle' = [cycle EXCEPT ![i] = n] /\ n.at = s /\ Kept(n, cycle[i])
                             /\ n.leftover = cycle[i].leftover
    BY <1>3, WentOn
  <2>2. cycle[i].mode = "remediate" => Reported(cycle[i].job, dogfoodJobs)
    <3>1. cycle[i].mode = "remediate" => cycle[i].job \in 1 .. Len(dogfoodJobs)
      BY <1>1, CommandNow DEF OnItsWay, Before, CommandsFit, CycleRows
    <3> QED BY <1>3, <3>1 DEF CanRemediate, CommandsFit, JobsFit
  <2>3. OnItsWay(i, n, dogfoodJobs, proSpaces)
    <3>1. CASE cycle[i].mode = "analyze"
      BY <1>1, <1>3, <2>1, <3>1, CommandNow DEF OnItsWay, Kept, Before, InTry
    <3>2. CASE cycle[i].mode = "remediate"
      BY <1>1, <1>3, <2>1, <2>2, <3>2, CommandNow DEF OnItsWay, Kept, Before, InTry
    <3>3. CASE cycle[i].mode # "analyze" /\ cycle[i].mode # "remediate"
      BY <1>1, <1>3, <2>1, <3>3, CommandNow DEF OnItsWay, Kept, Before, InTry
    <3> QED BY <3>1, <3>2, <3>3
  <2>4. HasRead(i, n, dogfoodJobs, files)
    BY <1>1, <1>3, <2>1, CommandNow DEF OnItsWay, HasRead, Kept, Before, Ended, Reported
  <2> QED BY <1>1, <2>1, <2>3, <2>4, OnlyCommandMoves
<1> QED BY <1>2, <1>3 DEF Prepare, Steps, Reading, Writing

\* ensureScopedCodexAuth
LEMMA CheckAccessKeeps ==
  ASSUME CommandsFit, NEW i \in 1 .. Len(cycle), CheckAccess(i) PROVE CommandsFit'
<1>1. UNCHANGED <<dogfoodJobs, files, proSpaces>>
  BY DEF CheckAccess
<1>2. CASE End(i, "broken")
  BY <1>1, <1>2, BrokenKeeps
<1>3. ASSUME NEW s \in Steps, Go(i, s), cycle[i].at = "access",
             s = IF cycle[i].mode = "analyze" THEN "archive" ELSE "queue"
      PROVE  CommandsFit'
  <2>1. PICK n \in Commands : /\ cycle' = [cycle EXCEPT ![i] = n] /\ n.at = s /\ Kept(n, cycle[i])
                             /\ n.leftover = cycle[i].leftover
    BY <1>3, WentOn
  <2>2. OnItsWay(i, n, dogfoodJobs, proSpaces)
    BY <1>3, <2>1, CommandNow DEF OnItsWay, HasRead, Kept, Before, InTry, Ended, Reported, IsPro,
       Commands, Modes
  <2>3. HasRead(i, n, dogfoodJobs, files)
    BY <1>3, <2>1, CommandNow DEF OnItsWay, HasRead, Kept, Before, InTry, Ended, Reported, IsPro,
       Commands, Modes
  <2> QED BY <1>1, <2>1, <2>2, <2>3, OnlyCommandMoves
<1> QED BY <1>2, <1>3 DEF CheckAccess, Steps, Reading, Writing, Ended

\* waitForJob
LEMMA PollEndedKeeps ==
  ASSUME CommandsFit, NEW i \in 1 .. Len(cycle), PollEnded(i) PROVE CommandsFit'
<1>1. UNCHANGED <<dogfoodJobs, files, proSpaces>>
  BY DEF PollEnded
<1>2. ASSUME NEW s \in Steps, Go(i, s), cycle[i].at = "wait", s = "envelope"
      PROVE  CommandsFit'
  <2>1. PICK n \in Commands : /\ cycle' = [cycle EXCEPT ![i] = n] /\ n.at = s /\ Kept(n, cycle[i])
                             /\ n.leftover = cycle[i].leftover
    BY <1>2, WentOn
  <2>2. OnItsWay(i, n, dogfoodJobs, proSpaces)
    BY <1>2, <2>1, CommandNow DEF OnItsWay, HasRead, Kept, Before, InTry, Ended, Reported, IsPro
  <2>3. HasRead(i, n, dogfoodJobs, files)
    BY <1>2, <2>1, CommandNow DEF OnItsWay, HasRead, Kept, Before, InTry, Ended, Reported, IsPro
  <2> QED BY <1>1, <2>1, <2>2, <2>3, OnlyCommandMoves
<1> QED BY <1>2 DEF PollEnded, Steps, Reading, Writing, Ended

\* and its end.
LEMMA TimeOutKeeps ==
  ASSUME CommandsFit, NEW i \in 1 .. Len(cycle), TimeOut(i) PROVE CommandsFit'
BY BrokenKeeps DEF TimeOut

\* assertHostedSandboxEvidence, on what was read of a job that had ended.
LEMMA JudgeCycleKeeps ==
  ASSUME CommandsFit, NEW i \in 1 .. Len(cycle), JudgeCycle(i) PROVE CommandsFit'
<1>1. UNCHANGED <<dogfoodJobs, files, proSpaces>> /\ cycle[i].at = "judge"
  BY DEF JudgeCycle
<1>2. CASE End(i, "broken")
  BY <1>1, <1>2, BrokenKeeps
<1>3. ASSUME End(i, "ok"), cycle[i].waits => cycle[i].seen.status = "succeeded"
      PROVE  CommandsFit'
  <2>1. PICK n \in Commands : /\ cycle' = [cycle EXCEPT ![i] = n] /\ n.at = "ok" /\ Kept(n, cycle[i])
                             /\ n.leftover = (cycle[i].leftover /\ cycle[i].at \notin InTry)
    BY <1>3, HasEnded DEF Ended
  <2>2. OnItsWay(i, n, dogfoodJobs, proSpaces)
    BY <1>1, <2>1, CommandNow DEF OnItsWay, Kept, Before, InTry
  <2>3. HasRead(i, n, dogfoodJobs, files)
    BY <1>1, <1>3, <2>1, CommandNow DEF HasRead, Kept, Ended
  <2> QED BY <1>1, <2>1, <2>2, <2>3, OnlyCommandMoves
<1> QED BY <1>2, <1>3 DEF JudgeCycle

\* ensureWorkspace finds a workspace,
LEMMA FindWorkspaceKeeps ==
  ASSUME CommandsFit, NEW i \in 1 .. Len(cycle), FindWorkspace(i) PROVE CommandsFit'
<1>1. UNCHANGED <<dogfoodJobs, files, proSpaces>> /\ cycle[i].at = "workspace"
  BY DEF FindWorkspace
<1>2. CASE Go(i, "create")
  <2>1. PICK n \in Commands : /\ cycle' = [cycle EXCEPT ![i] = n] /\ n.at = "create" /\ Kept(n, cycle[i])
                             /\ n.leftover = cycle[i].leftover
    BY <1>2, WentOn DEF Steps, Writing
  <2>2. OnItsWay(i, n, dogfoodJobs, proSpaces)
    BY <1>1, <2>1, CommandNow DEF OnItsWay, Kept, Before, InTry
  <2>3. HasRead(i, n, dogfoodJobs, files)
    BY <1>1, <2>1, CommandNow DEF HasRead, Kept, Ended
  <2> QED BY <1>1, <2>1, <2>2, <2>3, OnlyCommandMoves
<1>3. ASSUME NEW s \in DOMAIN proSpaces, NEW step, step = IF proSpaces[s] THEN "access" ELSE "upgrade",
             cycle' = [cycle EXCEPT ![i].at = step, ![i].tries = 0, ![i].space = s]
      PROVE  CommandsFit'
  <2>1. s \in 1 .. Len(proSpaces) /\ s \in Nat /\ step \in Steps
    BY <1>3 DEF CommandsFit, CycleRows, Steps, Reading, Writing
  <2> DEFINE m == [cycle[i] EXCEPT !.at = step, !.tries = 0, !.space = s]
  <2>2. /\ m \in Commands /\ m.at = step /\ m.space = s /\ m.mode = cycle[i].mode /\ m.job = cycle[i].job
        /\ m.waits = cycle[i].waits /\ m.seen = cycle[i].seen /\ m.leftover = cycle[i].leftover
    BY <2>1, CommandNow DEF Commands
  <2>3. cycle' = [cycle EXCEPT ![i] = m]
    BY <1>3, CommandNow DEF CommandsFit, CycleRows
  <2> HIDE DEF m
  <2>4. PICK n \in Commands : n = m
    BY <2>2
  <2>5. OnItsWay(i, n, dogfoodJobs, proSpaces)
    BY <1>1, <1>3, <2>1, <2>2, <2>4, CommandNow DEF OnItsWay, Before, InTry, IsPro
  <2>6. HasRead(i, n, dogfoodJobs, files)
    BY <1>1, <1>3, <2>2, <2>4, CommandNow DEF HasRead, Ended
  <2> QED BY <1>1, <2>3, <2>4, <2>5, <2>6, OnlyCommandMoves
<1> QED BY <1>2, <1>3 DEF FindWorkspace

\* createGitArchive leaves a directory behind before a job is known.
LEMMA ArchiveKeeps ==
  ASSUME CommandsFit, NEW i \in 1 .. Len(cycle), Archive(i) PROVE CommandsFit'
<1>1. UNCHANGED <<dogfoodJobs, files, proSpaces>> /\ cycle[i].at = "archive"
  BY DEF Archive
<1>2. ASSUME NEW s \in {"upload", "broken"}, cycle' = [cycle EXCEPT ![i].at = s, ![i].leftover = TRUE]
      PROVE  CommandsFit'
  <2> DEFINE m == [cycle[i] EXCEPT !.at = s, !.leftover = TRUE]
  <2>1. m \in Commands /\ m.at = s /\ Kept(m, cycle[i])
    BY <1>2, CommandNow DEF Commands, Kept, Steps, Writing, Ended
  <2>2. cycle' = [cycle EXCEPT ![i] = m]
    BY <1>2, CommandNow DEF CommandsFit, CycleRows
  <2> HIDE DEF m
  <2>3. PICK n \in Commands : n = m
    BY <2>1
  <2>4. OnItsWay(i, n, dogfoodJobs, proSpaces)
    BY <1>1, <2>1, <2>3, CommandNow DEF OnItsWay, Kept, Before, InTry, Reported
  <2>5. HasRead(i, n, dogfoodJobs, files)
    BY <1>1, <2>1, <2>3, CommandNow DEF HasRead, Kept, Ended, OnItsWay, Before
  <2> QED BY <1>1, <2>2, <2>3, <2>4, <2>5, OnlyCommandMoves
<1> QED BY <1>2 DEF Archive

\* collectJobEvidence reads what does not change any more once it is success,
LEMMA ReadEnvelopeKeeps ==
  ASSUME CommandsFit, NEW i \in 1 .. Len(cycle), ReadEnvelope(i) PROVE CommandsFit'
<1>1. UNCHANGED <<dogfoodJobs, files, proSpaces>> /\ cycle[i].at = "envelope"
  BY DEF ReadEnvelope
<1>2. cycle[i].job \in 1 .. Len(dogfoodJobs) /\ cycle[i].job \in DOMAIN dogfoodJobs
  BY <1>1, CommandNow DEF OnItsWay, InTry, CommandsFit, CycleRows
<1>3. PICK job \in Queued : job = dogfoodJobs[cycle[i].job]
  BY <1>2 DEF CommandsFit, CycleRows
<1> DEFINE hasReport == job.status = "succeeded" /\ job.of = 0
<1>10. hasReport \in BOOLEAN
  OBVIOUS
<1>11. PICK named \in BOOLEAN : named = hasReport
  BY <1>10
<1>12. named => job.status = "succeeded" /\ job.of = 0
  BY <1>11
<1> HIDE DEF hasReport
<1> DEFINE reading == [status |-> job.status, trail |-> job.trail, report |-> named]
<1>13. reading.status = job.status /\ reading.report = named
  OBVIOUS
<1>14. reading \in Readings
  BY DEF Readings, Queued
<1> HIDE DEF reading
<1>4. PICK seen \in Readings : seen = reading
  BY <1>14
<1> DEFINE m == [cycle[i] EXCEPT !.at = "evidence", !.tries = 0, !.seen = seen]
<1>5. /\ m \in Commands /\ m.at = "evidence" /\ m.seen = seen /\ m.space = cycle[i].space
      /\ m.mode = cycle[i].mode
      /\ m.job = cycle[i].job /\ m.waits = cycle[i].waits /\ m.leftover = cycle[i].leftover
  BY CommandNow DEF Commands, Steps, Reading
<1>6. cycle' = [cycle EXCEPT ![i] = m]
  BY <1>3, <1>4, <1>11, CommandNow DEF ReadEnvelope, CommandsFit, CycleRows, hasReport, reading
<1> HIDE DEF m
<1>7. PICK n \in Commands : n = m
  BY <1>5
<1>8. OnItsWay(i, n, dogfoodJobs, proSpaces)
  BY <1>1, <1>2, <1>5, <1>7, CommandNow DEF OnItsWay, Before, InTry
<1>9. HasRead(i, n, dogfoodJobs, files)
  <2>1. n.seen.report => Reported(n.job, dogfoodJobs)
    BY <1>2, <1>3, <1>4, <1>5, <1>7, <1>12, <1>13 DEF Reported
  <2>2. n.seen.status = "succeeded" => n.job # 0 /\ dogfoodJobs[n.job].status = "succeeded"
    BY <1>2, <1>3, <1>4, <1>5, <1>7, <1>13
  <2> QED BY <1>1, <1>5, <1>7, <2>1, <2>2, CommandNow DEF HasRead, Ended
<1> QED BY <1>1, <1>6, <1>7, <1>8, <1>9, OnlyCommandMoves

\* and adds lines to it.
LEMMA ReadEvidenceKeeps ==
  ASSUME CommandsFit, NEW i \in 1 .. Len(cycle), ReadEvidence(i) PROVE CommandsFit'
<1>1. UNCHANGED <<dogfoodJobs, files, proSpaces>> /\ cycle[i].at = "evidence"
  BY DEF ReadEvidence
<1>2. cycle[i].job \in 1 .. Len(dogfoodJobs) /\ cycle[i].job \in DOMAIN dogfoodJobs
  BY <1>1, CommandNow DEF OnItsWay, InTry, CommandsFit, CycleRows
<1>10. PICK earlier \in Readings : earlier = cycle[i].seen
  BY CommandNow DEF Commands
<1>11. PICK job \in Queued : job = dogfoodJobs[cycle[i].job]
  BY <1>2 DEF CommandsFit, CycleRows
<1>12. earlier.trail \union job.trail \in SUBSET Lines
  BY DEF Readings, Queued
<1>3. PICK trail \in SUBSET Lines : trail = earlier.trail \union job.trail
  BY <1>12
<1> DEFINE reading == [earlier EXCEPT !.trail = trail]
<1>13. reading \in Readings /\ reading.status = earlier.status /\ reading.report = earlier.report
  BY DEF Readings
<1> HIDE DEF reading
<1>4. PICK seen \in Readings : seen = reading
  BY <1>13
<1> DEFINE m == [cycle[i] EXCEPT !.at = "save", !.tries = 0, !.seen = seen]
<1>5. /\ m \in Commands /\ m.at = "save" /\ m.seen = seen /\ m.space = cycle[i].space
      /\ m.mode = cycle[i].mode
      /\ m.job = cycle[i].job /\ m.waits = cycle[i].waits /\ m.leftover = cycle[i].leftover
  BY CommandNow DEF Commands, Steps
<1>6. cycle' = [cycle EXCEPT ![i] = m]
  BY <1>3, <1>4, <1>10, <1>11, CommandNow DEF ReadEvidence, CommandsFit, CycleRows, reading
<1> HIDE DEF m
<1>7. PICK n \in Commands : n = m
  BY <1>5
<1>8. OnItsWay(i, n, dogfoodJobs, proSpaces)
  BY <1>1, <1>2, <1>5, <1>7, CommandNow DEF OnItsWay, Before, InTry
<1>9. HasRead(i, n, dogfoodJobs, files)
  BY <1>1, <1>2, <1>4, <1>5, <1>7, <1>10, <1>13, CommandNow DEF HasRead, Ended, Reported
<1> QED BY <1>1, <1>6, <1>7, <1>8, <1>9, OnlyCommandMoves

\* or makes one, which its answer may not tell.
LEMMA CreateWorkspaceKeeps ==
  ASSUME CommandsFit, NEW i \in 1 .. Len(cycle), CreateWorkspace(i) PROVE CommandsFit'
<1>1. UNCHANGED <<dogfoodJobs, files>> /\ cycle[i].at = "create" /\ proSpaces' = Append(proSpaces, FALSE)
  BY DEF CreateWorkspace
<1>2. /\ proSpaces \in Seq(BOOLEAN) /\ proSpaces' \in Seq(BOOLEAN) /\ Len(proSpaces') = Len(proSpaces) + 1
      /\ Len(proSpaces) \in Nat
      /\ \A s \in 1 .. Len(proSpaces) : proSpaces'[s] = proSpaces[s]
  BY <1>1 DEF CommandsFit, CycleRows
<1>3. MoreSpaces(proSpaces, proSpaces')
  BY <1>2 DEF MoreSpaces
<1>4. CASE End(i, "broken")
  <2>1. PICK n \in Commands : /\ cycle' = [cycle EXCEPT ![i] = n] /\ n.at = "broken" /\ Kept(n, cycle[i])
                             /\ n.leftover = (cycle[i].leftover /\ cycle[i].at \notin InTry)
    BY <1>4, HasEnded DEF Ended
  <2>2. dogfoodJobs \in Seq(Queued) /\ i \in Nat /\ MoreJobs(i, dogfoodJobs, dogfoodJobs)
    BY DEF CommandsFit, CycleRows, MoreJobs
  <2>3. OnItsWay(i, n, dogfoodJobs, proSpaces') /\ HasRead(i, n, dogfoodJobs, files)
    BY <2>1, <2>2, CommandNow, BrokenFits
  <2> QED BY <1>1, <1>3, <2>1, <2>3, SpacesGrow
<1>5. CASE cycle' = [cycle EXCEPT ![i].at = "upgrade", ![i].tries = 0, ![i].space = Len(proSpaces) + 1]
  <2>1. PICK s \in Nat : s = Len(proSpaces) + 1
    BY <1>2
  <2> DEFINE m == [cycle[i] EXCEPT !.at = "upgrade", !.tries = 0, !.space = s]
  <2>2. /\ m \in Commands /\ m.at = "upgrade" /\ m.space = s /\ m.mode = cycle[i].mode
        /\ m.job = cycle[i].job
        /\ m.waits = cycle[i].waits /\ m.seen = cycle[i].seen /\ m.leftover = cycle[i].leftover
    BY <2>1, CommandNow DEF Commands, Steps, Writing
  <2>3. cycle' = [cycle EXCEPT ![i] = m]
    BY <1>5, <2>1, CommandNow DEF CommandsFit, CycleRows
  <2> HIDE DEF m
  <2>4. PICK n \in Commands : n = m
    BY <2>2
  <2>5. OnItsWay(i, n, dogfoodJobs, proSpaces')
    <3>1. s \in 1 .. Len(proSpaces')
      BY <1>2, <2>1
    <3>2. /\ n.at = "upgrade" /\ n.space = s /\ n.mode = cycle[i].mode /\ n.job = cycle[i].job
          /\ n.seen = cycle[i].seen /\ n.leftover = cycle[i].leftover
      BY <2>2, <2>4
    <3> QED BY <1>1, <3>1, <3>2, CommandNow DEF OnItsWay, Before, InTry
  <2>6. HasRead(i, n, dogfoodJobs, files)
    BY <1>1, <2>2, <2>4, CommandNow DEF HasRead, Ended
  <2> QED BY <1>1, <1>3, <2>3, <2>4, <2>5, <2>6, SpacesGrow
<1> QED BY <1>4, <1>5 DEF CreateWorkspace

\* ensureProWorkspace makes it pro for good.
LEMMA UpgradeKeeps ==
  ASSUME CommandsFit, NEW i \in 1 .. Len(cycle), Upgrade(i) PROVE CommandsFit'
<1>1. /\ UNCHANGED <<dogfoodJobs, files>> /\ cycle[i].at = "upgrade"
      /\ proSpaces' = [proSpaces EXCEPT ![cycle[i].space] = TRUE]
  BY DEF Upgrade
<1>2. cycle[i].space \in 1 .. Len(proSpaces) /\ cycle[i].mode = "analyze"
  BY <1>1, CommandNow DEF OnItsWay
<1>3. MoreSpaces(proSpaces, proSpaces') /\ IsPro(cycle[i].space, proSpaces')
  BY <1>1, <1>2 DEF MoreSpaces, IsPro, CommandsFit, CycleRows
<1>4. CASE End(i, "broken")
  <2>1. PICK n \in Commands : /\ cycle' = [cycle EXCEPT ![i] = n] /\ n.at = "broken" /\ Kept(n, cycle[i])
                             /\ n.leftover = (cycle[i].leftover /\ cycle[i].at \notin InTry)
    BY <1>4, HasEnded DEF Ended
  <2>2. dogfoodJobs \in Seq(Queued) /\ i \in Nat /\ MoreJobs(i, dogfoodJobs, dogfoodJobs)
    BY DEF CommandsFit, CycleRows, MoreJobs
  <2>3. OnItsWay(i, n, dogfoodJobs, proSpaces') /\ HasRead(i, n, dogfoodJobs, files)
    BY <2>1, <2>2, CommandNow, BrokenFits
  <2> QED BY <1>1, <1>3, <2>1, <2>3, SpacesGrow
<1>5. CASE Go(i, "access")
  <2>1. PICK n \in Commands : /\ cycle' = [cycle EXCEPT ![i] = n] /\ n.at = "access" /\ Kept(n, cycle[i])
                             /\ n.leftover = cycle[i].leftover
    BY <1>5, WentOn DEF Steps, Reading
  <2>2. OnItsWay(i, n, dogfoodJobs, proSpaces')
    BY <1>1, <1>2, <1>3, <2>1, CommandNow DEF OnItsWay, Kept, Before, InTry
  <2>3. HasRead(i, n, dogfoodJobs, files)
    BY <1>1, <2>1, CommandNow DEF HasRead, Kept, Ended
  <2> QED BY <1>1, <1>3, <2>1, <2>2, <2>3, SpacesGrow
<1> QED BY <1>1, <1>4, <1>5 DEF Upgrade, AnsweredOrLost, Repeats, Reading

\* An upload leaves no trace here.
LEMMA UploadKeeps ==
  ASSUME CommandsFit, NEW i \in 1 .. Len(cycle), Upload(i) PROVE CommandsFit'
<1>1. UNCHANGED <<dogfoodJobs, files, proSpaces>> /\ cycle[i].at = "upload"
  BY DEF Upload
<1>2. CASE End(i, "broken")
  BY <1>1, <1>2, BrokenKeeps
<1>3. CASE Go(i, "queue")
  <2>1. PICK n \in Commands : /\ cycle' = [cycle EXCEPT ![i] = n] /\ n.at = "queue" /\ Kept(n, cycle[i])
                             /\ n.leftover = cycle[i].leftover
    BY <1>3, WentOn DEF Steps, Writing
  <2>2. OnItsWay(i, n, dogfoodJobs, proSpaces)
    BY <1>1, <2>1, CommandNow DEF OnItsWay, Kept, Before, InTry
  <2>3. HasRead(i, n, dogfoodJobs, files)
    BY <1>1, <2>1, CommandNow DEF HasRead, Kept, Ended
  <2> QED BY <1>1, <2>1, <2>2, <2>3, OnlyCommandMoves
<1> QED BY <1>1, <1>2, <1>3 DEF Upload, AnsweredOrLost, Repeats, Reading

\* summary.json says what was read of the job.
LEMMA SaveKeeps ==
  ASSUME CommandsFit, NEW i \in 1 .. Len(cycle), Save(i) PROVE CommandsFit'
<1>1. /\ UNCHANGED <<dogfoodJobs, proSpaces>> /\ cycle[i].at = "save"
      /\ files' = [files EXCEPT ![cycle[i].job] = [by |-> i, mode |-> cycle[i].mode,
                     status |-> cycle[i].seen.status, report |-> cycle[i].seen.report]]
  BY DEF Save
<1>2. PICK c \in Commands : c = cycle[i] /\ c.seen \in Readings /\ c.mode \in Modes
  BY CommandNow DEF Commands
<1>3. c.job \in 1 .. Len(files) /\ Len(files) = Len(dogfoodJobs) /\ files \in Seq(SummaryRows)
  BY <1>1, <1>2, CommandNow DEF OnItsWay, InTry, CommandsFit, CycleRows
<1> DEFINE answer == [by |-> i, mode |-> c.mode, status |-> c.seen.status, report |-> c.seen.report]
<1>4. answer \in SummaryRows /\ answer.by = i /\ answer.status = c.seen.status /\ answer.report = c.seen.report
  BY <1>2 DEF SummaryRows, Readings
<1>5. files' = [files EXCEPT ![c.job] = answer]
  BY <1>1, <1>2
<1> HIDE DEF answer
<1>6. /\ files' \in Seq(SummaryRows) /\ Len(files') = Len(files) /\ files'[c.job] = answer
      /\ \A j \in 1 .. Len(files) : j # c.job => files'[j] = files[j]
  BY <1>3, <1>4, <1>5
<1>7. MoreFiles(i, files, files') /\ MoreJobs(i, dogfoodJobs, dogfoodJobs')
                                  /\ MoreSpaces(proSpaces, proSpaces')
  BY <1>1, <1>3, <1>4, <1>6 DEF MoreFiles, MoreJobs, MoreSpaces, CommandsFit, CycleRows
<1>8. PICK s \in {"judge", "ok"}, n \in Commands :
        /\ cycle' = [cycle EXCEPT ![i] = n] /\ n.at = s /\ Kept(n, c)
        /\ n.leftover => s = "judge" /\ c.leftover
        /\ s = "ok" => ~ n.waits
  <2>1. CASE c.waits \/ c.mode = "collect"
    <3>1. Go(i, "judge")
      BY <1>2, <2>1 DEF Save
    <3> QED BY <1>2, <3>1, WentOn DEF Steps
  <2>2. CASE ~ (c.waits \/ c.mode = "collect")
    <3>1. End(i, "ok")
      BY <1>2, <2>2 DEF Save
    <3>2. PICK n \in Commands : /\ cycle' = [cycle EXCEPT ![i] = n] /\ n.at = "ok" /\ Kept(n, cycle[i])
                               /\ n.leftover = (cycle[i].leftover /\ cycle[i].at \notin InTry)
      BY <3>1, HasEnded DEF Ended
    <3>3. ~ n.leftover
      BY <1>1, <3>2 DEF InTry
    <3> QED BY <1>2, <2>2, <3>2, <3>3 DEF Kept
  <2> QED BY <2>1, <2>2
<1>9. /\ cycle' \in Seq(Commands) /\ Len(cycle') = Len(cycle) /\ cycle'[i] = n
      /\ \A k \in 1 .. Len(cycle) : k # i => cycle'[k] = cycle[k]
  <2>1. cycle \in Seq(Commands)
    BY DEF CommandsFit, CycleRows
  <2> QED BY <1>8, <2>1, CommandReplaced
<1>10. OnItsWay(i, n, dogfoodJobs, proSpaces)
  <2>1. /\ n.at \in {"judge", "ok"} /\ n.job = c.job
        /\ n.leftover => n.at = "judge" /\ n.mode = "analyze"
    <3>1. c.leftover => c.mode = "analyze"
      BY <1>2, CommandNow DEF OnItsWay
    <3> QED BY <1>8, <3>1 DEF Kept
  <2>2. c.job \in 0 .. Len(dogfoodJobs) /\ c.job # 0
    BY <1>2, <1>3
  <2> QED BY <2>1, <2>2 DEF OnItsWay, Before, InTry
<1>11. HasRead(i, n, dogfoodJobs, files')
  <2>1. /\ n.at \in {"judge", "ok"} /\ n.job = c.job /\ n.seen = c.seen
        /\ n.at = "ok" => ~ n.waits
    BY <1>8 DEF Kept
  <2>2. HasRead(i, c, dogfoodJobs, files)
    BY <1>2, CommandNow
  <2>3. files'[n.job].status = n.seen.status
    BY <1>4, <1>6, <2>1
  <2> QED BY <2>1, <2>2, <2>3 DEF HasRead, Ended
<1>12. JobsFit'
  BY <1>1, <1>2, <1>3, <1>4, <1>6, <1>9, CommandNow DEF JobsFit, CommandsFit, HasRead, Reported
<1> QED BY <1>1, <1>3, <1>6, <1>7, <1>9, <1>10, <1>11, <1>12, OneCommandMoves DEF CommandFits

\* The one request that queues a job: it is not sent again.
LEMMA QueueKeeps ==
  ASSUME CommandsFit, NEW i \in 1 .. Len(cycle), Queue(i) PROVE CommandsFit'
<1>1. PICK c \in Commands : c = cycle[i] /\ c.at = "queue" /\ c.job \in Nat /\ c.space \in Nat
  BY CommandNow DEF Queue, Commands
<1>2. PICK new \in Nat : new = Len(dogfoodJobs) + 1
  BY DEF CommandsFit, CycleRows
<1> DEFINE job == [by |-> i, of |-> c.job, space |-> c.space, status |-> "queued", trail |-> {}]
<1>3. job \in Queued /\ job.by = i /\ job.of = c.job /\ job.space = c.space
  BY <1>1 DEF Queued, Statuses
<1>4. UNCHANGED proSpaces /\ dogfoodJobs' = Append(dogfoodJobs, job) /\ files' = Append(files, NoFile)
  BY <1>1 DEF Queue
<1> HIDE DEF job
<1>5. NoFile \in SummaryRows /\ NoFile.by = 0 /\ ~ NoFile.report
  BY DEF NoFile, SummaryRows, Statuses
<1>6. /\ dogfoodJobs \in Seq(Queued) /\ files \in Seq(SummaryRows) /\ proSpaces \in Seq(BOOLEAN)
      /\ Len(files) = Len(dogfoodJobs) /\ Len(dogfoodJobs) \in Nat
  BY DEF CommandsFit, CycleRows
<1>7. /\ dogfoodJobs' \in Seq(Queued) /\ Len(dogfoodJobs') = new /\ dogfoodJobs'[new] = job
      /\ \A j \in 1 .. Len(dogfoodJobs) : dogfoodJobs'[j] = dogfoodJobs[j]
  BY <1>2, <1>3, <1>4, <1>6
<1>8. /\ files' \in Seq(SummaryRows) /\ Len(files') = new /\ files'[new] = NoFile
      /\ \A j \in 1 .. Len(files) : files'[j] = files[j]
  BY <1>2, <1>4, <1>5, <1>6
<1>9. MoreJobs(i, dogfoodJobs, dogfoodJobs') /\ MoreFiles(i, files, files')
                                             /\ MoreSpaces(proSpaces, proSpaces')
  BY <1>2, <1>3, <1>4, <1>5, <1>6, <1>7, <1>8 DEF MoreJobs, MoreFiles, MoreSpaces
<1>10. OnItsWay(i, c, dogfoodJobs, proSpaces) /\ HasRead(i, c, dogfoodJobs, files)
  BY <1>1, CommandNow
<1>11. PICK n \in Commands : /\ cycle' = [cycle EXCEPT ![i] = n]
                            /\ OnItsWay(i, n, dogfoodJobs', proSpaces')
                            /\ HasRead(i, n, dogfoodJobs', files')
  <2>1. CASE End(i, "broken")
    <3>1. PICK n \in Commands : /\ cycle' = [cycle EXCEPT ![i] = n] /\ n.at = "broken" /\ Kept(n, c)
                               /\ n.leftover = (c.leftover /\ c.at \notin InTry)
      BY <1>1, <2>1, HasEnded DEF Ended
    <3>2. i \in Nat /\ i # 0
      OBVIOUS
    <3>4. \A j \in 1 .. Len(files') : files'[j].by = i => j \in 1 .. Len(files) /\ files[j].by = i
      BY <1>2, <1>5, <1>6, <1>8, <3>2
    <3>3. OnItsWay(i, n, dogfoodJobs', proSpaces') /\ HasRead(i, n, dogfoodJobs', files')
      BY <1>6, <1>9, <1>10, <3>1, <3>2, <3>4, BrokenFits
    <3> QED BY <3>1, <3>3
  <2>2. ASSUME cycle' = [cycle EXCEPT ![i].at = "directory", ![i].tries = 0, ![i].job = new]
        PROVE  \E n \in Commands : /\ cycle' = [cycle EXCEPT ![i] = n]
                                   /\ OnItsWay(i, n, dogfoodJobs', proSpaces')
                                   /\ HasRead(i, n, dogfoodJobs', files')
    <3> DEFINE m == [c EXCEPT !.at = "directory", !.tries = 0, !.job = new]
    <3>1. /\ m \in Commands /\ m.at = "directory" /\ m.job = new /\ m.seen = c.seen /\ m.mode = c.mode
          /\ m.leftover = c.leftover
      <4>1. "directory" \in Steps
        BY DEF Steps
      <4> QED BY <4>1 DEF Commands
    <3>2. cycle' = [cycle EXCEPT ![i] = m]
      BY <1>1, <2>2 DEF CommandsFit, CycleRows
    <3> HIDE DEF m
    <3>3. PICK n \in Commands : n = m
      BY <3>1
    <3>4. /\ n.at = "directory" /\ n.job = new /\ n.seen = c.seen /\ n.mode = c.mode
          /\ n.leftover = c.leftover
      BY <3>1, <3>3
    <3>9. c.seen = Unread /\ (c.leftover => c.mode = "analyze")
      BY <1>1, <1>10 DEF OnItsWay, Before
    <3>5. OnItsWay(i, n, dogfoodJobs', proSpaces')
      BY <1>2, <1>6, <1>7, <3>4, <3>9 DEF OnItsWay, Before, InTry
    <3>6. ~ n.seen.report /\ n.seen.status = "none" /\ n.at \notin Ended \union {"judge", "ok"}
      BY <1>1, <1>10, <3>4 DEF OnItsWay, Before, Ended
    <3>7. \A j \in 1 .. Len(files') : files'[j].by # i
      <4>1. \A j \in 1 .. Len(files) : files[j].by # i
        BY <1>1, <1>10 DEF HasRead, Ended
      <4> QED BY <1>2, <1>5, <1>6, <1>8, <4>1
    <3>8. HasRead(i, n, dogfoodJobs', files')
      BY <3>6, <3>7 DEF HasRead
    <3> QED BY <3>2, <3>3, <3>5, <3>8
  <2>3. \/ End(i, "broken")
        \/ cycle' = [cycle EXCEPT ![i].at = "directory", ![i].tries = 0, ![i].job = new]
    BY <1>1, <1>2 DEF Queue, Repeats, Reading
  <2> QED BY <2>1, <2>2, <2>3
<1>12. /\ cycle' \in Seq(Commands) /\ Len(cycle') = Len(cycle) /\ cycle'[i] = n
       /\ \A k \in 1 .. Len(cycle) : k # i => cycle'[k] = cycle[k]
  <2>1. cycle \in Seq(Commands)
    BY DEF CommandsFit, CycleRows
  <2> QED BY <1>11, <2>1, CommandReplaced
<1>13. CommandFits(i)'
  BY <1>11, <1>12 DEF CommandFits
<1>14. JobsFit'
  <2>1. \A j \in 1 .. Len(dogfoodJobs) : dogfoodJobs[j].by # i
    BY <1>1, <1>10 DEF OnItsWay, Before
  <2>2. \/ c.job = 0 /\ IsPro(c.space, proSpaces)
        \/ c.job # 0 /\ Reported(c.job, dogfoodJobs) /\ c.job \in 1 .. Len(dogfoodJobs)
    BY <1>1, <1>6, <1>10 DEF OnItsWay, Before, Commands, Modes
  <2>3. \A k \in 1 .. Len(dogfoodJobs) : Reported(k, dogfoodJobs) => Reported(k, dogfoodJobs')
    BY <1>7 DEF Reported
  <2>5. \A j \in 1 .. Len(dogfoodJobs') : (j \in 1 .. Len(dogfoodJobs) /\ j # new) \/ j = new
    BY <1>2, <1>6, <1>7
  <2>4. ASSUME NEW j \in 1 .. Len(dogfoodJobs)
        PROVE  /\ dogfoodJobs'[j] = dogfoodJobs[j] /\ files'[j] = files[j] /\ j \in 1 .. Len(dogfoodJobs')
               /\ dogfoodJobs[j].by \in 1 .. Len(cycle) /\ files[j].by \in 0 .. Len(cycle)
               /\ \A k \in 1 .. Len(dogfoodJobs) : dogfoodJobs[j].by = dogfoodJobs[k].by => j = k
               /\ IF dogfoodJobs[j].of = 0 THEN IsPro(dogfoodJobs[j].space, proSpaces)
                  ELSE dogfoodJobs[j].of \in 1 .. Len(dogfoodJobs)
                                                                   /\ Reported(dogfoodJobs[j].of, dogfoodJobs)
               /\ files[j].report => Reported(j, dogfoodJobs)
    BY <1>2, <1>6, <1>7, <1>8 DEF CommandsFit, JobsFit
  <2>6. ASSUME NEW j \in 1 .. Len(dogfoodJobs')
        PROVE  /\ dogfoodJobs'[j].by \in 1 .. Len(cycle) /\ files'[j].by \in 0 .. Len(cycle)
               /\ \A k \in 1 .. Len(dogfoodJobs') : dogfoodJobs'[j].by = dogfoodJobs'[k].by => j = k
    <3>1. i \in 1 .. Len(cycle) /\ 0 \in 0 .. Len(cycle)
      BY DEF CommandsFit, CycleRows
    <3>2. dogfoodJobs'[j].by \in 1 .. Len(cycle) /\ files'[j].by \in 0 .. Len(cycle)
      BY <1>3, <1>5, <1>7, <1>8, <2>4, <2>5, <3>1
    <3>3. ASSUME NEW k \in 1 .. Len(dogfoodJobs'), dogfoodJobs'[j].by = dogfoodJobs'[k].by
          PROVE  j = k
      <4>1. CASE j = new
        BY <1>3, <1>7, <2>1, <2>4, <2>5, <3>3, <4>1
      <4>2. CASE j # new
        BY <1>3, <1>7, <2>1, <2>4, <2>5, <3>3, <4>2
      <4> QED BY <4>1, <4>2
    <3> QED BY <3>2, <3>3
  <2>7. ASSUME NEW j \in 1 .. Len(dogfoodJobs')
        PROVE  IF dogfoodJobs'[j].of = 0 THEN IsPro(dogfoodJobs'[j].space, proSpaces)
               ELSE dogfoodJobs'[j].of \in 1 .. Len(dogfoodJobs')
                                                                  /\ Reported(dogfoodJobs'[j].of, dogfoodJobs')
    BY <1>2, <1>3, <1>6, <1>7, <2>2, <2>3, <2>4, <2>5
  <2>8. ASSUME NEW j \in 1 .. Len(dogfoodJobs')
        PROVE  files'[j].report => Reported(j, dogfoodJobs')
    BY <1>5, <1>8, <2>3, <2>4, <2>5
  <2> QED BY <1>4, <1>12, <2>6, <2>7, <2>8 DEF JobsFit
<1> QED BY <1>4, <1>7, <1>8, <1>9, <1>12, <1>13, <1>14, OneCommandMoves

\* A new command has no job and no summary.
LEMMA StartCycleKeeps ==
  ASSUME CommandsFit, NEW mode \in Modes, NEW job \in 0 .. Len(dogfoodJobs), NEW waits \in BOOLEAN,
         StartCycle(mode, job, waits)
  PROVE  CommandsFit'
<1>1. /\ UNCHANGED <<dogfoodJobs, files, proSpaces>> /\ (mode = "analyze" <=> job = 0)
      /\ cycle' = Append(cycle, [mode |-> mode, at |-> "prepare", tries |-> 0, job |-> job,
                            space |-> 0, waits |-> waits, seen |-> Unread, leftover |-> FALSE])
  BY DEF StartCycle
<1>2. /\ dogfoodJobs \in Seq(Queued) /\ files \in Seq(SummaryRows) /\ proSpaces \in Seq(BOOLEAN)
      /\ Len(files) = Len(dogfoodJobs) /\ Len(dogfoodJobs) \in Nat /\ cycle \in Seq(Commands)
      /\ Len(cycle) \in Nat
  BY DEF CommandsFit, CycleRows
<1>3. PICK new \in Nat : new = Len(cycle) + 1
  BY <1>2
<1>4. Unread \in Readings /\ Unread.status = "none" /\ ~ Unread.report
  BY DEF Unread, Readings, Statuses
<1> DEFINE m == [mode |-> mode, at |-> "prepare", tries |-> 0, job |-> job,
                 space |-> 0, waits |-> waits, seen |-> Unread, leftover |-> FALSE]
<1>5. m \in Commands /\ m.mode = mode /\ m.at = "prepare" /\ m.job = job /\ m.seen = Unread /\ ~ m.leftover
  <2> HIDE DEF Unread
  <2>1. job \in Nat /\ "prepare" \in Steps
    BY <1>2 DEF Steps
  <2> QED BY <1>4, <2>1 DEF Commands
<1>6. cycle' = Append(cycle, m)
  BY <1>1
<1> HIDE DEF m
<1>7. /\ cycle' \in Seq(Commands) /\ Len(cycle') = new /\ cycle'[new] = m
      /\ \A k \in 1 .. Len(cycle) : cycle'[k] = cycle[k]
  BY <1>2, <1>3, <1>5, <1>6
<1>8. JobsFit'
  <2>1. \A k : (k \in 1 .. Len(cycle) => k \in 1 .. new) /\ (k \in 0 .. Len(cycle) => k \in 0 .. new)
    BY <1>2, <1>3
  <2> QED BY <1>1, <1>7, <2>1 DEF JobsFit, CommandsFit
<1>9. \A j \in 1 .. Len(dogfoodJobs) : dogfoodJobs[j].by # new /\ files[j].by # new
  BY <1>2, <1>3 DEF JobsFit, CommandsFit
<1>10. OnItsWay(new, m, dogfoodJobs, proSpaces)
  BY <1>1, <1>4, <1>5, <1>9 DEF OnItsWay, Before, InTry
<1>11. HasRead(new, m, dogfoodJobs, files)
  BY <1>2, <1>4, <1>5, <1>9 DEF HasRead, Ended
<1>12. ASSUME NEW k \in 1 .. Len(cycle')
       PROVE  CommandFits(k)'
  <2>1. CASE k = new
    BY <1>1, <1>7, <1>10, <1>11, <2>1 DEF CommandFits
  <2>2. CASE k # new
    <3>1. k \in 1 .. Len(cycle)
      BY <1>2, <1>3, <1>7, <2>2
    <3> QED BY <1>1, <1>7, <3>1 DEF CommandFits, CommandsFit
  <2> QED BY <2>1, <2>2
<1>13. CycleRows'
  BY <1>1, <1>2, <1>7 DEF CycleRows
<1> QED BY <1>8, <1>12, <1>13 DEF CommandsFit

\* A job that has succeeded stays so.
LEMMA ProductStepKeeps ==
  ASSUME CommandsFit, NEW j \in 1 .. Len(dogfoodJobs), ProductStep(j) PROVE CommandsFit'
<1>1. PICK next \in Statuses, lines \in SUBSET Lines :
        /\ dogfoodJobs[j].status \notin Final
        /\ dogfoodJobs' = [dogfoodJobs EXCEPT ![j].status = next, ![j].trail = @ \union lines]
  <2>1. \E next \in Statuses, lines \in SUBSET Lines : dogfoodJobs[j].status \notin Final
                                                                                          /\ Run(j, next, lines)
    BY Zenon DEF ProductStep, Statuses, Lines, Final
  <2> QED BY <2>1 DEF Run
<1>2. UNCHANGED <<cycle, files, proSpaces>>
  BY DEF ProductStep, Run
<1>3. /\ dogfoodJobs \in Seq(Queued) /\ Len(dogfoodJobs) \in Nat /\ Len(files) = Len(dogfoodJobs)
      /\ files \in Seq(SummaryRows) /\ proSpaces \in Seq(BOOLEAN) /\ cycle \in Seq(Commands)
  BY DEF CommandsFit, CycleRows
<1>4. PICK job \in Queued : job = dogfoodJobs[j]
  BY <1>3
<1>5. PICK trail \in SUBSET Lines : trail = job.trail \union lines
  BY <1>4 DEF Queued
<1> DEFINE moved == [job EXCEPT !.status = next, !.trail = trail]
<1>6. moved \in Queued /\ moved.by = job.by /\ moved.of = job.of /\ moved.space = job.space
  BY DEF Queued
<1>7. dogfoodJobs' = [dogfoodJobs EXCEPT ![j] = moved]
  BY <1>1, <1>3, <1>4, <1>5
<1> HIDE DEF moved
<1>8. /\ dogfoodJobs' \in Seq(Queued) /\ Len(dogfoodJobs') = Len(dogfoodJobs) /\ dogfoodJobs'[j] = moved
      /\ \A k \in 1 .. Len(dogfoodJobs) : k # j => dogfoodJobs'[k] = dogfoodJobs[k]
  BY <1>3, <1>6, <1>7
<1>9. /\ MoreJobs(0, dogfoodJobs, dogfoodJobs') /\ MoreFiles(0, files, files)
      /\ MoreSpaces(proSpaces, proSpaces)
  BY <1>1, <1>3, <1>4, <1>6, <1>8 DEF MoreJobs, MoreFiles, MoreSpaces, Final
<1>10. ASSUME NEW k \in 1 .. Len(cycle')
       PROVE  CommandFits(k)'
  <2>1. k \in 1 .. Len(cycle) /\ k \in Nat /\ k # 0
    BY <1>2, <1>3
  <2>2. /\ cycle[k] \in Commands /\ OnItsWay(k, cycle[k], dogfoodJobs, proSpaces)
        /\ HasRead(k, cycle[k], dogfoodJobs, files)
    BY <2>1, CommandNow
  <2>3. 0 \in Nat
    OBVIOUS
  <2>4. OnItsWay(k, cycle[k], dogfoodJobs', proSpaces) /\ HasRead(k, cycle[k], dogfoodJobs', files)
    BY <1>3, <1>9, <2>1, <2>2, <2>3, OthersUndisturbed
  <2> QED BY <1>2, <2>4 DEF CommandFits
<1>11. CycleRows'
  BY <1>2, <1>3, <1>8 DEF CycleRows
<1>12. JobsFit'
  <2>1. \A k \in 1 .. Len(dogfoodJobs) : Reported(k, dogfoodJobs) => Reported(k, dogfoodJobs')
    BY <1>9 DEF MoreJobs, Reported
  <2>2. \A k \in 1 .. Len(dogfoodJobs) :
          /\ dogfoodJobs'[k].by = dogfoodJobs[k].by /\ dogfoodJobs'[k].of = dogfoodJobs[k].of
          /\ dogfoodJobs'[k].space = dogfoodJobs[k].space
    BY <1>9 DEF MoreJobs
  <2> QED BY <1>2, <1>8, <2>1, <2>2 DEF JobsFit, CommandsFit
<1> QED BY <1>10, <1>11, <1>12 DEF CommandsFit

\* Every step of the loop or the product keeps the invariant.
LEMMA NextCommandsFit == CommandsFit /\ [CyclesNext]_cycleVars => CommandsFit'
<1> SUFFICES ASSUME CommandsFit, [CyclesNext]_cycleVars PROVE CommandsFit'
  OBVIOUS
<1>1. CASE UNCHANGED cycleVars
  BY <1>1 DEF cycleVars, CommandsFit, CycleRows, JobsFit, CommandFits
<1>2. CASE \E mode \in Modes, job \in 0 .. Len(dogfoodJobs), waits \in BOOLEAN : StartCycle(mode, job,
   waits)
  BY <1>2, StartCycleKeeps
<1>3. DOMAIN cycle = 1 .. Len(cycle) /\ DOMAIN dogfoodJobs = 1 .. Len(dogfoodJobs)
  BY DEF CommandsFit, CycleRows
<1>4. ASSUME NEW i \in 1 .. Len(cycle),
             \/ LoseRequest(i) \/ Prepare(i) \/ FindWorkspace(i) \/ CreateWorkspace(i) \/ Upgrade(i)
             \/ CheckAccess(i) \/ Archive(i) \/ Upload(i) \/ Queue(i) \/ MakeDirectory(i) \/ DiskFails(i)
             \/ PollEnded(i) \/ TimeOut(i) \/ ReadEnvelope(i) \/ ReadEvidence(i) \/ Save(i) \/ JudgeCycle(i)
      PROVE  CommandsFit'
  BY <1>4, LoseRequestKeeps, PrepareKeeps, FindWorkspaceKeeps, CreateWorkspaceKeeps, UpgradeKeeps,
     CheckAccessKeeps, ArchiveKeeps, UploadKeeps, QueueKeeps, MakeDirectoryKeeps, DiskFailsKeeps, PollEndedKeeps, TimeOutKeeps,
     ReadEnvelopeKeeps, ReadEvidenceKeeps, SaveKeeps, JudgeCycleKeeps, Zenon
<1>5. CASE \E j \in DOMAIN dogfoodJobs : ProductStep(j)
  BY <1>3, <1>5, ProductStepKeeps
<1> QED BY <1>1, <1>2, <1>3, <1>4, <1>5, Zenon DEF CyclesNext

\* Commands, jobs and summaries keep their inductive invariant, for every number of
\* commands, of lost requests and of repetitions.
THEOREM CommandsFitAlways == CyclesSpec => []CommandsFit
<1>1. CyclesInit => CommandsFit
  BY DEF CyclesInit, CommandsFit, CycleRows, JobsFit
<1> QED BY <1>1, NextCommandsFit, PTL DEF CyclesSpec

\* CycleTellsItsJob: only a GET is sent again, so a command queues one job; it reports what
\* it has read of a job that had ended; and its finally removes the snapshot, unless the try
\* was not entered.
THEOREM CommandsTellTheirJobs == CyclesSpec => []CycleTellsItsJob
<1>1. ASSUME CommandsFit PROVE CycleTellsItsJob
  <2>1. /\ DOMAIN cycle = 1 .. Len(cycle) /\ DOMAIN dogfoodJobs = 1 .. Len(dogfoodJobs)
        /\ Len(dogfoodJobs) \in Nat
    BY <1>1 DEF CommandsFit, CycleRows
  <2>2. ASSUME NEW i \in 1 .. Len(cycle)
        PROVE  Cardinality(JobsOf(i)) <= 1
    <3>1. CASE JobsOf(i) = {}
      BY <3>1, FS_EmptySet
    <3>2. CASE JobsOf(i) # {}
      <4>1. PICK j \in JobsOf(i) : TRUE
        BY <3>2
      <4>2. JobsOf(i) = {j}
        BY <1>1, <2>1, <4>1 DEF JobsOf, CommandsFit, JobsFit
      <4>3. Cardinality({j}) = 1
        BY FS_Singleton, Zenon
      <4> QED BY <4>2, <4>3
    <3> QED BY <3>1, <3>2
  <2>3. ASSUME NEW i \in 1 .. Len(cycle), cycle[i].at = "ok", cycle[i].waits
        PROVE  /\ dogfoodJobs[cycle[i].job].status = "succeeded"
               /\ files[cycle[i].job].by = i => files[cycle[i].job].status = "succeeded"
    BY <1>1, <2>3, CommandNow DEF HasRead
  <2>4. ASSUME NEW i \in 1 .. Len(cycle), cycle[i].at \in Ended, cycle[i].leftover
        PROVE  /\ cycle[i].at = "broken" /\ cycle[i].mode = "analyze" /\ cycle[i].seen = Unread
               /\ \A j \in DOMAIN files : files[j].by # i
    <3>1. /\ cycle[i].at = "broken" /\ cycle[i].mode = "analyze" /\ cycle[i].seen = Unread
      BY <1>1, <2>4, CommandNow DEF OnItsWay, Ended, InTry
    <3>2. \A j \in 1 .. Len(files) : files[j].by # i
      BY <1>1, <2>4, <3>1, CommandNow DEF HasRead
    <3>3. DOMAIN files = 1 .. Len(files)
      BY <1>1 DEF CommandsFit, CycleRows
    <3> QED BY <3>1, <3>2, <3>3
  <2>5. ASSUME NEW j \in 1 .. Len(dogfoodJobs)
        PROVE  IF dogfoodJobs[j].of = 0 THEN proSpaces[dogfoodJobs[j].space]
               ELSE /\ dogfoodJobs[dogfoodJobs[j].of].of = 0
                    /\ dogfoodJobs[dogfoodJobs[j].of].status = "succeeded"
    BY <1>1 DEF CommandsFit, JobsFit, IsPro, Reported
  <2> QED BY <2>1, <2>2, <2>3, <2>4, <2>5 DEF CycleTellsItsJob
<1> QED BY <1>1, CommandsFitAlways, PTL

\* No request of a command is tried too often.
CycleRest ==
  /\ \A i \in 1 .. Len(cycle) : cycle[i].tries \in 0 .. GetRetries + 1
  /\ \A j \in 1 .. Len(dogfoodJobs) : dogfoodJobs[j].status # "none"
  /\ losses \in 0 .. MaxLosses

\* Command i is the only one that moves, and what it does with its tries.
OnlyOneMoves(i) ==
  /\ Len(cycle') = Len(cycle)
  /\ \A k \in 1 .. Len(cycle) : k # i => cycle'[k] = cycle[k]
\* A request may be tried again.
MayTryAgain(i) == cycle[i].tries < GetRetries \/ cycle[i].tries = 0
\* A command goes on, or tries once more where it may.
Tries(i) ==
  /\ OnlyOneMoves(i)
  /\ \/ cycle'[i].tries \in {0, cycle[i].tries}
     \/ MayTryAgain(i) /\ cycle'[i].tries = cycle[i].tries + 1

\* The ways in which a command's row changes.
LEMMA RowsOfTries ==
  ASSUME CommandsFit, NEW i \in 1 .. Len(cycle)
  PROVE  /\ \A s : Go(i, s) \/ End(i, s) => Tries(i)
         /\ \A s, l : cycle' = [cycle EXCEPT ![i].at = s, ![i].leftover = l] => Tries(i)
         /\ \A s, w : cycle' = [cycle EXCEPT ![i].at = s, ![i].tries = 0, ![i].space = w] => Tries(i)
         /\ \A s, j : cycle' = [cycle EXCEPT ![i].at = s, ![i].tries = 0, ![i].job = j] => Tries(i)
         /\ \A s, x : cycle' = [cycle EXCEPT ![i].at = s, ![i].tries = 0, ![i].seen = x] => Tries(i)
         /\ cycle' = [cycle EXCEPT ![i].tries = @ + 1] /\ MayTryAgain(i) => Tries(i)
<1>1. cycle \in Seq(Commands)
  BY DEF CommandsFit, CycleRows
<1>2. PICK c \in Commands : c = cycle[i]
  BY <1>1
<1>3. ASSUME NEW n, cycle' = [cycle EXCEPT ![i] = n], n.tries = 0 \/ n.tries = c.tries
      PROVE  Tries(i)
  BY <1>1, <1>2, <1>3 DEF Tries, OnlyOneMoves
<1>4. ASSUME NEW s, NEW l, cycle' = [cycle EXCEPT ![i].at = s, ![i].leftover = l] PROVE Tries(i)
  <2> DEFINE n == [c EXCEPT !.at = s, !.leftover = l]
  <2>1. cycle' = [cycle EXCEPT ![i] = n]
    BY <1>1, <1>2, <1>4
  <2>2. n.tries = c.tries
    BY DEF Commands
  <2> HIDE DEF n
  <2> QED BY <1>3, <2>1, <2>2
<1>5. ASSUME NEW s, Go(i, s) PROVE Tries(i)
  <2> DEFINE n == [c EXCEPT !.at = s, !.tries = 0]
  <2>1. cycle' = [cycle EXCEPT ![i] = n]
    BY <1>1, <1>2, <1>5 DEF Go
  <2>2. n.tries = 0
    BY DEF Commands
  <2> HIDE DEF n
  <2> QED BY <1>3, <2>1, <2>2
<1>6. ASSUME NEW s, NEW w, cycle' = [cycle EXCEPT ![i].at = s, ![i].tries = 0, ![i].space = w] PROVE Tries(i)
  <2> DEFINE n == [c EXCEPT !.at = s, !.tries = 0, !.space = w]
  <2>1. cycle' = [cycle EXCEPT ![i] = n]
    BY <1>1, <1>2, <1>6
  <2>2. n.tries = 0
    BY DEF Commands
  <2> HIDE DEF n
  <2> QED BY <1>3, <2>1, <2>2
<1>7. ASSUME NEW s, NEW j, cycle' = [cycle EXCEPT ![i].at = s, ![i].tries = 0, ![i].job = j] PROVE Tries(i)
  <2> DEFINE n == [c EXCEPT !.at = s, !.tries = 0, !.job = j]
  <2>1. cycle' = [cycle EXCEPT ![i] = n]
    BY <1>1, <1>2, <1>7
  <2>2. n.tries = 0
    BY DEF Commands
  <2> HIDE DEF n
  <2> QED BY <1>3, <2>1, <2>2
<1>8. ASSUME NEW s, NEW x, cycle' = [cycle EXCEPT ![i].at = s, ![i].tries = 0, ![i].seen = x] PROVE Tries(i)
  <2> DEFINE n == [c EXCEPT !.at = s, !.tries = 0, !.seen = x]
  <2>1. cycle' = [cycle EXCEPT ![i] = n]
    BY <1>1, <1>2, <1>8
  <2>2. n.tries = 0
    BY DEF Commands
  <2> HIDE DEF n
  <2> QED BY <1>3, <2>1, <2>2
<1>9. ASSUME cycle' = [cycle EXCEPT ![i].tries = @ + 1], MayTryAgain(i) PROVE Tries(i)
  <2> DEFINE n == [c EXCEPT !.tries = c.tries + 1]
  <2>1. cycle' = [cycle EXCEPT ![i] = n]
    BY <1>1, <1>2, <1>9
  <2>2. n.tries = c.tries + 1
    BY DEF Commands
  <2> HIDE DEF n
  <2> QED BY <1>1, <1>2, <1>9, <2>1, <2>2 DEF Tries, OnlyOneMoves
<1>10. \A s : End(i, s) => Tries(i)
  BY <1>4 DEF End
<1> QED BY <1>4, <1>5, <1>6, <1>7, <1>8, <1>9, <1>10

\* A step of a command.
CommandMoves(i) ==
  \/ LoseRequest(i) \/ Prepare(i) \/ FindWorkspace(i) \/ CreateWorkspace(i) \/ Upgrade(i)
  \/ CheckAccess(i) \/ Archive(i) \/ Upload(i) \/ Queue(i) \/ MakeDirectory(i) \/ DiskFails(i)
  \/ PollEnded(i) \/ TimeOut(i) \/ ReadEnvelope(i) \/ ReadEvidence(i) \/ Save(i) \/ JudgeCycle(i)

\* Every step of a command does so.
LEMMA CommandsTry ==
  ASSUME CommandsFit, NEW i \in 1 .. Len(cycle), CommandMoves(i)
  PROVE  Tries(i)
<1>1. ASSUME NEW next, AnsweredOrLost(i, next) PROVE Tries(i)
  BY <1>1, RowsOfTries DEF AnsweredOrLost, Repeats, MayTryAgain
<1>2. LoseRequest(i) => Tries(i)
  BY RowsOfTries DEF LoseRequest, Repeats, MayTryAgain
<1>3. Prepare(i) \/ CheckAccess(i) \/ MakeDirectory(i) \/ DiskFails(i) \/ PollEnded(i) \/ TimeOut(i) \/ Save(i)
      \/ JudgeCycle(i) => Tries(i)
  BY RowsOfTries DEF Prepare, CheckAccess, MakeDirectory, DiskFails, PollEnded, TimeOut, Save, JudgeCycle
<1>4. FindWorkspace(i) => Tries(i)
  BY RowsOfTries DEF FindWorkspace
<1>5. CreateWorkspace(i) => Tries(i)
  BY RowsOfTries DEF CreateWorkspace
<1>6. Upgrade(i) \/ Upload(i) => Tries(i)
  BY <1>1 DEF Upgrade, Upload
<1>7. Archive(i) => Tries(i)
  BY RowsOfTries DEF Archive
<1>8. Queue(i) => Tries(i)
  BY RowsOfTries DEF Queue, Repeats, MayTryAgain
<1>9. ReadEnvelope(i) => Tries(i)
  BY RowsOfTries DEF ReadEnvelope
<1>10. ReadEvidence(i) => Tries(i)
  <2>1. ASSUME ReadEvidence(i)
        PROVE  \E x : cycle' = [cycle EXCEPT ![i].at = "save", ![i].tries = 0, ![i].seen = x]
    <3>1. PICK c \in Commands : c = cycle[i]
      BY CommandNow
    <3> DEFINE x == [c.seen EXCEPT !.trail = @ \union dogfoodJobs[cycle[i].job].trail]
    <3>2. cycle' = [cycle EXCEPT ![i].at = "save", ![i].tries = 0, ![i].seen = x]
      BY <2>1, <3>1 DEF ReadEvidence, CommandsFit, CycleRows
    <3> QED BY <3>2
  <2> QED BY <2>1, RowsOfTries
<1> QED BY <1>2, <1>3, <1>4, <1>5, <1>6, <1>7, <1>8, <1>9, <1>10 DEF CommandMoves

\* Losses are counted, and no job is left without a status.
LEMMA CommandsLose ==
  ASSUME CommandsFit, CycleRest, NEW i \in 1 .. Len(cycle), CommandMoves(i)
  PROVE  losses' \in 0 .. MaxLosses /\ \A j \in 1 .. Len(dogfoodJobs') : dogfoodJobs'[j].status # "none"
<1>1. losses' = losses \/ (losses < MaxLosses /\ losses' = losses + 1)
  BY DEF CommandMoves, LoseRequest, Prepare, FindWorkspace, CreateWorkspace, Upgrade, CheckAccess, Archive,
     Upload, Queue, MakeDirectory, DiskFails, PollEnded, TimeOut, ReadEnvelope, ReadEvidence, Save, JudgeCycle, AnsweredOrLost
<1>2. losses' \in 0 .. MaxLosses
  BY <1>1, CycleAssumption DEF CycleRest
<1>3. \/ dogfoodJobs' = dogfoodJobs
      \/ \E job : dogfoodJobs' = Append(dogfoodJobs, job) /\ job.status = "queued"
  <2>1. ASSUME Queue(i) PROVE \E job : dogfoodJobs' = Append(dogfoodJobs, job) /\ job.status = "queued"
    <3> DEFINE job == [by |-> i, of |-> cycle[i].job, space |-> cycle[i].space,
                       status |-> "queued", trail |-> {}]
    <3>1. dogfoodJobs' = Append(dogfoodJobs, job) /\ job.status = "queued"
      BY <2>1 DEF Queue
    <3> QED BY <3>1
  <2>2. ~ Queue(i) => dogfoodJobs' = dogfoodJobs
    BY DEF CommandMoves, LoseRequest, Prepare, FindWorkspace, CreateWorkspace, Upgrade, CheckAccess, Archive,
       Upload, MakeDirectory, DiskFails, PollEnded, TimeOut, ReadEnvelope, ReadEvidence, Save, JudgeCycle
  <2> QED BY <2>1, <2>2
<1>4. \A j \in 1 .. Len(dogfoodJobs') : dogfoodJobs'[j].status # "none"
  <2>1. CASE dogfoodJobs' = dogfoodJobs
    BY <2>1 DEF CycleRest
  <2>2. ASSUME NEW job, dogfoodJobs' = Append(dogfoodJobs, job), job.status = "queued"
        PROVE  \A j \in 1 .. Len(dogfoodJobs') : dogfoodJobs'[j].status # "none"
    BY <2>2 DEF CommandsFit, CycleRows, CycleRest
  <2> QED BY <1>3, <2>1, <2>2
<1> QED BY <1>2, <1>4

\* Every step of a command or of the product keeps the tries within their bound.
LEMMA CycleRestKeeps == CommandsFit /\ CycleRest /\ [CyclesNext]_cycleVars => CycleRest'
<1> SUFFICES ASSUME CommandsFit, CycleRest, [CyclesNext]_cycleVars PROVE CycleRest'
  OBVIOUS
<1>0. /\ cycle \in Seq(Commands) /\ DOMAIN cycle = 1 .. Len(cycle)
      /\ dogfoodJobs \in Seq(Queued) /\ DOMAIN dogfoodJobs = 1 .. Len(dogfoodJobs)
  BY DEF CommandsFit, CycleRows
<1>1. ASSUME NEW i \in 1 .. Len(cycle), CommandMoves(i) PROVE CycleRest'
  <2>1. Tries(i)
    BY <1>1, CommandsTry
  <2>2. cycle'[i].tries \in 0 .. GetRetries + 1
    BY <2>1, CycleAssumption DEF Tries, MayTryAgain, CycleRest
  <2>3. \A k \in 1 .. Len(cycle') : cycle'[k].tries \in 0 .. GetRetries + 1
    BY <2>1, <2>2 DEF Tries, OnlyOneMoves, CycleRest
  <2> QED BY <1>1, <2>3, CommandsLose DEF CycleRest
<1>2. ASSUME NEW mode, NEW job, NEW waits, StartCycle(mode, job, waits) PROVE CycleRest'
  <2>1. \E m : cycle' = Append(cycle, m) /\ m.tries = 0
    <3> DEFINE m == [mode |-> mode, at |-> "prepare", tries |-> 0, job |-> job,
                     space |-> 0, waits |-> waits, seen |-> Unread, leftover |-> FALSE]
    <3>1. cycle' = Append(cycle, m) /\ m.tries = 0
      BY <1>2 DEF StartCycle
    <3> QED BY <3>1
  <2>2. PICK m : cycle' = Append(cycle, m) /\ m.tries = 0
    BY <2>1
  <2>3. \A k \in 1 .. Len(cycle') : cycle'[k].tries \in 0 .. GetRetries + 1
    BY <1>0, <2>2, CycleAssumption DEF CycleRest
  <2>4. dogfoodJobs' = dogfoodJobs /\ losses' = losses
    BY <1>2 DEF StartCycle
  <2> QED BY <2>3, <2>4 DEF CycleRest
<1>3. ASSUME NEW j \in 1 .. Len(dogfoodJobs), ProductStep(j) PROVE CycleRest'
  <2>1. PICK next, lines : /\ dogfoodJobs' = [dogfoodJobs EXCEPT ![j].status = next, ![j].trail = @ \union lines]
                           /\ next \in {"running", "succeeded", "failed", "cancelled"}
    BY <1>3, Zenon DEF ProductStep, Run
  <2>2. UNCHANGED <<cycle, losses>>
    BY <1>3 DEF ProductStep, Run
  <2>3. PICK job \in Queued : job = dogfoodJobs[j]
    BY <1>0
  <2> DEFINE moved == [job EXCEPT !.status = next, !.trail = @ \union lines]
  <2>4. dogfoodJobs' = [dogfoodJobs EXCEPT ![j] = moved] /\ moved.status = next
    BY <1>0, <2>1, <2>3 DEF Queued
  <2> HIDE DEF moved
  <2>5. \A k \in 1 .. Len(dogfoodJobs') : dogfoodJobs'[k].status # "none"
    BY <1>0, <2>1, <2>4 DEF CycleRest
  <2> QED BY <2>2, <2>5 DEF CycleRest
<1>4. CASE UNCHANGED cycleVars
  BY <1>4 DEF cycleVars, CycleRest
<1> QED BY <1>0, <1>1, <1>2, <1>3, <1>4, Zenon DEF CyclesNext, CommandMoves

\* CycleType: no command tries a request more often than GetRetries allows (run-cycle.mjs).
THEOREM CycleTypes == CyclesSpec => []CycleType
<1>1. CyclesInit => CycleRest
  BY CycleAssumption DEF CyclesInit, CycleRest
<1>2. ASSUME CommandsFit, CycleRest PROVE CycleType
  <2>1. /\ DOMAIN cycle = 1 .. Len(cycle) /\ DOMAIN dogfoodJobs = 1 .. Len(dogfoodJobs)
        /\ DOMAIN files = DOMAIN dogfoodJobs /\ proSpaces \in Seq(BOOLEAN)
        /\ dogfoodJobs \in Seq(Queued)
    BY <1>2 DEF CommandsFit, CycleRows
  <2>2. ASSUME NEW i \in 1 .. Len(cycle)
        PROVE  /\ cycle[i].mode \in Modes /\ cycle[i].at \in Steps /\ cycle[i].job \in 0 .. Len(dogfoodJobs)
               /\ cycle[i].tries \in 0 .. GetRetries + 1
    BY <1>2, CommandNow DEF Commands, OnItsWay, CycleRest
  <2>3. ASSUME NEW j \in 1 .. Len(dogfoodJobs)
        PROVE  dogfoodJobs[j].status \in Final \union {"queued", "running"}
    <3>1. dogfoodJobs[j] \in Queued
      BY <2>1
    <3>2. dogfoodJobs[j].status \in Statuses /\ dogfoodJobs[j].status # "none"
      BY <1>2, <3>1 DEF Queued, CycleRest
    <3> QED BY <3>2 DEF Statuses
  <2> QED BY <1>2, <2>1, <2>2, <2>3 DEF CycleType, CycleRest
<1> QED BY <1>1, <1>2, CycleRestKeeps, CommandsFitAlways, PTL DEF CyclesSpec

-----------------------------------------------------------------------------
(* The tree of a source *)

\* One archive and the consumer that makes a tree of it.
TreeSpec == TreeInit /\ [][TreeNext]_treeVars

\* Paths of files and directories: the directory itself is not among them.
FilePaths == {p \in Seq(FileNames) : p # <<>>}

\* What an archive becomes before the metadata is removed.
Collapsed == SubTree(Extracted(archive), SingleRoot(Extracted(archive)))

\* At each step the tree is what has been made of the accepted archive so far.
TreeInv ==
  /\ archive \subseteq Entries /\ companion \in BOOLEAN /\ consumer \in Consumers
  /\ treeStep \in TreeSteps /\ tree \subseteq FilePaths
  /\ companion => consumer = "audit"
  /\ treeStep \notin {"inspect", "refused"} => Accepted(archive)
  /\ treeStep = "collapse" => tree = Extracted(archive)
  /\ treeStep = "finish" => tree = Collapsed
  /\ treeStep = "bundle" => consumer = "audit" /\ companion /\ tree = WithoutGit(Collapsed)
  /\ treeStep = "ready" /\ consumer = "audit" =>
       tree = IF companion THEN Bundle(WithoutGit(Collapsed), WithoutGit(ClonedTree))
              ELSE WithoutGit(Collapsed)
  /\ treeStep = "ready" /\ consumer \in {"remediation", "review"} =>
       tree = Collapsed /\ <<".git">> \in tree

\* The first n names of a path, and the rest of it.
LEMMA PathParts ==
  ASSUME NEW p \in Seq(FileNames), NEW n \in 1 .. Len(p)
  PROVE  /\ SubSeq(p, 1, n) \in FilePaths /\ Len(SubSeq(p, 1, n)) = n
         /\ \A i \in 1 .. n : SubSeq(p, 1, n)[i] = p[i]
         /\ n < Len(p) => SubSeq(p, n + 1, Len(p)) \in FilePaths
<1>1. Len(p) \in Nat /\ \A i \in 1 .. Len(p) : p[i] \in FileNames
  BY LenProperties
<1>2. \A i \in 1 .. n : p[i] \in FileNames
  BY <1>1
<1>3. /\ SubSeq(p, 1, n) \in Seq(FileNames)
      /\ Len(SubSeq(p, 1, n)) = IF 1 <= n THEN n - 1 + 1 ELSE 0
      /\ \A i \in 1 .. n - 1 + 1 : SubSeq(p, 1, n)[i] = p[1 + i - 1]
  BY <1>2, SubSeqProperties, 1 \in Int, n \in Int
<1>4. Len(SubSeq(p, 1, n)) = n /\ \A i \in 1 .. n : SubSeq(p, 1, n)[i] = p[i]
  BY <1>3
<1>5. SubSeq(p, 1, n) # <<>>
  BY <1>4
<1>6. ASSUME n < Len(p) PROVE SubSeq(p, n + 1, Len(p)) \in FilePaths
  <2>1. \A i \in (n + 1) .. Len(p) : p[i] \in FileNames
    BY <1>1
  <2>2. n + 1 \in Int /\ Len(p) \in Int
    BY <1>1
  <2>3. /\ SubSeq(p, n + 1, Len(p)) \in Seq(FileNames)
        /\ Len(SubSeq(p, n + 1, Len(p))) = IF n + 1 <= Len(p) THEN Len(p) - (n + 1) + 1 ELSE 0
    BY <2>1, <2>2, SubSeqProperties
  <2>4. Len(SubSeq(p, n + 1, Len(p))) = Len(p) - n /\ Len(p) - n # 0
    BY <1>1, <1>6, <2>3
  <2>5. SubSeq(p, n + 1, Len(p)) # <<>>
    BY <2>4
  <2> QED BY <2>3, <2>5 DEF FilePaths
<1> QED BY <1>3, <1>4, <1>5, <1>6 DEF FilePaths

\* A path is below the directory of its first name.
LEMMA FirstName ==
  ASSUME NEW p \in FilePaths
  PROVE  Len(p) \in Nat /\ Len(p) >= 1 /\ p[1] \in FileNames /\ SubSeq(p, 1, 1) = <<p[1]>>
<1>1. Len(p) \in Nat /\ Len(p) >= 1 /\ p[1] \in FileNames
  BY LenProperties DEF FilePaths
<1>2. /\ SubSeq(p, 1, 1) \in Seq(FileNames) /\ Len(SubSeq(p, 1, 1)) = 1 /\ SubSeq(p, 1, 1)[1] = p[1]
  BY <1>1, PathParts DEF FilePaths
<1>3. <<p[1]>> \in Seq(FileNames) /\ Len(<<p[1]>>) = 1 /\ <<p[1]>>[1] = p[1]
  BY <1>1
<1>4. \A i \in 1 .. Len(SubSeq(p, 1, 1)) : SubSeq(p, 1, 1)[i] = <<p[1]>>[i]
  BY <1>2, <1>3
<1> QED BY <1>1, <1>2, <1>3, <1>4, SeqEqual

\* Extraction makes the entries' paths, and the directories on their way.
LEMMA ExtractedPaths ==
  ASSUME archive \subseteq Entries
  PROVE  /\ Extracted(archive) \subseteq FilePaths
         /\ \A p \in Extracted(archive) : \E e \in archive : e.path # <<>> /\ e.path[1] = p[1]
         /\ \A e \in archive : e.path # <<>> => e.path \in FilePaths /\ e.path \in Extracted(archive)
<1>1. \A e \in archive : e.path \in Seq(FileNames)
  BY EntriesAssumption
<1>2. ASSUME NEW e \in archive, NEW n \in 1 .. Len(e.path)
      PROVE  SubSeq(e.path, 1, n) \in FilePaths /\ e.path # <<>> /\ e.path[1] = SubSeq(e.path, 1, n)[1]
  <2>1. Len(e.path) \in Nat /\ e.path \in Seq(FileNames)
    BY <1>1, LenProperties
  <2>2. e.path # <<>>
    BY <2>1
  <2> QED BY <2>1, <2>2, PathParts
<1>3. ASSUME NEW e \in archive, e.path # <<>>
      PROVE  e.path \in FilePaths /\ e.path \in Extracted(archive)
  <2>1. e.path \in FilePaths
    BY <1>1, <1>3 DEF FilePaths
  <2>2. Len(e.path) \in 1 .. Len(e.path) /\ SubSeq(e.path, 1, Len(e.path)) = e.path
    BY <1>1, <2>1, FirstName, SubSeqFull
  <2>3. e.path \in {SubSeq(e.path, 1, n) : n \in 1 .. Len(e.path)}
    BY <2>2
  <2> QED BY <2>1, <2>3 DEF Extracted
<1>4. \A p \in Extracted(archive) : \E e \in archive : \E n \in 1 .. Len(e.path) : p = SubSeq(e.path, 1, n)
  BY DEF Extracted
<1>5. \A p \in Extracted(archive) :
        p \in FilePaths /\ \E e \in archive : e.path # <<>> /\ e.path[1] = p[1]
  BY <1>2, <1>4
<1> QED BY <1>3, <1>5

\* The tree below nothing is the tree.
LEMMA WholeTree ==
  ASSUME NEW paths \in SUBSET FilePaths PROVE SubTree(paths, <<>>) = paths
<1>1. ASSUME NEW p \in paths
      PROVE  Len(p) > Len(<<>>) /\ SubSeq(p, 1, Len(<<>>)) = <<>> /\ SubSeq(p, Len(<<>>) + 1, Len(p)) = p
  <2>1. Len(p) \in Nat /\ Len(p) >= 1 /\ p \in Seq(FileNames) /\ Len(<<>>) = 0
    BY FirstName DEF FilePaths
  <2>2. SubSeq(p, 1, 0) = <<>>
    BY SubSeqEmpty
  <2>3. SubSeq(p, 1, Len(p)) = p
    BY <2>1, SubSeqFull
  <2> QED BY <2>1, <2>2, <2>3
<1> QED BY <1>1 DEF SubTree

\* The tree below a directory: the rest of the paths that begin with its name.
LEMMA BelowIsPaths ==
  ASSUME NEW paths \in SUBSET FilePaths, NEW name \in FileNames
  PROVE  /\ SubTree(paths, <<name>>) \subseteq FilePaths
         /\ SubTree(paths, <<name>>) =
              {SubSeq(p, 2, Len(p)) : p \in {q \in paths : Len(q) > 1 /\ q[1] = name}}
<1>1. Len(<<name>>) = 1 /\ Len(<<name>>) + 1 = 2
  OBVIOUS
<1>2. ASSUME NEW q \in paths PROVE SubSeq(q, 1, Len(<<name>>)) = <<name>> <=> q[1] = name
  <2>1. SubSeq(q, 1, 1) = <<q[1]>>
    BY FirstName
  <2>2. <<q[1]>> = <<name>> <=> q[1] = name
    OBVIOUS
  <2> QED BY <1>1, <2>1, <2>2
<1>3. ASSUME NEW x
      PROVE  x \in SubTree(paths, <<name>>) <=>
               \E q \in paths : Len(q) > 1 /\ q[1] = name /\ x = SubSeq(q, 2, Len(q))
  <2> DEFINE len == Len(<<name>>)
             has(q) == SubSeq(q, 1, Len(<<name>>)) = <<name>>
  <2>1. x \in SubTree(paths, <<name>>) <=>
          \E q \in paths : Len(q) > len /\ has(q) /\ x = SubSeq(q, len + 1, Len(q))
    BY DEF SubTree
  <2>2. len = 1 /\ len + 1 = 2 /\ \A q \in paths : has(q) <=> q[1] = name
    BY <1>1, <1>2
  <2> HIDE DEF len, has
  <2> QED BY <2>1, <2>2
<1>4. ASSUME NEW q \in paths, Len(q) > 1 PROVE SubSeq(q, 2, Len(q)) \in FilePaths
  <2>1. q \in Seq(FileNames) /\ 1 \in 1 .. Len(q) /\ 1 + 1 = 2
    BY FirstName DEF FilePaths
  <2> QED BY <1>4, <2>1, PathParts
<1>5. SubTree(paths, <<name>>) = {SubSeq(p, 2, Len(p)) : p \in {q \in paths : Len(q) > 1 /\ q[1] = name}}
  BY <1>3
<1> QED BY <1>3, <1>4, <1>5

\* The first names of the entries are those of what is extracted.
Tops == {e.path[1] : e \in Meaningful(archive)}

\* The names at the top of what is extracted are those the inspection saw.
LEMMA SameTops ==
  ASSUME archive \subseteq Entries
  PROVE  {p[1] : p \in Extracted(archive)} \ {"__MACOSX"} = Tops
<1>1. ASSUME NEW t, t \in {p[1] : p \in Extracted(archive)} \ {"__MACOSX"} PROVE t \in Tops
  <2>1. PICK p \in Extracted(archive) : t = p[1]
    BY <1>1
  <2>2. PICK e \in archive : e.path # <<>> /\ e.path[1] = p[1]
    BY <2>1, ExtractedPaths
  <2>3. e \in Meaningful(archive)
    BY <1>1, <2>1, <2>2 DEF Meaningful
  <2> QED BY <2>1, <2>2, <2>3 DEF Tops
<1>2. ASSUME NEW t, t \in Tops PROVE t \in {p[1] : p \in Extracted(archive)} \ {"__MACOSX"}
  <2>1. PICK e \in Meaningful(archive) : t = e.path[1]
    BY <1>2 DEF Tops
  <2>2. e \in archive /\ e.path # <<>> /\ t # "__MACOSX"
    BY <2>1 DEF Meaningful
  <2>3. e.path \in Extracted(archive)
    BY <2>2, ExtractedPaths
  <2> QED BY <2>1, <2>2, <2>3
<1> QED BY <1>1, <1>2

\* What .git being at the top, or one level below, says of some entry.
LEMMA GitAtTop ==
  ASSUME archive \subseteq Entries
  PROVE  GitAt(Meaningful(archive), <<>>) <=>
           \E e \in Meaningful(archive) :
             e.path[1] = ".git" /\ (Len(e.path) = 1 => e.kind = "directory")
<1>1. ASSUME NEW e \in Meaningful(archive)
      PROVE  /\ Len(e.path) > Len(<<>>)
             /\ Len(e.path) = Len(<<>>) + 1 <=> Len(e.path) = 1
             /\ SubSeq(e.path, 1, Len(<<>>) + 1) = Append(<<>>, ".git") <=> e.path[1] = ".git"
  <2>1. e.path \in FilePaths
    BY EntriesAssumption DEF Meaningful, FilePaths
  <2>2. Len(e.path) \in Nat /\ Len(e.path) >= 1 /\ SubSeq(e.path, 1, 1) = <<e.path[1]>>
    BY <2>1, FirstName
  <2>3. Len(<<>>) = 0 /\ Len(<<>>) + 1 = 1 /\ Append(<<>>, ".git") = <<".git">>
    OBVIOUS
  <2>4. <<e.path[1]>> = <<".git">> <=> e.path[1] = ".git"
    OBVIOUS
  <2> QED BY <2>2, <2>3, <2>4
<1> QED BY <1>1 DEF GitAt

\* What has .git below it has an entry below it.
LEMMA GitBelowTop ==
  ASSUME archive \subseteq Entries, NEW t, GitAt(Meaningful(archive), <<t>>)
  PROVE  \E e \in Meaningful(archive) : Len(e.path) > 1 /\ e.path[1] = t
<1>1. PICK e \in Meaningful(archive) :
        Len(e.path) > Len(<<t>>) /\ SubSeq(e.path, 1, Len(<<t>>) + 1) = Append(<<t>>, ".git")
  BY DEF GitAt
<1>2. Len(<<t>>) = 1 /\ Len(<<t>>) + 1 = 2 /\ Append(<<t>>, ".git")[1] = t
  OBVIOUS
<1>3. e.path \in Seq(FileNames) /\ 2 \in 1 .. Len(e.path)
  <2>1. e.path \in Seq(FileNames)
    BY EntriesAssumption DEF Meaningful
  <2>2. Len(e.path) \in Nat
    BY <2>1, LenProperties
  <2> QED BY <1>1, <1>2, <2>1, <2>2
<1>4. SubSeq(e.path, 1, 2)[1] = e.path[1]
  BY <1>3, PathParts, 1 \in 1 .. 2
<1> QED BY <1>1, <1>2, <1>4

\* A single directory is found, and nothing is when there is no single one.
LEMMA TopmostOfOne ==
  ASSUME NEW S, NEW t PROVE Topmost({}) = <<>> /\ (S = {t} => Topmost(S) = <<t>>)
<1>1. (CHOOSE x \in {t} : TRUE) = t
  OBVIOUS
<1> QED BY <1>1 DEF Topmost

\* collapseSingleRoot takes a directory that is alone at the top, and nothing else.
LEMMA SingleRootIs ==
  ASSUME archive \subseteq Entries
  PROVE  /\ (~ \E t \in Tops : Tops = {t}) => SingleRoot(Extracted(archive)) = <<>>
         /\ \A t \in Tops :
              Tops = {t} /\ IsDirectory(Extracted(archive), <<t>>) =>
                SingleRoot(Extracted(archive)) = <<t>>
<1> DEFINE X == Extracted(archive)
<1>1. SingleRoot(X) = Topmost(Only(Tops, X))
  BY SameTops DEF SingleRoot
<1>2. (~ \E t \in Tops : Tops = {t}) => Only(Tops, X) = {}
  BY DEF Only
<1>3. ASSUME NEW t \in Tops, Tops = {t}, IsDirectory(X, <<t>>) PROVE Only(Tops, X) = {t}
  BY <1>3 DEF Only
<1> QED BY <1>1, <1>2, <1>3, TopmostOfOne

\* An entry with something before it in its path makes its top a directory.
LEMMA TopIsDirectory ==
  ASSUME archive \subseteq Entries, NEW e \in Meaningful(archive),
         Len(e.path) = 1 => e.kind = "directory"
  PROVE  IsDirectory(Extracted(archive), <<e.path[1]>>)
<1>1. e \in archive /\ e.path \in FilePaths /\ e.path \in Extracted(archive)
  BY ExtractedPaths DEF Meaningful
<1>2. Len(e.path) \in Nat /\ Len(e.path) >= 1 /\ SubSeq(e.path, 1, 1) = <<e.path[1]>>
  BY <1>1, FirstName
<1>3. Len(<<e.path[1]>>) = 1
  OBVIOUS
<1>4. CASE Len(e.path) > 1
  BY <1>1, <1>2, <1>3, <1>4 DEF IsDirectory
<1>5. CASE Len(e.path) = 1
  <2>1. e.path = SubSeq(e.path, 1, 1)
    BY <1>1, <1>5, SubSeqFull DEF FilePaths
  <2>2. e.kind = "directory"
    BY <1>5
  <2> QED BY <1>1, <1>2, <2>1, <2>2 DEF IsDirectory
<1>6. \A n \in Nat : n >= 1 => n > 1 \/ n = 1
  OBVIOUS
<1> QED BY <1>2, <1>4, <1>5, <1>6

\* The tree the inspection found in the list of entries.
Whole     == SubTree(Extracted(archive), CHOOSE r \in InspectedRoots(archive) : TRUE)
Inspected == IF HoldsOnlyGit THEN SubTree(Whole, <<".git">>) ELSE Whole

\* .git is at the top: the root is the top, unless there is nothing else.
LEMMA RootAtTop ==
  ASSUME archive \subseteq Entries, GitAt(Meaningful(archive), <<>>)
  PROVE  Collapsed = Inspected /\ Collapsed \subseteq FilePaths
<1>1. Extracted(archive) \in SUBSET FilePaths
  BY ExtractedPaths
<1>2. Whole = Extracted(archive)
  <2>1. InspectedRoots(archive) = {<<>>}
    BY DEF InspectedRoots
  <2>2. (CHOOSE r \in {<<>>} : TRUE) = <<>>
    OBVIOUS
  <2> QED BY <1>1, <2>1, <2>2, WholeTree DEF Whole
<1>3. PICK e \in Meaningful(archive) :
        e.path[1] = ".git" /\ (Len(e.path) = 1 => e.kind = "directory")
  BY GitAtTop
<1>4. ".git" \in Tops /\ IsDirectory(Extracted(archive), <<".git">>)
  BY <1>3, TopIsDirectory DEF Tops
<1>5. CASE HoldsOnlyGit
  <2>1. Tops = {".git"}
    BY <1>5 DEF HoldsOnlyGit, Tops
  <2>2. SingleRoot(Extracted(archive)) = <<".git">>
    BY <1>4, <2>1, SingleRootIs
  <2>3. ".git" \in FileNames
    BY NamesAssumption
  <2>4. SubTree(Extracted(archive), <<".git">>) \subseteq FilePaths
    BY <1>1, <2>3, BelowIsPaths
  <2> QED BY <1>2, <1>5, <2>2, <2>4 DEF Inspected, Collapsed
<1>6. CASE ~ HoldsOnlyGit
  <2>1. Tops # {".git"}
    BY <1>6 DEF HoldsOnlyGit, Tops
  <2>2. ~ \E t \in Tops : Tops = {t}
    BY <1>4, <2>1
  <2>3. SingleRoot(Extracted(archive)) = <<>>
    BY <2>2, SingleRootIs
  <2>4. SubTree(Extracted(archive), <<>>) = Extracted(archive)
    BY <1>1, WholeTree
  <2> QED BY <1>1, <1>2, <1>6, <2>3, <2>4 DEF Inspected, Collapsed
<1> QED BY <1>5, <1>6

\* .git is in the only directory at the top, which is the root.
LEMMA RootBelowTop ==
  ASSUME archive \subseteq Entries, ~ GitAt(Meaningful(archive), <<>>),
         InspectedRoots(archive) # {}
  PROVE  Collapsed = Inspected /\ Collapsed \subseteq FilePaths
<1>1. Extracted(archive) \in SUBSET FilePaths
  BY ExtractedPaths
<1>2. InspectedRoots(archive) =
        {<<top>> : top \in {t \in Tops : Tops = {t} /\ GitAt(Meaningful(archive), <<t>>)}}
  BY DEF InspectedRoots, Tops
<1>3. PICK t \in Tops : Tops = {t} /\ GitAt(Meaningful(archive), <<t>>)
  BY <1>2
<1>4. PICK e \in Meaningful(archive) : Len(e.path) > 1 /\ e.path[1] = t
  BY <1>3, GitBelowTop
<1>5. Len(e.path) # 1 /\ t \in FileNames
  <2>1. e.path \in FilePaths
    BY EntriesAssumption DEF Meaningful, FilePaths
  <2>2. Len(e.path) \in Nat /\ e.path[1] \in FileNames
    BY <2>1, FirstName
  <2>3. \A n \in Nat : n > 1 => n # 1
    OBVIOUS
  <2> QED BY <1>4, <2>2, <2>3
<1>6. t # ".git"
  BY <1>4, <1>5, GitAtTop
<1>7. SingleRoot(Extracted(archive)) = <<t>>
  <2>1. IsDirectory(Extracted(archive), <<t>>)
    BY <1>4, <1>5, TopIsDirectory
  <2> QED BY <1>3, <2>1, SingleRootIs
<1>8. (CHOOSE r \in InspectedRoots(archive) : TRUE) = <<t>>
  <2>1. {u \in Tops : Tops = {u} /\ GitAt(Meaningful(archive), <<u>>)} = {t}
    BY <1>3
  <2>2. InspectedRoots(archive) = {<<t>>}
    BY <1>2, <2>1
  <2>3. (CHOOSE r \in {<<t>>} : TRUE) = <<t>>
    OBVIOUS
  <2> QED BY <2>2, <2>3
<1>9. ~ HoldsOnlyGit
  BY <1>3, <1>6 DEF HoldsOnlyGit, Tops
<1>10. SubTree(Extracted(archive), <<t>>) \subseteq FilePaths
  BY <1>1, <1>5, BelowIsPaths
<1> QED BY <1>7, <1>8, <1>9, <1>10 DEF Inspected, Collapsed, Whole

\* The consumers' collapsing of a single root finds what the inspection of the entries found.
LEMMA CollapsedIsInspected ==
  ASSUME archive \subseteq Entries, Accepted(archive)
  PROVE  Collapsed = Inspected /\ Collapsed \subseteq FilePaths
BY RootAtTop, RootBelowTop DEF Accepted

\* What is put under a name is found again below it.
LEMMA PutAndTaken ==
  ASSUME NEW name \in FileNames, NEW p \in FilePaths
  PROVE  /\ <<name>> \o p \in FilePaths /\ Len(<<name>> \o p) > 1
         /\ (<<name>> \o p)[1] = name /\ SubSeq(<<name>> \o p, 2, Len(<<name>> \o p)) = p
<1> DEFINE q == <<name>> \o p
<1>1. /\ p \in Seq(FileNames) /\ Len(p) \in Nat /\ Len(p) >= 1
      /\ <<name>> \in Seq(FileNames) /\ Len(<<name>>) = 1 /\ <<name>>[1] = name
  <2>1. p \in Seq(FileNames)
    BY DEF FilePaths
  <2>2. Len(p) \in Nat /\ Len(p) >= 1
    BY FirstName
  <2>3. <<name>> \in Seq(FileNames) /\ Len(<<name>>) = 1 /\ <<name>>[1] = name
    OBVIOUS
  <2> QED BY <2>1, <2>2, <2>3
<1>2. /\ q \in Seq(FileNames) /\ Len(q) = 1 + Len(p) /\ q[1] = name
      /\ \A i \in 1 .. Len(p) : q[i + 1] = p[i]
  <2>1. /\ q \in Seq(FileNames) /\ Len(q) = Len(<<name>>) + Len(p)
        /\ \A i \in 1 .. Len(<<name>>) + Len(p) :
             q[i] = IF i <= Len(<<name>>) THEN <<name>>[i] ELSE p[i - Len(<<name>>)]
    BY <1>1, ConcatProperties
  <2> DEFINE one == <<name>>
  <2>2. /\ Len(q) = 1 + Len(p)
        /\ \A i \in 1 .. 1 + Len(p) : q[i] = IF i <= 1 THEN one[i] ELSE p[i - 1]
    BY <1>1, <2>1
  <2> HIDE DEF q, one
  <2>3. q[1] = one[1] /\ \A i \in 1 .. Len(p) : q[i + 1] = p[i]
    BY <1>1, <2>2
  <2> QED BY <1>1, <2>1, <2>2, <2>3 DEF one
<1>3. q \in FilePaths /\ Len(q) > 1
  BY <1>1, <1>2 DEF FilePaths
<1> HIDE DEF q
<1>4. SubSeq(q, 2, Len(q)) = p
  <2>1. \A i \in 2 .. Len(q) : q[i] \in FileNames
    BY <1>2, LenProperties
  <2>2. /\ SubSeq(q, 2, Len(q)) \in Seq(FileNames)
        /\ Len(SubSeq(q, 2, Len(q))) = Len(q) - 2 + 1
        /\ \A i \in 1 .. Len(q) - 2 + 1 : SubSeq(q, 2, Len(q))[i] = q[2 + i - 1]
    BY <1>1, <1>2, <2>1, SubSeqProperties
  <2>3. Len(SubSeq(q, 2, Len(q))) = Len(p)
    BY <1>1, <1>2, <2>2
  <2>4. ASSUME NEW i \in 1 .. Len(p) PROVE SubSeq(q, 2, Len(q))[i] = p[i]
    <3>1. i \in 1 .. Len(q) - 2 + 1 /\ 2 + i - 1 = i + 1
      BY <1>1, <1>2
    <3> QED BY <1>2, <2>2, <3>1
  <2> QED BY <1>1, <2>2, <2>3, <2>4, SeqEqual
<1> QED BY <1>2, <1>3, <1>4 DEF q

\* A bundle holds either tree below its name, and nothing else there.
LEMMA BundleParts ==
  ASSUME NEW P \in SUBSET FilePaths, NEW C \in SUBSET FilePaths
  PROVE  /\ Bundle(P, C) \subseteq FilePaths
         /\ SubTree(Bundle(P, C), <<"primary">>) = P
         /\ SubTree(Bundle(P, C), <<"companion">>) = C
<1> DEFINE B == Bundle(P, C)
           under(name, S) == {<<name>> \o p : p \in S}
<1>1. \A s \in FileNames : <<s>> \in FilePaths /\ Len(<<s>>) = 1
  BY DEF FilePaths
<1>2. {"primary", "companion", "README.speclens.txt", "speclens-source-bundle.json"} \subseteq FileNames
  BY NamesAssumption
<1>3. B = under("primary", P) \union under("companion", C) \union
          {<<"primary">>, <<"companion">>, <<"README.speclens.txt">>, <<"speclens-source-bundle.json">>}
  BY DEF Bundle, PutUnder
<1>4. \A q \in under("primary", P) : \E p \in P :
        q = <<"primary">> \o p /\ q \in FilePaths /\ Len(q) > 1 /\ q[1] = "primary"
          /\ SubSeq(q, 2, Len(q)) = p
  <2>1. ASSUME NEW q \in under("primary", P)
        PROVE  \E p \in P :
                 /\ q = <<"primary">> \o p /\ q \in FilePaths /\ Len(q) > 1 /\ q[1] = "primary"
                 /\ SubSeq(q, 2, Len(q)) = p
    <3>1. PICK p \in P : q = <<"primary">> \o p
      OBVIOUS
    <3>2. p \in FilePaths /\ "primary" \in FileNames
      BY <1>2
    <3>3. /\ <<"primary">> \o p \in FilePaths /\ Len(<<"primary">> \o p) > 1
          /\ (<<"primary">> \o p)[1] = "primary"
          /\ SubSeq(<<"primary">> \o p, 2, Len(<<"primary">> \o p)) = p
      BY <3>2, PutAndTaken
    <3> QED BY <3>1, <3>3
  <2> QED BY <2>1
<1>5. \A q \in under("companion", C) : \E p \in C :
        q = <<"companion">> \o p /\ q \in FilePaths /\ Len(q) > 1 /\ q[1] = "companion"
          /\ SubSeq(q, 2, Len(q)) = p
  <2>1. ASSUME NEW q \in under("companion", C)
        PROVE  \E p \in C :
                 /\ q = <<"companion">> \o p /\ q \in FilePaths /\ Len(q) > 1 /\ q[1] = "companion"
                 /\ SubSeq(q, 2, Len(q)) = p
    <3>1. PICK p \in C : q = <<"companion">> \o p
      OBVIOUS
    <3>2. p \in FilePaths /\ "companion" \in FileNames
      BY <1>2
    <3>3. /\ <<"companion">> \o p \in FilePaths /\ Len(<<"companion">> \o p) > 1
          /\ (<<"companion">> \o p)[1] = "companion"
          /\ SubSeq(<<"companion">> \o p, 2, Len(<<"companion">> \o p)) = p
      BY <3>2, PutAndTaken
    <3> QED BY <3>1, <3>3
  <2> QED BY <2>1
<1>6. \A p \in P : LET q == <<"primary">> \o p IN
        q \in under("primary", P) /\ Len(q) > 1 /\ q[1] = "primary" /\ SubSeq(q, 2, Len(q)) = p
  BY <1>2, PutAndTaken
<1>7. \A p \in C : LET q == <<"companion">> \o p IN
        q \in under("companion", C) /\ Len(q) > 1 /\ q[1] = "companion" /\ SubSeq(q, 2, Len(q)) = p
  BY <1>2, PutAndTaken
<1> HIDE DEF B, under
<1>8. B \subseteq FilePaths
  BY <1>1, <1>2, <1>3, <1>4, <1>5
<1>9. \A q \in B : Len(q) > 1 => q \in under("primary", P) \/ q \in under("companion", C)
  <2>1. \A q \in {<<"primary">>, <<"companion">>, <<"README.speclens.txt">>,
                 <<"speclens-source-bundle.json">>} : Len(q) = 1
    BY <1>1, <1>2
  <2>2. ~ 1 > 1
    OBVIOUS
  <2> QED BY <1>3, <2>1, <2>2
<1>10. SubTree(B, <<"primary">>) = P
  <2>1. SubTree(B, <<"primary">>) =
          {SubSeq(q, 2, Len(q)) : q \in {r \in B : Len(r) > 1 /\ r[1] = "primary"}}
    BY <1>2, <1>8, BelowIsPaths
  <2>2. ASSUME NEW x \in SubTree(B, <<"primary">>) PROVE x \in P
    <3>1. PICK q \in B : Len(q) > 1 /\ q[1] = "primary" /\ x = SubSeq(q, 2, Len(q))
      BY <2>1
    <3>2. q \in under("primary", P)
      BY <1>5, <1>9, <3>1
    <3> QED BY <1>4, <3>1, <3>2
  <2>3. ASSUME NEW x \in P PROVE x \in SubTree(B, <<"primary">>)
    BY <1>3, <1>6, <2>1
  <2> QED BY <2>2, <2>3
<1>11. SubTree(B, <<"companion">>) = C
  <2>1. SubTree(B, <<"companion">>) =
          {SubSeq(q, 2, Len(q)) : q \in {r \in B : Len(r) > 1 /\ r[1] = "companion"}}
    BY <1>2, <1>8, BelowIsPaths
  <2>2. ASSUME NEW x \in SubTree(B, <<"companion">>) PROVE x \in C
    <3>1. PICK q \in B : Len(q) > 1 /\ q[1] = "companion" /\ x = SubSeq(q, 2, Len(q))
      BY <2>1
    <3>2. q \in under("companion", C)
      BY <1>4, <1>9, <3>1
    <3> QED BY <1>5, <3>1, <3>2
  <2>3. ASSUME NEW x \in C PROVE x \in SubTree(B, <<"companion">>)
    BY <1>3, <1>7, <2>1
  <2> QED BY <2>2, <2>3
<1> QED BY <1>8, <1>10, <1>11 DEF B

\* The companion's clone.
LEMMA ClonedPaths == ClonedTree \subseteq FilePaths
<1>1. ".git" \in FileNames /\ "HEAD" \in FileNames /\ "a" \in FileNames
  BY NamesAssumption
<1>2. \A m, n \in FileNames : <<m>> \in FilePaths /\ <<m, n>> \in FilePaths
  BY DEF FilePaths
<1> QED BY <1>1, <1>2 DEF ClonedTree

\* Before an archive is inspected nothing is made of it.
LEMMA TreeStarts == TreeInit => TreeInv
BY DEF TreeInit, TreeInv, TreeSteps

\* Each step of a consumer takes the tree to what the invariant says of it next.
LEMMA TreeStepKeeps == TreeInv /\ [TreeNext]_treeVars => TreeInv'
<1> SUFFICES ASSUME TreeInv, [TreeNext]_treeVars PROVE TreeInv'
  OBVIOUS
<1> USE DEF TreeSteps
<1>1. archive \subseteq Entries
  BY DEF TreeInv
<1>0. ASSUME archive' = archive PROVE Collapsed' = Collapsed
  BY <1>0 DEF Collapsed, SubTree, Extracted, SingleRoot, Topmost, Only, IsDirectory
<1>2. ASSUME Inspect PROVE TreeInv'
  BY <1>2, <1>0 DEF TreeInv, Inspect
<1>3. ASSUME Extract PROVE TreeInv'
  <2>1. Extracted(archive) \subseteq FilePaths
    BY <1>1, ExtractedPaths
  <2> QED BY <1>0, <1>3, <2>1 DEF TreeInv, Extract
<1>4. ASSUME Collapse PROVE TreeInv'
  <2>1. tree' = Collapsed /\ Collapsed \subseteq FilePaths
    BY <1>1, <1>4, CollapsedIsInspected DEF TreeInv, Collapse, Collapsed
  <2> QED BY <1>0, <1>4, <2>1 DEF TreeInv, Collapse
<1>5. ASSUME Strip PROVE TreeInv'
  <2>1. tree' = WithoutGit(Collapsed) /\ tree' \subseteq FilePaths
    BY <1>5 DEF TreeInv, Strip, WithoutGit
  <2> QED BY <1>0, <1>5, <2>1 DEF TreeInv, Strip
<1>6. ASSUME WriteBundle PROVE TreeInv'
  <2>1. WithoutGit(ClonedTree) \in SUBSET FilePaths /\ tree \in SUBSET FilePaths
    BY ClonedPaths DEF TreeInv, WithoutGit
  <2>2. Bundle(tree, WithoutGit(ClonedTree)) \subseteq FilePaths
    BY <2>1, BundleParts
  <2> QED BY <1>0, <1>6, <2>2 DEF TreeInv, WriteBundle
<1>7. ASSUME FindRepository PROVE TreeInv'
  BY <1>0, <1>7 DEF TreeInv, FindRepository
<1>8. ASSUME FailToMakeTree PROVE TreeInv'
  BY <1>0, <1>8 DEF TreeInv, FailToMakeTree
<1>9. ASSUME UNCHANGED treeVars PROVE TreeInv'
  BY <1>0, <1>9 DEF TreeInv, treeVars
<1> QED BY <1>2, <1>3, <1>4, <1>5, <1>6, <1>7, <1>8, <1>9 DEF TreeNext

\* TreeIsTheInspectedRoot, TreeType
LEMMA TreeInvShows == TreeInv => TreeType /\ TreeIsTheInspectedRoot
<1> SUFFICES ASSUME TreeInv PROVE TreeType /\ TreeIsTheInspectedRoot
  OBVIOUS
<1>1. TreeType
  BY DEF TreeInv, TreeType, FilePaths
<1>2. ASSUME treeStep = "ready", consumer # "upload" PROVE TreeIsTheInspectedRoot
  <2>1. Accepted(archive) /\ archive \subseteq Entries /\ consumer \in Consumers
    BY <1>2 DEF TreeInv
  <2>2. Collapsed = Inspected /\ Collapsed \subseteq FilePaths
    BY <2>1, CollapsedIsInspected
  <2>3. CASE consumer = "audit"
    <3>1. WithoutGit(Collapsed) \in SUBSET FilePaths /\ WithoutGit(ClonedTree) \in SUBSET FilePaths
      BY <2>2, ClonedPaths DEF WithoutGit
    <3>2. /\ (IF companion THEN SubTree(tree, <<"primary">>) ELSE tree) = WithoutGit(Inspected)
          /\ companion => SubTree(tree, <<"companion">>) = WithoutGit(ClonedTree)
      BY <1>2, <2>2, <2>3, <3>1, BundleParts DEF TreeInv
    <3> QED BY <2>1, <2>3, <3>2 DEF TreeIsTheInspectedRoot, Inspected, Whole
  <2>4. CASE consumer # "audit"
    <3>1. consumer \in {"remediation", "review"} /\ ~ companion
      BY <1>2, <2>1, <2>4 DEF TreeInv, Consumers
    <3>2. tree = Inspected /\ <<".git">> \in Inspected
      BY <1>2, <2>2, <3>1 DEF TreeInv
    <3> QED BY <2>1, <2>4, <3>1, <3>2 DEF TreeIsTheInspectedRoot, Inspected, Whole
  <2> QED BY <2>3, <2>4
<1>3. TreeIsTheInspectedRoot
  BY <1>2 DEF TreeIsTheInspectedRoot
<1> QED BY <1>1, <1>3

\* TreeIsTheInspectedRoot: what the consumers of an archive work on is the root its inspection
\* found, also inside a bundle with a companion, without .git for the audit and with .git at its
\* top for the others; for every set of archives (resolveGitArchiveRoot, collapseSingleRoot).
THEOREM TreesAreInspectedRoots == TreeSpec => [](TreeType /\ TreeIsTheInspectedRoot)
<1>1. TreeSpec => []TreeInv
  BY TreeStarts, TreeStepKeeps, PTL DEF TreeSpec
<1> QED BY <1>1, TreeInvShows, PTL

-----------------------------------------------------------------------------
(* What a report says of the user's suite *)

\* One suite, from the worker's preflight to the report.
SuiteSpec == ReadinessInit /\ [][ReadinessNext]_readinessVars

\* What the worker's section may say, and what the handoff makes of it and the role's words.
Sections ==
  {Unsaid, NotFound} \union {InstallFailed(r) : r \in {x \in Results : ~ Worked(x)}}
  \union {Listing(r) : r \in Results}
Handoff ==
  [detected |-> IsDetected(SuiteData), runnable |-> IsRunnable(SuiteData),
   passed |-> IsPassed(SuiteData), status |-> SuiteStatus(SuiteData)]

\* The steps of the worker before it has written its section.
Preflights == {"preflight", "install", "list"}
\* The steps during which a command runs, and all steps.
Commanded == {"install", "list", "documented", "verify"}
Suites    == Preflights \union Commanded \union {"handoff", "execute", "boot", "gaps", "done", "thrown"}
\* The gaps that the handoff has in the end.
Lacking ==
  {g \in {"no-suite", "not-runnable", "did-not-pass", "skipped"} :
     CASE g = "no-suite"     -> ~ told.detected
       [] g = "not-runnable" -> told.detected /\ ~ told.runnable /\ suiteRun # "succeeded"
       [] g = "did-not-pass" -> told.runnable /\ ~ told.passed /\ suiteRun # "succeeded"
       [] g = "skipped"      -> suiteRun = "skipped"}

\* Types, and commands run only where one is awaited.
SuiteTypes ==
  /\ suite \in BOOLEAN /\ modules \in {"absent", "half", "whole"} /\ words \in Words
  /\ suiteAt \in Suites
  /\ commandRun \in [at : {"idle", "running", "exited", "killed"}, code : Codes]
  /\ commandRun.at # "idle" => suiteAt \in Commanded
  /\ offered \subseteq {"safe", "unsafe"} /\ started \in {"none", "safe", "unsafe"}
  /\ suiteRun \in {"none", "succeeded", "failed", "skipped"}
  /\ troubles \subseteq {"complaint", "install", "list", "no-target", "documented", "boot",
                         "verify", "execution"}
  /\ lacks \subseteq {"no-suite", "not-runnable", "did-not-pass", "skipped"}

\* The handoff is made of the section, once that is there, and the gaps of the handoff.
SuiteTold ==
  /\ preflight \in Sections
  /\ suiteAt \in Preflights => preflight = Unsaid
  /\ suiteAt \in Preflights \union {"handoff"} => told = Untold
  /\ told \in {Untold, Handoff}
  /\ suiteAt = "done" => lacks = Lacking

\* An installation that ended well is whole, and one that did not is in the findings.
SuiteModules ==
  /\ suiteAt = "preflight" => modules # "half"
  /\ suiteAt \in {"install", "documented"} /\ commandRun.at = "exited"
       /\ commandRun.code = "zero" => modules = "whole"
  /\ modules = "half" =>
       \/ suiteAt \in {"install", "documented"} /\ commandRun.at # "idle"
       \/ suiteAt = "thrown" \/ troubles \intersect {"install", "documented"} # {}

\* Nothing is said against the suite only if its tests were listed.
SuiteComplaint ==
  /\ suiteAt \in Preflights => "complaint" \in troubles
  /\ "complaint" \notin troubles => preflight = Listing([code |-> "zero", late |-> FALSE])

\* A start command that is unsafe was picked for want of a safe one.
SafeStart == started = "unsafe" => "safe" \notin offered

\* The invariant of one suite.
SuiteInv == SuiteTypes /\ SuiteTold /\ SuiteModules /\ SuiteComplaint /\ SafeStart

\* The fields that are read with a default.
LEMMA SaidFields ==
  /\ DOMAIN Unsaid = {"detected", "runnable", "passed", "status", "code", "late", "command"}
  /\ \A w \in Words : DOMAIN w = {"title", "detected", "runnable", "passed", "status", "commands"}
BY DEF Unsaid, Words

\* The handoff's data, field by field.
LEMMA SuiteDataIs ==
  ASSUME words \in Words
  PROVE  /\ SuiteData.passed = IF words.title = "plan" /\ preflight.passed # "unsaid"
                               THEN preflight.passed ELSE words.passed
         /\ SuiteData.status = IF words.title = "plan" /\ preflight.status # "unsaid"
                               THEN preflight.status ELSE words.status
         /\ SuiteData.code = IF words.title = "plan" THEN preflight.code ELSE "unsaid"
         /\ SuiteData.late = IF words.title = "plan" THEN preflight.late ELSE "unsaid"
<1>1. /\ OwnWords.passed = words.passed /\ OwnWords.status = words.status
      /\ OwnWords.code = "unsaid" /\ OwnWords.late = "unsaid"
  BY SaidFields DEF OwnWords
<1>2. \A f \in DOMAIN Unsaid :
        SuiteData[f] = IF words.title = "plan" /\ preflight[f] # "unsaid" THEN preflight[f]
                       ELSE OwnWords[f]
  BY DEF SuiteData
<1>3. {"passed", "status", "code", "late"} \subseteq DOMAIN Unsaid
  BY SaidFields
<1> QED BY <1>1, <1>2, <1>3

\* What a section says of passing, and when.
LEMMA SectionsSay ==
  ASSUME preflight \in Sections
  PROVE  /\ preflight.passed \in {"unsaid", "no"} /\ preflight.status \in {"unsaid", "blocked"}
         /\ preflight.code = "zero" => preflight.late = "yes"
         /\ preflight.status = "blocked" => preflight.passed = "no"
<1>1. CASE preflight \in {Unsaid, NotFound}
  BY <1>1 DEF Unsaid, NotFound
<1>2. ASSUME NEW r \in Results, ~ Worked(r), preflight = InstallFailed(r)
      PROVE  /\ preflight.passed = "unsaid" /\ preflight.status = "unsaid"
             /\ preflight.code = "zero" => preflight.late = "yes"
  BY <1>2 DEF InstallFailed, Unsaid, Late, ReadCode, Worked, Results, Codes
<1>3. ASSUME NEW r \in Results, preflight = Listing(r)
      PROVE  /\ preflight.passed \in {"unsaid", "no"} /\ preflight.status \in {"unsaid", "blocked"}
             /\ preflight.status = "blocked" => preflight.passed = "no"
             /\ preflight.code # "zero"
  BY <1>3 DEF Listing, Unsaid, ReadCode, Results, Codes
<1> QED BY <1>1, <1>2, <1>3 DEF Sections

\* Whom the handoff believes that the suite passed.
LEMMA PassedIsClaimed ==
  ASSUME words \in Words, preflight \in Sections
  PROVE  /\ Handoff.passed => words.passed = "yes" \/ HeldInstall
         /\ Handoff.status = "passed" => ClaimedPassed \/ HeldInstall
         /\ words.title = "plan" /\ preflight.status = "blocked" =>
              Handoff.status = "blocked" /\ ~ Handoff.passed
<1> DEFINE d == SuiteData
<1>1. /\ Handoff.passed = IsPassed(d) /\ Handoff.status = SuiteStatus(d)
  BY DEF Handoff
<1> HIDE DEF d
<1>2. IsPassed(d) => words.passed = "yes" \/ HeldInstall
  BY SuiteDataIs, SectionsSay DEF IsPassed, SaidOr, HeldInstall, d
<1>3. SuiteStatus(d) = "passed" => d.status = "passed" \/ IsPassed(d)
  BY DEF SuiteStatus
<1>4. d.status = "passed" => words.status = "passed"
  BY SuiteDataIs, SectionsSay DEF d
<1>5. ASSUME words.title = "plan", preflight.status = "blocked"
      PROVE  SuiteStatus(d) = "blocked" /\ ~ IsPassed(d)
  <2>1. d.status = "blocked" /\ d.passed = "no"
    BY <1>5, SuiteDataIs, SectionsSay DEF d
  <2> QED BY <2>1 DEF SuiteStatus, IsPassed, SaidOr
<1> QED BY <1>1, <1>2, <1>3, <1>4, <1>5 DEF ClaimedPassed

\* Nothing that is unsafe scores as high as anything safe.
LEMMA PointsBounds ==
  ASSUME NEW c \in StartCommands
  PROVE  Points(c) \in Int /\ Points(c) >= -10 /\ Points(c) <= 235
<1> DEFINE a == CASE c.source = "target" -> 20 [] c.source = "fallback" -> 15 [] OTHER -> 0
           b == CASE c.url = "inferred" -> 100 [] c.url = "base" -> 20 [] OTHER -> 0
           w == IF c.web THEN 20 ELSE 0
           f == IF c.framework THEN 10 ELSE 0
           s == CASE c.script = "speclens:start" -> 80 [] c.script = "serve" -> 72
                  [] c.script = "other" -> -10 [] OTHER -> 0
           r == IF c.root THEN 5 ELSE 0
<1>1. /\ c.source \in {"target", "start-command", "fallback"} /\ c.url \in {"none", "base", "inferred"}
      /\ c.script \in {"none", "speclens:start", "serve", "other"}
  BY DEF StartCommands
<1>2. a \in {0, 15, 20}
  BY <1>1
<1>3. b \in {0, 20, 100}
  BY <1>1
<1>4. w \in {0, 20} /\ f \in {0, 10} /\ r \in {0, 5}
  OBVIOUS
<1>5. s \in {80, 72, -10, 0}
  BY <1>1
<1>6. Points(c) = a + b + w + f + s + r
  BY DEF Points
<1> HIDE DEF a, b, w, f, s, r
<1> QED BY <1>2, <1>3, <1>4, <1>5, <1>6

\* The start command with the highest score is safe if a safe one was offered.
LEMMA SafeIsChosen ==
  ASSUME NEW cs \in SUBSET StartCommands, "unsafe" \in Chosen(cs)
  PROVE  "safe" \notin {Class(c) : c \in cs}
<1>1. PICK c \in cs : Class(c) = "unsafe" /\ \A e \in cs : RuntimeScore(e) =< RuntimeScore(c)
  BY DEF Chosen
<1>2. RuntimeScore(c) = Points(c) - 250
  BY <1>1 DEF Class, RuntimeScore, Penalty_Unsafe
<1>3. ASSUME NEW e \in cs, Class(e) = "safe" PROVE FALSE
  <2>1. RuntimeScore(e) = Points(e)
    BY <1>3 DEF Class, RuntimeScore
  <2> QED BY <1>1, <1>2, <2>1, PointsBounds
<1> QED BY <1>3

\* What is offered are start commands, and the choice among them is a safe one if there is one.
LEMMA OffersAreCommands ==
  ASSUME NEW cs \in Offers \ {{}}, NEW x \in Chosen(cs)
  PROVE  x \in {"safe", "unsafe"} /\ {Class(c) : c \in cs} \subseteq {"safe", "unsafe"}
         /\ (x = "unsafe" => "safe" \notin {Class(c) : c \in cs})
<1>1. x \in {"safe", "unsafe"} /\ {Class(c) : c \in cs} \subseteq {"safe", "unsafe"}
  BY DEF Chosen, Class
<1>2. cs \in SUBSET StartCommands
  <2>1. \E c \in StartCommands : ~ c.unsafe
    <3>1. [source |-> "target", url |-> "none", web |-> FALSE, framework |-> FALSE,
           script |-> "none", root |-> FALSE, unsafe |-> FALSE] \in StartCommands
      BY DEF StartCommands
    <3> QED BY <3>1
  <2>2. (CHOOSE c \in StartCommands : ~ c.unsafe) \in StartCommands
    BY <2>1
  <2> DEFINE one == {CHOOSE c \in StartCommands : ~ c.unsafe}
  <2>3. one \in SUBSET StartCommands
    BY <2>2
  <2>4. cs = one \/ cs \in Pairs \/ cs \in Single
    BY DEF Offers
  <2> HIDE DEF one
  <2>5. \A ds \in Pairs : ds \in SUBSET StartCommands
    BY DEF Pairs
  <2>6. \A ds \in Single : ds \in SUBSET StartCommands
    BY DEF Single
  <2> QED BY <2>3, <2>4, <2>5, <2>6
<1> QED BY <1>1, <1>2, SafeIsChosen

\* At first nothing is said and nothing runs.
LEMMA SuiteBegins == ReadinessInit => SuiteInv
BY DEF ReadinessInit, SuiteInv, SuiteTypes, SuiteTold, SuiteModules, SuiteComplaint, SafeStart,
       Sections, Preflights, Commanded, Suites, NoCommand, Codes

\* Handoff and gaps are made of what does not change any more.
LEMMA SameHandoff ==
  ASSUME UNCHANGED <<suite, words, preflight>> PROVE Handoff' = Handoff
BY DEF Handoff, SuiteData, OwnWords, IsDetected, IsRunnable, IsPassed, SuiteStatus, SaidOr

\* The commands themselves.
LEMMA CommandsKeep ==
  ASSUME SuiteInv,
         FillModules \/ CommandTimesOut \/ CommandThrows \/ \E code \in Codes : ShellExits(code)
  PROVE  SuiteInv'
<1> USE DEF SuiteInv, SuiteTypes, Preflights, Commanded, Suites
<1>1. ASSUME FillModules PROVE SuiteInv'
  <2>1. Handoff' = Handoff
    BY <1>1, SameHandoff DEF FillModules
  <2>2. SuiteTypes'
    BY <1>1 DEF FillModules
  <2>3. SuiteTold'
    BY <1>1, <2>1 DEF FillModules, SuiteTold, Lacking
  <2>4. SuiteModules'
    BY <1>1 DEF FillModules, Installing, SuiteModules
  <2>5. SuiteComplaint' /\ SafeStart'
    BY <1>1 DEF FillModules, SuiteComplaint, SafeStart
  <2> QED BY <2>2, <2>3, <2>4, <2>5
<1>2. ASSUME CommandTimesOut PROVE SuiteInv'
  <2>1. Handoff' = Handoff
    BY <1>2, SameHandoff DEF CommandTimesOut
  <2>2. SuiteTypes'
    BY <1>2 DEF CommandTimesOut
  <2>3. SuiteTold'
    BY <1>2, <2>1 DEF CommandTimesOut, SuiteTold, Lacking
  <2>4. SuiteModules'
    BY <1>2 DEF CommandTimesOut, SuiteModules
  <2>5. SuiteComplaint' /\ SafeStart'
    BY <1>2 DEF CommandTimesOut, SuiteComplaint, SafeStart
  <2> QED BY <2>2, <2>3, <2>4, <2>5
<1>3. ASSUME CommandThrows PROVE SuiteInv'
  <2>1. Handoff' = Handoff
    BY <1>3, SameHandoff DEF CommandThrows
  <2>2. SuiteTypes'
    BY <1>3 DEF CommandThrows, NoCommand, Codes
  <2>3. SuiteTold'
    BY <1>3, <2>1 DEF CommandThrows, SuiteTold, Lacking
  <2>4. SuiteModules'
    BY <1>3 DEF CommandThrows, NoCommand, SuiteModules
  <2>5. SuiteComplaint' /\ SafeStart'
    BY <1>3 DEF CommandThrows, SuiteComplaint, SafeStart
  <2> QED BY <2>2, <2>3, <2>4, <2>5
<1>4. ASSUME NEW code \in Codes, ShellExits(code) PROVE SuiteInv'
  <2>1. Handoff' = Handoff
    BY <1>4, SameHandoff DEF ShellExits
  <2>2. SuiteTypes'
    BY <1>4 DEF ShellExits
  <2>3. SuiteTold'
    BY <1>4, <2>1 DEF ShellExits, SuiteTold, Lacking
  <2>4. SuiteModules'
    BY <1>4 DEF ShellExits, Installing, SuiteModules
  <2>5. SuiteComplaint' /\ SafeStart'
    BY <1>4 DEF ShellExits, SuiteComplaint, SafeStart
  <2> QED BY <2>2, <2>3, <2>4, <2>5
<1> QED BY <1>1, <1>2, <1>3, <1>4

\* The worker's preflight.
LEMMA PreflightKeeps ==
  ASSUME SuiteInv, BeginPreflight \/ \E r \in Results : EndInstall(r) \/ EndListing(r)
  PROVE  SuiteInv'
<1> USE DEF SuiteInv, SuiteTypes, Preflights, Commanded, Suites
<1>1. ASSUME BeginPreflight PROVE SuiteInv'
  <2>1. SuiteTypes'
    BY <1>1 DEF BeginPreflight, Launched, Codes
  <2>2. SuiteTold'
    BY <1>1 DEF BeginPreflight, SuiteTold, Sections
  <2>3. SuiteModules'
    BY <1>1 DEF BeginPreflight, SuiteModules, Launched
  <2>4. SuiteComplaint' /\ SafeStart'
    BY <1>1 DEF BeginPreflight, SuiteComplaint, SafeStart
  <2> QED BY <2>1, <2>2, <2>3, <2>4
<1>2. ASSUME NEW r \in Results, EndInstall(r) PROVE SuiteInv'
  <2>1. SuiteTypes'
    <3>1. \/ suiteAt' = "list" /\ commandRun' = Launched /\ UNCHANGED troubles
          \/ /\ suiteAt' = "handoff" /\ commandRun' = NoCommand
             /\ troubles' = troubles \union {"install"}
      BY <1>2, Zenon DEF EndInstall
    <3>2. UNCHANGED <<suite, modules, words, offered, started, suiteRun, lacks>>
      BY <1>2, Zenon DEF EndInstall
    <3>3. /\ Launched \in [at : {"idle", "running", "exited", "killed"}, code : Codes]
          /\ NoCommand \in [at : {"idle", "running", "exited", "killed"}, code : Codes]
          /\ NoCommand.at = "idle"
      BY DEF Launched, NoCommand, Codes
    <3>4. /\ suiteAt' \in Suites
          /\ commandRun' \in [at : {"idle", "running", "exited", "killed"}, code : Codes]
          /\ commandRun'.at # "idle" => suiteAt' \in Commanded
      BY <3>1, <3>3
    <3>5. troubles' \subseteq {"complaint", "install", "list", "no-target", "documented", "boot",
                              "verify", "execution"}
      BY <3>1
    <3> QED BY <3>2, <3>4, <3>5
  <2>2. SuiteTold'
    BY <1>2 DEF EndInstall, SuiteTold, Sections
  <2>3. SuiteModules'
    <3>1. Worked(r) => modules = "whole"
      BY <1>2 DEF EndInstall, Comes, Worked, SuiteModules
    <3> QED BY <1>2, <3>1 DEF EndInstall, SuiteModules, NoCommand, Launched
  <2>4. SuiteComplaint' /\ SafeStart'
    BY <1>2 DEF EndInstall, SuiteComplaint, SafeStart
  <2> QED BY <2>1, <2>2, <2>3, <2>4
<1>3. ASSUME NEW r \in Results, EndListing(r) PROVE SuiteInv'
  <2>1. SuiteTypes'
    BY <1>3 DEF EndListing, NoCommand, Codes
  <2>2. SuiteTold'
    BY <1>3 DEF EndListing, SuiteTold, Sections
  <2>3. SuiteModules'
    BY <1>3 DEF EndListing, SuiteModules, NoCommand
  <2>4. SuiteComplaint'
    <3>1. Worked(r) => r = [code |-> "zero", late |-> FALSE]
      BY DEF Worked, Results
    <3> QED BY <1>3, <3>1 DEF EndListing, SuiteComplaint
  <2>5. SafeStart'
    BY <1>3 DEF EndListing, SafeStart
  <2> QED BY <2>1, <2>2, <2>3, <2>4, <2>5
<1> QED BY <1>1, <1>2, <1>3

\* The handoff and its execution.
LEMMA HandoffKeeps ==
  ASSUME SuiteInv,
         \/ WriteHandoff \/ NoTarget \/ BootFails \/ Boots \/ FindGaps
         \/ \E documented \in BOOLEAN : ResolveTarget(documented)
         \/ \E r \in Results : EndDocumented(r) \/ EndVerification(r)
  PROVE  SuiteInv'
<1> USE DEF SuiteInv, SuiteTypes, Preflights, Commanded, Suites
<1>1. ASSUME WriteHandoff PROVE SuiteInv'
  <2>1. Handoff' = Handoff /\ told' = Handoff
    BY <1>1, SameHandoff DEF WriteHandoff, Handoff
  <2>2. SuiteTypes'
    BY <1>1 DEF WriteHandoff
  <2>3. SuiteTold'
    BY <1>1, <2>1 DEF WriteHandoff, SuiteTold
  <2>4. SuiteModules'
    BY <1>1 DEF WriteHandoff, SuiteModules
  <2>5. SuiteComplaint' /\ SafeStart'
    BY <1>1 DEF WriteHandoff, SuiteComplaint, SafeStart
  <2> QED BY <2>2, <2>3, <2>4, <2>5
<1>2. ASSUME NoTarget PROVE SuiteInv'
  <2>1. Handoff' = Handoff
    BY <1>2, SameHandoff DEF NoTarget
  <2>2. SuiteTypes'
    BY <1>2 DEF NoTarget
  <2>3. SuiteTold'
    BY <1>2, <2>1 DEF NoTarget, SuiteTold
  <2>4. SuiteModules'
    BY <1>2 DEF NoTarget, SuiteModules
  <2>5. SuiteComplaint' /\ SafeStart'
    BY <1>2 DEF NoTarget, SuiteComplaint, SafeStart
  <2> QED BY <2>2, <2>3, <2>4, <2>5
<1>3. ASSUME BootFails PROVE SuiteInv'
  <2>1. Handoff' = Handoff
    BY <1>3, SameHandoff DEF BootFails
  <2>2. SuiteTypes'
    BY <1>3 DEF BootFails
  <2>3. SuiteTold'
    BY <1>3, <2>1 DEF BootFails, SuiteTold
  <2>4. SuiteModules'
    BY <1>3 DEF BootFails, SuiteModules
  <2>5. SuiteComplaint' /\ SafeStart'
    BY <1>3 DEF BootFails, SuiteComplaint, SafeStart
  <2> QED BY <2>2, <2>3, <2>4, <2>5
<1>4. ASSUME Boots PROVE SuiteInv'
  <2>1. Handoff' = Handoff
    BY <1>4, SameHandoff DEF Boots
  <2>2. SuiteTypes'
    BY <1>4 DEF Boots, Launched, Codes
  <2>3. SuiteTold'
    BY <1>4, <2>1 DEF Boots, SuiteTold
  <2>4. SuiteModules'
    BY <1>4 DEF Boots, SuiteModules, Launched
  <2>5. SuiteComplaint' /\ SafeStart'
    BY <1>4 DEF Boots, SuiteComplaint, SafeStart
  <2> QED BY <2>2, <2>3, <2>4, <2>5
<1>5. ASSUME FindGaps PROVE SuiteInv'
  <2>1. Handoff' = Handoff
    BY <1>5, SameHandoff DEF FindGaps
  <2>2. lacks' = Lacking /\ Lacking' = Lacking
    BY <1>5 DEF FindGaps, Lacking
  <2>3. SuiteTypes'
    BY <1>5 DEF FindGaps
  <2>4. SuiteTold'
    BY <1>5, <2>1, <2>2 DEF FindGaps, SuiteTold
  <2>5. SuiteModules'
    BY <1>5 DEF FindGaps, SuiteModules
  <2>6. SuiteComplaint' /\ SafeStart'
    BY <1>5 DEF FindGaps, SuiteComplaint, SafeStart
  <2> QED BY <2>3, <2>4, <2>5, <2>6
<1>6. ASSUME NEW documented \in BOOLEAN, ResolveTarget(documented) PROVE SuiteInv'
  <2>1. Handoff' = Handoff
    BY <1>6, SameHandoff DEF ResolveTarget
  <2>2. PICK cs \in Offers \ {{}} : offered' = {Class(c) : c \in cs} /\ started' \in Chosen(cs)
    BY <1>6 DEF ResolveTarget
  <2>3. offered' \subseteq {"safe", "unsafe"} /\ started' \in {"safe", "unsafe"} /\ SafeStart'
    BY <2>2, OffersAreCommands DEF SafeStart
  <2>4. SuiteTypes'
    BY <1>6, <2>3 DEF ResolveTarget, Launched, Codes
  <2>5. SuiteTold'
    BY <1>6, <2>1 DEF ResolveTarget, SuiteTold
  <2>6. SuiteModules'
    BY <1>6 DEF ResolveTarget, SuiteModules, Launched
  <2>7. SuiteComplaint'
    BY <1>6 DEF ResolveTarget, SuiteComplaint
  <2> QED BY <2>3, <2>4, <2>5, <2>6, <2>7
<1>7. ASSUME NEW r \in Results, EndDocumented(r) PROVE SuiteInv'
  <2>1. Handoff' = Handoff
    BY <1>7, SameHandoff DEF EndDocumented
  <2>2. SuiteTypes'
    BY <1>7 DEF EndDocumented, NoCommand, Codes
  <2>3. SuiteTold'
    BY <1>7, <2>1 DEF EndDocumented, SuiteTold
  <2>4. SuiteModules'
    <3>1. Worked(r) => modules = "whole"
      BY <1>7 DEF EndDocumented, Comes, Worked, SuiteModules
    <3> QED BY <1>7, <3>1 DEF EndDocumented, SuiteModules, NoCommand
  <2>5. SuiteComplaint' /\ SafeStart'
    BY <1>7 DEF EndDocumented, SuiteComplaint, SafeStart
  <2> QED BY <2>2, <2>3, <2>4, <2>5
<1>8. ASSUME NEW r \in Results, EndVerification(r) PROVE SuiteInv'
  <2>1. Handoff' = Handoff
    BY <1>8, SameHandoff DEF EndVerification
  <2>2. SuiteTypes'
    BY <1>8 DEF EndVerification, NoCommand, Codes
  <2>3. SuiteTold'
    BY <1>8, <2>1 DEF EndVerification, SuiteTold
  <2>4. SuiteModules'
    BY <1>8 DEF EndVerification, SuiteModules, NoCommand
  <2>5. SuiteComplaint' /\ SafeStart'
    BY <1>8 DEF EndVerification, SuiteComplaint, SafeStart
  <2> QED BY <2>2, <2>3, <2>4, <2>5
<1> QED BY <1>1, <1>2, <1>3, <1>4, <1>5, <1>6, <1>7, <1>8

\* Every step of worker and handoff keeps the invariant.
LEMMA NextSuiteInv == SuiteInv /\ [ReadinessNext]_readinessVars => SuiteInv'
<1> SUFFICES ASSUME SuiteInv, [ReadinessNext]_readinessVars PROVE SuiteInv'
  OBVIOUS
<1>1. ASSUME UNCHANGED readinessVars PROVE SuiteInv'
  <2>1. Handoff' = Handoff
    BY <1>1, SameHandoff DEF readinessVars
  <2>2. SuiteTypes' /\ SuiteModules' /\ SuiteComplaint' /\ SafeStart'
    BY <1>1 DEF readinessVars, SuiteInv, SuiteTypes, SuiteModules, SuiteComplaint, SafeStart
  <2>3. SuiteTold'
    BY <1>1, <2>1 DEF readinessVars, SuiteInv, SuiteTold, Lacking
  <2> QED BY <2>2, <2>3 DEF SuiteInv
<1> QED BY <1>1, CommandsKeep, PreflightKeeps, HandoffKeeps DEF ReadinessNext

\* ReadinessType follows from the invariant.
LEMMA SuiteTypeHolds == SuiteInv => ReadinessType
<1> SUFFICES ASSUME SuiteInv PROVE ReadinessType
  OBVIOUS
<1> DEFINE d == SuiteData
<1>1. words \in Words /\ preflight \in Sections /\ told \in {Untold, Handoff}
  BY DEF SuiteInv, SuiteTypes, SuiteTold
<1>2. d.status \in {"unsaid", "passed", "failed", "blocked"}
  BY <1>1, SuiteDataIs, SectionsSay DEF Words
<1>3. Handoff.status = SuiteStatus(d)
  BY DEF Handoff
<1> HIDE DEF d
<1>4. told.status \in {"not-detected", "detected", "runnable", "passed", "failed", "blocked"}
  BY <1>1, <1>2, <1>3 DEF SuiteStatus, Untold
<1> QED BY <1>4 DEF SuiteInv, SuiteTypes, ReadinessType, Suites, Preflights, Commanded

\* So does SuiteIsToldAsItRan.
LEMMA SuiteShows == SuiteInv => SuiteIsToldAsItRan
<1> SUFFICES ASSUME SuiteInv PROVE SuiteIsToldAsItRan
  OBVIOUS
<1> USE DEF SuiteInv
<1>1. words \in Words /\ preflight \in Sections /\ told \in {Untold, Handoff}
  BY DEF SuiteTypes, SuiteTold
<1>2. ~ Untold.passed /\ Untold.status # "passed" /\ ~ Untold.detected
  BY DEF Untold
<1>3. told.passed => words.passed = "yes" \/ HeldInstall
  BY <1>1, <1>2, PassedIsClaimed
<1>4. told.passed \/ told.status = "passed" => ClaimedPassed \/ HeldInstall
  BY <1>1, <1>2, <1>3, PassedIsClaimed DEF ClaimedPassed
<1>5. words.title = "plan" /\ preflight.status = "blocked" /\ told # Untold =>
        told.status = "blocked" /\ ~ told.passed
  BY <1>1, PassedIsClaimed
<1>6. suiteAt = "done" /\ lacks = {} => suiteRun = "succeeded" \/ words.passed = "yes" \/ HeldInstall
  <2> SUFFICES ASSUME Lacking = {}, suiteRun # "succeeded" PROVE told.passed
    BY <1>3 DEF SuiteTold
  <2>1. "no-suite" \notin Lacking /\ "not-runnable" \notin Lacking /\ "did-not-pass" \notin Lacking
    OBVIOUS
  <2>2. told.detected
    BY <2>1 DEF Lacking
  <2>3. told.runnable
    BY <2>1, <2>2 DEF Lacking
  <2> QED BY <2>1, <2>3 DEF Lacking
<1>7. modules = "half" /\ commandRun.at = "idle" /\ suiteAt # "thrown" =>
        troubles \intersect {"install", "documented"} # {}
  BY DEF SuiteModules
<1> QED BY <1>4, <1>5, <1>6, <1>7 DEF SuiteIsToldAsItRan, SuiteComplaint, SafeStart

\* SuiteIsToldAsItRan: a report says that a user's suite passed, or has nothing against it, only
\* where it ran or the role said so, keeps a blocked suite blocked, tells of an installation that
\* broke off, and starts an unsafe command only where no safe one is offered
\* (buildDeterministicStandardizedHandoff).
THEOREM SuitesAreToldAsRun == SuiteSpec => [](ReadinessType /\ SuiteIsToldAsItRan)
<1>1. SuiteSpec => []SuiteInv
  BY SuiteBegins, NextSuiteInv, PTL DEF SuiteSpec
<1> QED BY <1>1, SuiteTypeHolds, SuiteShows, PTL

-----------------------------------------------------------------------------
(* The analysis of the core *)

\* One analysis, whatever is asked for and whatever fails.
CoreSpec == CoreAnalysisInit /\ [][CoreAnalysisNext]_coreAnalysisVars

\* What a section of the report is about.
Entered == (StaticRoles \union BrowserRoles) \X {"ready", "planned", "skipped"}

\* The roles that have a section, and that none has two.
Heads(ns)    == {e[1] : e \in ToSet(ns)}
OnceEach(ns) == \A i, j \in DOMAIN ns : ns[i][1] = ns[j][1] => i = j

\* The roles of the core, static ones and those of the browser.
LEMMA RolesOfCore ==
  /\ StaticRoles \intersect BrowserRoles = {}
  /\ WordedRoles \subseteq StaticRoles \union BrowserRoles
  /\ IsFiniteSet(BrowserRoles) /\ "none" \notin WordedRoles
<1>1. DOMAIN StaticOrder = 1 .. 10
  BY DEF StaticOrder
<1>2. /\ StaticOrder[1] = "repo-inventory" /\ StaticOrder[2] = "spec-check"
      /\ StaticOrder[3] = "component-inventory" /\ StaticOrder[4] = "ui-text-inventory"
      /\ StaticOrder[5] = "ui-label-scan" /\ StaticOrder[6] = "consistency-check"
      /\ StaticOrder[7] = "license-policy" /\ StaticOrder[8] = "spec-generation"
      /\ StaticOrder[9] = "chaos-advisor" /\ StaticOrder[10] = "results-dashboard"
  BY DEF StaticOrder
<1>3. \A i \in 1 .. 10 : StaticOrder[i] \notin BrowserRoles
  BY <1>2 DEF BrowserRoles
<1>4. StaticRoles = {StaticOrder[i] : i \in 1 .. 10}
  BY <1>1 DEF StaticRoles, ToSet
<1>5. StaticRoles \intersect BrowserRoles = {}
  BY <1>3, <1>4
<1>6. StaticOrder[8] \in StaticRoles /\ StaticOrder[9] \in StaticRoles
  BY <1>4
<1>7. WordedRoles \subseteq StaticRoles \union BrowserRoles
  BY <1>2, <1>6 DEF WordedRoles, BrowserRoles
<1>8. IsFiniteSet(BrowserRoles)
  <2>1. IsFiniteSet({"browser-self-check"})
    BY FS_Singleton
  <2>2. IsFiniteSet({"browser-self-check"} \cup {"visual-inspection"})
    BY <2>1, FS_AddElement
  <2>3. IsFiniteSet({"browser-self-check"} \cup {"visual-inspection"} \cup {"interaction-test"})
    BY <2>2, FS_AddElement
  <2>4. BrowserRoles = {"browser-self-check"} \cup {"visual-inspection"} \cup {"interaction-test"}
    BY DEF BrowserRoles
  <2> QED BY <2>3, <2>4
<1> QED BY <1>5, <1>7, <1>8 DEF WordedRoles

\* A finite set as a sequence has each element once.
LEMMA SetAsSeq ==
  ASSUME NEW S, IsFiniteSet(S)
  PROVE  /\ SetToSeq(S) \in Seq(S) /\ ToSet(SetToSeq(S)) = S
         /\ \A i, j \in DOMAIN SetToSeq(S) : SetToSeq(S)[i] = SetToSeq(S)[j] => i = j
<1> DEFINE n == Cardinality(S)
           f == SetToSeq(S)
<1>1. n \in Nat /\ ExistsBijection(1 .. n, S)
  BY FS_CardinalityType
<1>2. \E g \in [1 .. n -> S] : IsInjective(g)
  BY <1>1 DEF ExistsBijection, Bijection, Injection
<1>3. f \in [1 .. n -> S] /\ IsInjective(f)
  BY <1>2 DEF SetToSeq
<1> HIDE DEF f
<1>4. f \in Surjection(1 .. n, S)
  <2>1. f \in Injection(1 .. n, S)
    BY <1>3 DEF Injection
  <2>2. Cardinality(1 .. n) = n
    BY <1>1, FS_Interval
  <2> QED BY <2>1, <2>2, FS_Injection
<1>5. \A t \in S : \E s \in 1 .. n : f[s] = t
  BY <1>4 DEF Surjection
<1>6. DOMAIN f = 1 .. n
  BY <1>3
<1>7. f \in Seq(S)
  BY <1>1, <1>3
<1>8. ToSet(f) = S
  BY <1>3, <1>5, <1>6 DEF ToSet
<1>9. \A i, j \in DOMAIN f : f[i] = f[j] => i = j
  BY <1>3 DEF IsInjective
<1> QED BY <1>7, <1>8, <1>9 DEF f

\* Sections put behind others.
LEMMA Appended ==
  ASSUME NEW S, NEW m \in Seq(S), NEW e \in S
  PROVE  /\ Append(m, e) \in Seq(S) /\ ToSet(Append(m, e)) = ToSet(m) \union {e}
         /\ Len(Append(m, e)) = Len(m) + 1
         /\ DOMAIN Append(m, e) = 1 .. Len(m) + 1 /\ DOMAIN m = 1 .. Len(m) /\ Len(m) \in Nat
         /\ \A i \in 1 .. Len(m) : Append(m, e)[i] = m[i]
         /\ Append(m, e)[Len(m) + 1] = e
<1> DEFINE a == Append(m, e)
<1>1. /\ a \in Seq(S) /\ Len(a) = Len(m) + 1
      /\ \A i \in 1 .. Len(m) : a[i] = m[i]
      /\ a[Len(m) + 1] = e
  BY AppendProperties
<1>2. Len(m) \in Nat /\ DOMAIN m = 1 .. Len(m)
  BY LenProperties
<1>3. DOMAIN a = 1 .. Len(m) + 1
  BY <1>1, LenProperties
<1> HIDE DEF a
<1>4. ToSet(a) = ToSet(m) \union {e}
  <2>1. ToSet(a) = {a[i] : i \in 1 .. Len(m) + 1} /\ ToSet(m) = {m[i] : i \in 1 .. Len(m)}
    BY <1>2, <1>3 DEF ToSet
  <2>2. \A i \in 1 .. Len(m) + 1 : i \in 1 .. Len(m) \/ i = Len(m) + 1
    BY <1>2
  <2>3. \A i \in 1 .. Len(m) : i \in 1 .. Len(m) + 1
    BY <1>2
  <2>4. Len(m) + 1 \in 1 .. Len(m) + 1
    BY <1>2
  <2> QED BY <1>1, <2>1, <2>2, <2>3, <2>4
<1> QED BY <1>1, <1>2, <1>3, <1>4 DEF a

\* The elements of two sequences are those of their concatenation.
LEMMA Concatenated ==
  ASSUME NEW S, NEW m \in Seq(S), NEW k \in Seq(S)
  PROVE  /\ m \o k \in Seq(S) /\ ToSet(m \o k) = ToSet(m) \union ToSet(k)
         /\ DOMAIN (m \o k) = 1 .. Len(m) + Len(k)
         /\ DOMAIN m = 1 .. Len(m) /\ Len(m) \in Nat /\ DOMAIN k = 1 .. Len(k) /\ Len(k) \in Nat
         /\ \A i \in 1 .. Len(m) : (m \o k)[i] = m[i]
         /\ \A i \in 1 .. Len(m) + Len(k) : i > Len(m) => (m \o k)[i] = k[i - Len(m)]
<1> DEFINE c == m \o k
<1>1. /\ c \in Seq(S) /\ Len(c) = Len(m) + Len(k)
      /\ \A i \in 1 .. Len(m) + Len(k) : c[i] = IF i <= Len(m) THEN m[i] ELSE k[i - Len(m)]
  BY ConcatProperties
<1>2. DOMAIN m = 1 .. Len(m) /\ Len(m) \in Nat /\ DOMAIN k = 1 .. Len(k) /\ Len(k) \in Nat
  BY LenProperties
<1>3. DOMAIN c = 1 .. Len(m) + Len(k)
  BY <1>1, LenProperties
<1> HIDE DEF c
<1>4. \A i \in 1 .. Len(m) : c[i] = m[i]
  BY <1>1, <1>2
<1>5. \A i \in 1 .. Len(m) + Len(k) : i > Len(m) => c[i] = k[i - Len(m)]
  BY <1>1, <1>2
<1>6. ToSet(c) = ToSet(m) \union ToSet(k)
  <2>1. /\ ToSet(c) = {c[i] : i \in 1 .. Len(m) + Len(k)} /\ ToSet(m) = {m[i] : i \in 1 .. Len(m)}
        /\ ToSet(k) = {k[i] : i \in 1 .. Len(k)}
    BY <1>2, <1>3 DEF ToSet
  <2>2. ASSUME NEW x \in ToSet(c) PROVE x \in ToSet(m) \union ToSet(k)
    <3>1. PICK i \in 1 .. Len(m) + Len(k) : x = c[i]
      BY <2>1
    <3>2. CASE i \in 1 .. Len(m)
      BY <1>4, <2>1, <3>1, <3>2
    <3>3. CASE i > Len(m)
      <4>1. i - Len(m) \in 1 .. Len(k)
        BY <1>2, <3>3
      <4> QED BY <1>5, <2>1, <3>1, <3>3, <4>1
    <3> QED BY <1>2, <3>2, <3>3
  <2>3. ASSUME NEW x \in ToSet(m) PROVE x \in ToSet(c)
    <3>1. PICK i \in 1 .. Len(m) : x = m[i]
      BY <2>1
    <3>2. i \in 1 .. Len(m) + Len(k)
      BY <1>2
    <3> QED BY <1>4, <2>1, <3>1, <3>2
  <2>4. ASSUME NEW x \in ToSet(k) PROVE x \in ToSet(c)
    <3>1. PICK i \in 1 .. Len(k) : x = k[i]
      BY <2>1
    <3> DEFINE j == i + Len(m)
    <3>2. j \in 1 .. Len(m) + Len(k) /\ j > Len(m) /\ j - Len(m) = i
      BY <1>2
    <3> HIDE DEF j
    <3> QED BY <1>5, <2>1, <3>1, <3>2
  <2> QED BY <2>2, <2>3, <2>4
<1> QED BY <1>1, <1>2, <1>3, <1>4, <1>5, <1>6 DEF c

\* A section for a role that has none.
LEMMA OneMoreSection ==
  ASSUME NEW m \in Seq(Entered), OnceEach(m), NEW e \in Entered, e[1] \notin Heads(m)
  PROVE  /\ Append(m, e) \in Seq(Entered) /\ OnceEach(Append(m, e))
         /\ Heads(Append(m, e)) = Heads(m) \union {e[1]} /\ ToSet(Append(m, e)) = ToSet(m) \union {e}
<1> DEFINE a == Append(m, e)
<1>1. /\ a \in Seq(Entered) /\ ToSet(a) = ToSet(m) \union {e} /\ DOMAIN a = 1 .. Len(m) + 1
      /\ DOMAIN m = 1 .. Len(m) /\ Len(m) \in Nat
      /\ \A i \in 1 .. Len(m) : a[i] = m[i]
      /\ a[Len(m) + 1] = e
  BY Appended
<1> HIDE DEF a
<1>2. Heads(a) = Heads(m) \union {e[1]}
  BY <1>1 DEF Heads
<1>3. \A i \in 1 .. Len(m) : m[i][1] \in Heads(m)
  BY <1>1 DEF Heads, ToSet
<1>4. ASSUME NEW i \in DOMAIN a, NEW j \in DOMAIN a, a[i][1] = a[j][1] PROVE i = j
  <2>1. (i \in 1 .. Len(m) \/ i = Len(m) + 1) /\ (j \in 1 .. Len(m) \/ j = Len(m) + 1)
    BY <1>1
  <2>2. CASE i \in 1 .. Len(m) /\ j \in 1 .. Len(m)
    BY <1>1, <1>4, <2>2 DEF OnceEach
  <2>3. CASE i \in 1 .. Len(m) /\ j = Len(m) + 1
    BY <1>1, <1>3, <1>4, <2>3
  <2>4. CASE i = Len(m) + 1 /\ j \in 1 .. Len(m)
    BY <1>1, <1>3, <1>4, <2>4
  <2> QED BY <2>1, <2>2, <2>3, <2>4
<1>5. OnceEach(a)
  BY <1>4 DEF OnceEach
<1> QED BY <1>1, <1>2, <1>5 DEF a

\* Sections for several roles that have none.
LEMMA MoreSections ==
  ASSUME NEW m \in Seq(Entered), OnceEach(m), NEW k \in Seq(Entered), OnceEach(k),
         Heads(m) \intersect Heads(k) = {}
  PROVE  /\ m \o k \in Seq(Entered) /\ OnceEach(m \o k)
         /\ Heads(m \o k) = Heads(m) \union Heads(k) /\ ToSet(m \o k) = ToSet(m) \union ToSet(k)
<1> DEFINE c == m \o k
<1>1. /\ c \in Seq(Entered) /\ ToSet(c) = ToSet(m) \union ToSet(k)
      /\ DOMAIN c = 1 .. Len(m) + Len(k)
      /\ DOMAIN m = 1 .. Len(m) /\ Len(m) \in Nat /\ DOMAIN k = 1 .. Len(k) /\ Len(k) \in Nat
      /\ \A i \in 1 .. Len(m) : c[i] = m[i]
      /\ \A i \in 1 .. Len(m) + Len(k) : i > Len(m) => c[i] = k[i - Len(m)]
  BY Concatenated
<1> HIDE DEF c
<1>2. Heads(c) = Heads(m) \union Heads(k)
  BY <1>1 DEF Heads
<1>3. ASSUME NEW i \in DOMAIN c
      PROVE  \/ i \in 1 .. Len(m) /\ c[i] = m[i] /\ c[i][1] \in Heads(m)
             \/ i > Len(m) /\ i - Len(m) \in 1 .. Len(k) /\ c[i] = k[i - Len(m)] /\ c[i][1] \in Heads(k)
  <2>1. i \in 1 .. Len(m) + Len(k) /\ i \in Int
    BY <1>1
  <2>2. CASE i \in 1 .. Len(m)
    BY <1>1, <2>2 DEF Heads, ToSet
  <2>3. CASE i > Len(m)
    <3>1. i - Len(m) \in 1 .. Len(k)
      BY <1>1, <2>1, <2>3
    <3>2. c[i] = k[i - Len(m)]
      BY <1>1, <2>1, <2>3
    <3>3. c[i][1] \in Heads(k)
      BY <1>1, <3>1, <3>2 DEF Heads, ToSet
    <3> QED BY <2>3, <3>1, <3>2, <3>3
  <2> QED BY <1>1, <2>1, <2>2, <2>3
<1>4. ASSUME NEW i \in DOMAIN c, NEW j \in DOMAIN c, c[i][1] = c[j][1] PROVE i = j
  <2>1. CASE i \in 1 .. Len(m) /\ j \in 1 .. Len(m) /\ c[i] = m[i] /\ c[j] = m[j]
    BY <1>1, <1>4, <2>1 DEF OnceEach
  <2>2. CASE /\ i > Len(m) /\ i - Len(m) \in 1 .. Len(k) /\ c[i] = k[i - Len(m)]
             /\ j > Len(m) /\ j - Len(m) \in 1 .. Len(k) /\ c[j] = k[j - Len(m)]
    <3>1. i - Len(m) = j - Len(m)
      BY <1>1, <1>4, <2>2 DEF OnceEach
    <3>2. i \in Int /\ j \in Int
      BY <1>1
    <3> QED BY <1>1, <3>1, <3>2
  <2>3. ~ (c[i][1] \in Heads(m) /\ c[j][1] \in Heads(k)) /\ ~ (c[i][1] \in Heads(k) /\ c[j][1] \in Heads(m))
    BY <1>4
  <2> QED BY <1>3, <2>1, <2>2, <2>3
<1>5. OnceEach(c)
  BY <1>4 DEF OnceEach
<1> QED BY <1>1, <1>2, <1>5 DEF c

\* A section for each of some browser roles.
LEMMA SectionEach ==
  ASSUME NEW T \in SUBSET Entered, \A e \in T : e[1] \in BrowserRoles,
         \A d, e \in T : d[1] = e[1] => d = e
  PROVE  /\ SetToSeq(T) \in Seq(Entered) /\ OnceEach(SetToSeq(T))
         /\ ToSet(SetToSeq(T)) = T /\ Heads(SetToSeq(T)) = {e[1] : e \in T}
<1> DEFINE k == SetToSeq(T)
           states == {"ready"} \cup {"planned"} \cup {"skipped"}
<1>1. IsFiniteSet(T)
  <2>1. IsFiniteSet(states)
    <3>1. IsFiniteSet({"ready"})
      BY FS_Singleton
    <3>2. IsFiniteSet({"ready"} \cup {"planned"})
      BY <3>1, FS_AddElement
    <3> QED BY <3>2, FS_AddElement
  <2>2. IsFiniteSet(BrowserRoles \X states)
    BY <2>1, RolesOfCore, FS_Product
  <2>3. T \subseteq BrowserRoles \X states
    BY DEF Entered
  <2> QED BY <2>2, <2>3, FS_Subset
<1>2. k \in Seq(T) /\ ToSet(k) = T /\ \A i, j \in DOMAIN k : k[i] = k[j] => i = j
  BY <1>1, SetAsSeq
<1> HIDE DEF k
<1>3. k \in Seq(Entered)
  BY <1>2, SeqMonotonic
<1>4. \A i \in DOMAIN k : k[i] \in T
  BY <1>2 DEF ToSet
<1>5. OnceEach(k)
  BY <1>2, <1>4 DEF OnceEach
<1>6. Heads(k) = {e[1] : e \in T}
  BY <1>2 DEF Heads
<1> QED BY <1>2, <1>3, <1>5, <1>6 DEF k

\* The static roles of the analysis, and the steps of the browser roles before their sections
\* are written.
Own      == analysis.roles \intersect StaticRoles
Browsing == {"browser", "install", "wait", "launch", "crawl", "close", "visual", "interaction",
             "sections"}
\* A page, or the word that none opened.
SomethingSeen == crawl.pages # <<>> \/ SelfCheck("navigation") \subseteq found

\* Types.
CoreTypes ==
  /\ analysis.roles \subseteq StaticRoles \union BrowserRoles /\ analysis.limit \in Nat
  /\ at \in {"roles", "asking", "write", "stop", "kill", "report", "thrown"} \union Browsing
  /\ todo \subseteq Own /\ noted \in Seq(Entered)
  /\ budget \in 0 .. analysis.limit /\ worded \in Seq(WordedRoles)
  /\ asking \in [role : WordedRoles \union {"none"}, left : Seq({"api", "cli"}), asked : Nat,
                 again : BOOLEAN]
  /\ Len(asking.left) + asking.asked =< Len(Providers)
  /\ runtime \in [AppProcesses -> {"none", "up", "killed", "gone"}]
  /\ chrome \in {"none", "open", "closed"}
  /\ crawl \in [queue : Seq(Site), visited : SUBSET Site, pages : Seq(Site), exercised : BOOLEAN]

\* A role that asks has no section yet, and is not asked again.
CoreSections ==
  /\ OnceEach(noted)
  /\ at = "roles" => Heads(noted) = Own \ todo
  /\ at = "asking" => asking.role \in WordedRoles
  /\ at = "asking" /\ asking.role \in StaticRoles =>
       asking.role \in Own \ todo /\ Heads(noted) = Own \ (todo \union {asking.role})
  /\ at \in Browsing \/ (at = "asking" /\ asking.role \notin StaticRoles) =>
       analysis.mode = "browser" /\ Heads(noted) = Own
  /\ at \in {"write", "stop", "kill"} => analysis.mode = "browser"
  /\ at \in {"write", "stop", "kill", "report"} => Heads(noted) = OwedSections

\* Nothing is seen before the first page, and something is before a section says so.
CoreSeen ==
  /\ SomethingSeen \/ (crawl.queue = <<Home>> /\ crawl.visited = {})
  /\ at \in {"visual", "interaction", "sections"} => SomethingSeen
  /\ at = "asking" /\ asking.role \notin StaticRoles => SomethingSeen
  /\ (\E e \in ToSet(noted) : e[1] \in BrowserRoles /\ e[2] = "ready") => SomethingSeen

\* The started system and the browser, and when there is none.
CoreProcesses ==
  /\ at \in {"roles", "browser", "install"} \/ (at = "asking" /\ asking.role \in StaticRoles) =>
       runtime = AppAll("none")
  /\ at = "report" => AppAccountedFor
  /\ chrome = "open" => at \in {"launch", "crawl"} \/ SelfCheck("failed") \subseteq found

\* Pages are visited once, and no more of them than the crawl's limit.
CorePages ==
  /\ IsInjective(crawl.pages) /\ Len(crawl.pages) =< MaxCrawled
  /\ ToSet(crawl.pages) \subseteq crawl.visited

\* Every word of a provider is paid from the budget.
CoreBudget == analysis.tracked /\ analysis.limit > 0 => Len(worded) + budget = analysis.limit

\* The invariant of one analysis.
CoreInv ==
  CoreTypes /\ CoreSections /\ CoreSeen /\ CoreProcesses /\ CorePages /\ CoreBudget

\* No section is no role's.
LEMMA EmptySections == Heads(<<>>) = {} /\ OnceEach(<<>>) /\ ToSet(<<>>) = {}
BY DEF Heads, OnceEach, ToSet

\* At first there is no section, and the whole budget.
LEMMA CoreStarts == CoreAnalysisInit => CoreInv
<1> SUFFICES ASSUME CoreAnalysisInit PROVE CoreInv
  OBVIOUS
<1>1. /\ analysis.roles \subseteq StaticRoles \union BrowserRoles /\ analysis.limit \in Nat
      /\ budget = analysis.limit
  <2>1. PICK limit \in Budgets :
          \E call \in NativeCalls \union
                   {WholeRepo(asked, p, mode, allow) :
                      asked \in Asked, p \in DOMAIN PresetRoles,
                      mode \in {"unset", "static", "browser"}, allow \in BOOLEAN} :
         /\ analysis = [limit |-> limit, roles |-> call.roles, mode |-> call.mode,
                        allow |-> call.allow, tracked |-> call.tracked]
         /\ budget = limit
    BY DEF CoreAnalysisInit
  <2>2. PICK call \in NativeCalls \union
                   {WholeRepo(asked, p, mode, allow) :
                      asked \in Asked, p \in DOMAIN PresetRoles,
                      mode \in {"unset", "static", "browser"}, allow \in BOOLEAN} :
         /\ analysis = [limit |-> limit, roles |-> call.roles, mode |-> call.mode,
                        allow |-> call.allow, tracked |-> call.tracked]
         /\ budget = limit
    BY <2>1
  <2>3. CASE call \in NativeCalls
    <3>1. {"repo-inventory", "license-policy", "component-inventory", "ui-label-scan"} \subseteq StaticRoles
      <4>1. /\ StaticOrder[1] = "repo-inventory" /\ StaticOrder[3] = "component-inventory"
            /\ StaticOrder[5] = "ui-label-scan" /\ StaticOrder[7] = "license-policy"
            /\ DOMAIN StaticOrder = 1 .. 10
        BY DEF StaticOrder
      <4> QED BY <4>1 DEF StaticRoles, ToSet
    <3>2. call.roles \subseteq StaticRoles \union BrowserRoles
      BY <2>3, <3>1 DEF NativeCalls, BrowserRoles
    <3> QED BY <2>2, <3>2, CallAssumption
  <2>4. CASE call \notin NativeCalls
    <3>1. PICK asked \in Asked, p \in DOMAIN PresetRoles, mode \in {"unset", "static", "browser"},
               allow \in BOOLEAN : call = WholeRepo(asked, p, mode, allow)
      BY <2>4
    <3>2. PresetRoles[p] \subseteq StaticRoles \union BrowserRoles
      BY DEF PresetRoles
    <3>3. call.roles \subseteq PresetRoles[p]
      BY <3>1 DEF WholeRepo
    <3> QED BY <2>2, <3>2, <3>3, CallAssumption
  <2> QED BY <2>3, <2>4
<1>2. /\ at = "roles" /\ todo = Own /\ noted = <<>> /\ found = {} /\ asking = NoAnswer
      /\ worded = <<>> /\ runtime = AppAll("none") /\ chrome = "none"
      /\ crawl = [queue |-> <<Home>>, visited |-> {}, pages |-> <<>>, exercised |-> FALSE]
  BY DEF CoreAnalysisInit, Own
<1>3. \A S : <<>> \in Seq(S) /\ Len(<<>>) = 0
  OBVIOUS
<1>4. CoreTypes
  <2>1. crawl \in [queue : Seq(Site), visited : SUBSET Site, pages : Seq(Site), exercised : BOOLEAN]
    BY <1>2, SiteAssumption
  <2>2. /\ asking \in [role : WordedRoles \union {"none"}, left : Seq({"api", "cli"}), asked : Nat,
                       again : BOOLEAN]
        /\ Len(asking.left) + asking.asked =< Len(Providers)
    <3>1. Len(Providers) \in Nat
      BY CallAssumption, LenProperties
    <3> QED BY <1>2, <3>1 DEF NoAnswer
  <2>3. budget \in 0 .. analysis.limit
    BY <1>1
  <2>4. runtime \in [AppProcesses -> {"none", "up", "killed", "gone"}]
    BY <1>2 DEF AppAll
  <2> QED BY <1>1, <1>2, <1>3, <2>1, <2>2, <2>3, <2>4 DEF CoreTypes
<1>5. CoreSections
  BY <1>2, EmptySections DEF CoreSections, Browsing
<1>6. CoreSeen /\ CoreProcesses
  BY <1>2, EmptySections DEF CoreSeen, CoreProcesses
<1>7. CorePages
  BY <1>2, <1>3, CallAssumption, EmptySections DEF CorePages, IsInjective
<1>8. CoreBudget
  BY <1>1, <1>2, <1>3 DEF CoreBudget
<1> QED BY <1>4, <1>5, <1>6, <1>7, <1>8 DEF CoreInv

\* Asking takes one request of the budget.
LEMMA AskingCounts ==
  ASSUME CoreInv, MayAsk, NEW r \in WordedRoles, AskProviders(r), UNCHANGED analysis
  PROVE  /\ budget' \in 0 .. analysis.limit /\ worded' \in Seq(WordedRoles) /\ CoreBudget'
         /\ asking' \in [role : WordedRoles \union {"none"}, left : Seq({"api", "cli"}), asked : Nat,
                         again : BOOLEAN]
         /\ Len(asking'.left) + asking'.asked =< Len(Providers)
         /\ asking'.role = r /\ at' = "asking"
<1>1. /\ analysis.limit \in Nat /\ budget \in 0 .. analysis.limit /\ worded \in Seq(WordedRoles)
      /\ CoreBudget
  BY DEF CoreInv, CoreTypes
<1>2. worded' = Append(worded, r) /\ budget' = Deducted /\ at' = "asking"
      /\ asking' = [NoAnswer EXCEPT !.role = r, !.left = Providers]
  BY DEF AskProviders, AfterReserving
<1>3. worded' \in Seq(WordedRoles) /\ Len(worded') = Len(worded) + 1 /\ Len(worded) \in Nat
  BY <1>1, <1>2, Appended
<1>4. budget' \in 0 .. analysis.limit
  BY <1>1, <1>2 DEF Deducted, MayAsk
<1>5. CoreBudget'
  BY <1>1, <1>2, <1>3 DEF CoreBudget, Deducted, MayAsk
<1>6. asking' = [role |-> r, left |-> Providers, asked |-> 0, again |-> FALSE]
  BY <1>2 DEF NoAnswer
<1>7. Len(Providers) \in Nat /\ Providers \in Seq({"api", "cli"})
  BY CallAssumption, LenProperties
<1>8. /\ asking' \in [role : WordedRoles \union {"none"}, left : Seq({"api", "cli"}), asked : Nat,
                       again : BOOLEAN]
      /\ asking'.left = Providers /\ asking'.asked = 0 /\ asking'.role = r
  BY <1>6, <1>7
<1>9. Len(asking'.left) + asking'.asked =< Len(Providers)
  BY <1>7, <1>8
<1> QED BY <1>2, <1>3, <1>4, <1>5, <1>8, <1>9

\* The providers: an answer, a second attempt, and a failure.
LEMMA WordsKeep ==
  ASSUME CoreInv, SendAgain \/ ProviderFails \/ SynthesisEnds PROVE CoreInv'
<1> USE DEF CoreInv
<1>1. ASSUME SendAgain PROVE CoreInv'
  <2>1. CoreTypes'
    BY <1>1 DEF CoreTypes, SendAgain, browserVars, Own
  <2>2. asking'.role = asking.role
    BY <1>1 DEF CoreTypes, SendAgain
  <2>3. CoreSections'
    BY <1>1, <2>2 DEF CoreSections, SendAgain, browserVars, Own, OwedSections
  <2>4. CoreSeen' /\ CoreProcesses' /\ CorePages' /\ CoreBudget'
    BY <1>1, <2>2 DEF CoreSeen, SomethingSeen, CoreProcesses, CorePages, CoreBudget, SendAgain, browserVars
  <2> QED BY <2>1, <2>3, <2>4
<1>2. ASSUME ProviderFails PROVE CoreInv'
  <2>1. asking'.role = asking.role
    BY <1>2 DEF CoreTypes, ProviderFails
  <2>2. /\ asking' \in [role : WordedRoles \union {"none"}, left : Seq({"api", "cli"}), asked : Nat,
                        again : BOOLEAN]
        /\ Len(asking'.left) + asking'.asked =< Len(Providers)
    <3>1. /\ asking.left \in Seq({"api", "cli"}) /\ asking.left # <<>> /\ asking.asked \in Nat
          /\ Len(asking.left) + asking.asked =< Len(Providers) /\ Len(Providers) \in Nat
      BY <1>2, CallAssumption, LenProperties DEF CoreTypes, ProviderFails, Asks
    <3>2. /\ Tail(asking.left) \in Seq({"api", "cli"}) /\ Len(Tail(asking.left)) = Len(asking.left) - 1
          /\ Len(asking.left) \in Nat
      BY <3>1, HeadTailProperties, LenProperties
    <3>3. /\ asking'.left = Tail(asking.left) /\ asking'.asked = asking.asked + 1
          /\ asking' = [asking EXCEPT !.left = Tail(asking.left), !.asked = asking.asked + 1, !.again = FALSE]
      BY <1>2 DEF CoreTypes, ProviderFails
    <3>4. Len(asking'.left) + asking'.asked =< Len(Providers)
      BY <3>1, <3>2, <3>3
    <3>5. asking' = [role |-> asking.role, left |-> Tail(asking.left), asked |-> asking.asked + 1,
                     again |-> FALSE]
      BY <3>3 DEF CoreTypes
    <3>6. asking \in [role : WordedRoles \union {"none"}, left : Seq({"api", "cli"}), asked : Nat,
                      again : BOOLEAN]
      BY DEF CoreTypes
    <3> QED BY <3>1, <3>2, <3>4, <3>5, <3>6
  <2>3. CoreTypes'
    BY <1>2, <2>2 DEF CoreTypes, ProviderFails, browserVars, Own
  <2>4. CoreSections'
    BY <1>2, <2>1 DEF CoreSections, ProviderFails, browserVars, Own, OwedSections
  <2>5. CoreSeen' /\ CoreProcesses' /\ CorePages' /\ CoreBudget'
    BY <1>2, <2>1 DEF CoreSeen, SomethingSeen, CoreProcesses, CorePages, CoreBudget, ProviderFails, browserVars
  <2> QED BY <2>3, <2>4, <2>5
<1>3. ASSUME SynthesisEnds PROVE CoreInv'
  <2>1. at = "asking" /\ asking.role \in WordedRoles /\ asking' = NoAnswer
        /\ UNCHANGED <<analysis, todo, found, budget, worded, runtime, chrome, crawl>>
    BY <1>3 DEF SynthesisEnds, CoreSections, browserVars
  <2>2. /\ asking' \in [role : WordedRoles \union {"none"}, left : Seq({"api", "cli"}), asked : Nat,
                        again : BOOLEAN]
        /\ Len(asking'.left) + asking'.asked =< Len(Providers)
    <3>1. Len(Providers) \in Nat
      BY CallAssumption, LenProperties
    <3> QED BY <2>1, <3>1 DEF NoAnswer
  <2>3. CASE asking.role \in StaticRoles
    <3> DEFINE e == <<asking.role, "ready">>
    <3>1. at' = "roles" /\ noted' = Append(noted, e)
      BY <1>3, <2>3 DEF SynthesisEnds
    <3>2. e \in Entered /\ e[1] = asking.role
      BY <2>3 DEF Entered
    <3> HIDE DEF e
    <3>3. e[1] \in Own \ todo /\ Heads(noted) = Own \ (todo \union {e[1]})
      BY <2>1, <2>3, <3>2 DEF CoreSections
    <3>4. /\ noted' \in Seq(Entered) /\ OnceEach(noted') /\ Heads(noted') = Heads(noted) \union {e[1]}
          /\ ToSet(noted') = ToSet(noted) \union {e}
      BY <3>1, <3>2, <3>3, OneMoreSection DEF CoreTypes, CoreSections
    <3>5. CoreTypes'
      BY <2>1, <2>2, <3>1, <3>4 DEF CoreTypes, Own
    <3>6. CoreSections'
      BY <2>1, <3>1, <3>3, <3>4 DEF CoreSections, Own, Browsing
    <3>7. CoreSeen'
      <4>1. e[1] \notin BrowserRoles
        BY <2>3, <3>2, RolesOfCore
      <4> QED BY <2>1, <3>1, <3>4, <4>1 DEF CoreSeen, SomethingSeen
    <3>8. CoreProcesses' /\ CorePages' /\ CoreBudget'
      BY <2>1, <2>3, <3>1 DEF CoreProcesses, CorePages, CoreBudget
    <3> QED BY <3>5, <3>6, <3>7, <3>8
  <2>4. CASE asking.role \notin StaticRoles
    <3>1. at' \in {"interaction", "sections"} /\ noted' = noted
      BY <1>3, <2>4 DEF SynthesisEnds
    <3>2. CoreTypes'
      BY <2>1, <2>2, <3>1 DEF CoreTypes, Own, Browsing
    <3>3. CoreSections'
      BY <2>1, <2>4, <3>1 DEF CoreSections, Own, Browsing
    <3>4. CoreSeen' /\ CoreProcesses' /\ CorePages' /\ CoreBudget'
      BY <2>1, <2>4, <3>1 DEF CoreSeen, SomethingSeen, CoreProcesses, CorePages, CoreBudget
    <3> QED BY <3>2, <3>3, <3>4
  <2> QED BY <2>3, <2>4
<1> QED BY <1>1, <1>2, <1>3

\* The static roles, each in its turn.
LEMMA RolesKeep ==
  ASSUME CoreInv, (\E r \in todo : AnalyzeRole(r) \/ WordRole(r)) \/ EndRoles PROVE CoreInv'
<1> USE DEF CoreInv
\* A role of its own gets its section.
<1>0. ASSUME NEW r \in todo, at = "roles", at' = "roles", todo' = todo \ {r},
             noted' = Append(noted, <<r, "ready">>), SomethingSeen => SomethingSeen',
             UNCHANGED <<analysis, budget, asking, worded, runtime, chrome, crawl>>,
             found \subseteq found'
      PROVE  CoreInv'
  <2> DEFINE e == <<r, "ready">>
  <2>1. r \in Own /\ r \in StaticRoles
    BY DEF CoreTypes, Own
  <2>2. e \in Entered /\ e[1] = r
    BY <2>1 DEF Entered
  <2> HIDE DEF e
  <2>3. r \notin Heads(noted) /\ Heads(noted) = Own \ todo
    BY <1>0 DEF CoreSections
  <2>4. /\ noted' \in Seq(Entered) /\ OnceEach(noted') /\ Heads(noted') = Heads(noted) \union {r}
        /\ ToSet(noted') = ToSet(noted) \union {e}
    BY <1>0, <2>2, <2>3, OneMoreSection DEF CoreTypes, CoreSections, e
  <2>5. CoreTypes'
    BY <1>0, <2>4 DEF CoreTypes, Own
  <2>6. CoreSections'
    BY <1>0, <2>1, <2>3, <2>4 DEF CoreSections, Own, Browsing
  <2>7. CoreSeen'
    <3>1. e[1] \notin BrowserRoles
      BY <2>1, <2>2, RolesOfCore
    <3> QED BY <1>0, <2>4, <3>1 DEF CoreSeen
  <2>8. CoreProcesses' /\ CorePages' /\ CoreBudget'
    BY <1>0 DEF CoreProcesses, CorePages, CoreBudget
  <2> QED BY <2>5, <2>6, <2>7, <2>8
<1>1. ASSUME NEW r \in todo, AnalyzeRole(r) PROVE CoreInv'
  <2>1. /\ at = "roles" /\ at' = "roles" /\ todo' = todo \ {r}
        /\ noted' = Append(noted, <<r, "ready">>)
        /\ UNCHANGED <<analysis, budget, asking, worded, runtime, chrome, crawl>>
        /\ found \subseteq found'
    BY <1>1 DEF AnalyzeRole, wordVars, browserVars
  <2>2. SomethingSeen => SomethingSeen'
    BY <2>1 DEF SomethingSeen
  <2> QED BY <1>0, <2>1, <2>2
<1>2. ASSUME NEW r \in todo, WordRole(r) PROVE CoreInv'
  <2>1. /\ at = "roles" /\ todo' = todo \ {r} /\ r \in WordedRoles
        /\ UNCHANGED <<analysis, found, runtime, chrome, crawl>>
    BY <1>2 DEF WordRole, browserVars
  <2>2. CASE ~ MayAsk
    <3>1. at' = "roles" /\ noted' = Append(noted, <<r, "ready">>) /\ UNCHANGED <<budget, asking, worded>>
      BY <1>2, <2>2 DEF WordRole, wordVars
    <3>2. SomethingSeen => SomethingSeen'
      BY <2>1 DEF SomethingSeen
    <3> QED BY <1>0, <2>1, <3>1, <3>2
  <2>3. CASE MayAsk
    <3>1. AskProviders(r) /\ noted' = noted
      BY <1>2, <2>3 DEF WordRole
    <3>2. /\ budget' \in 0 .. analysis.limit /\ worded' \in Seq(WordedRoles) /\ CoreBudget'
          /\ asking' \in [role : WordedRoles \union {"none"}, left : Seq({"api", "cli"}), asked : Nat,
                          again : BOOLEAN]
          /\ Len(asking'.left) + asking'.asked =< Len(Providers)
          /\ asking'.role = r /\ at' = "asking"
      BY <2>1, <2>3, <3>1, AskingCounts
    <3>3. r \in Own /\ r \in StaticRoles
      BY DEF CoreTypes, Own
    <3>4. CoreTypes'
      BY <2>1, <3>1, <3>2 DEF CoreTypes, Own
    <3>5. CoreSections'
      BY <2>1, <3>1, <3>2, <3>3 DEF CoreSections, Own, Browsing
    <3>6. CoreSeen' /\ CoreProcesses' /\ CorePages'
      BY <2>1, <3>1, <3>2, <3>3 DEF CoreSeen, SomethingSeen, CoreProcesses, CorePages
    <3> QED BY <3>2, <3>4, <3>5, <3>6
  <2> QED BY <2>2, <2>3
<1>3. ASSUME EndRoles PROVE CoreInv'
  <2>1. /\ at = "roles" /\ todo = {}
        /\ UNCHANGED <<analysis, todo, noted, found, budget, asking, worded, runtime, chrome, crawl>>
        /\ at' = IF analysis.mode = "browser" /\ analysis.roles \intersect BrowserRoles # {}
                 THEN "browser" ELSE "report"
    BY <1>3 DEF EndRoles, wordVars, browserVars
  <2>2. CoreTypes'
    BY <2>1 DEF CoreTypes, Own, Browsing
  <2>3. Heads(noted) = Own
    BY <2>1 DEF CoreSections
  <2>4. at' = "report" => Own = OwedSections
    BY <2>1 DEF OwedSections, Own, CoreTypes
  <2>5. CoreSections'
    BY <2>1, <2>3, <2>4 DEF CoreSections, Own, OwedSections, Browsing
  <2>6. CoreProcesses'
    <3>1. AppAccountedFor'
      BY <2>1 DEF CoreProcesses, AppAccountedFor, AppAll
    <3> QED BY <2>1, <3>1 DEF CoreProcesses
  <2>7. CoreSeen' /\ CorePages' /\ CoreBudget'
    BY <2>1 DEF CoreSeen, SomethingSeen, CorePages, CoreBudget
  <2> QED BY <2>2, <2>5, <2>6, <2>7
<1> QED BY <1>1, <1>2, <1>3

\* Sections for roles whose browser was not in use.
LEMMA UnusedSections ==
  ASSUME NEW rs \in SUBSET BrowserRoles
  PROVE  /\ Unused(rs) \in Seq(Entered) /\ OnceEach(Unused(rs)) /\ Heads(Unused(rs)) = rs
         /\ \A e \in ToSet(Unused(rs)) : e[2] # "ready"
<1> DEFINE T == {<<r, IF r = "browser-self-check" THEN "planned" ELSE "skipped">> : r \in rs}
<1>1. \A e \in T : e \in Entered /\ e[1] \in rs /\ e[2] # "ready"
  BY DEF Entered
<1>2. \A d, e \in T : d[1] = e[1] => d = e
  OBVIOUS
<1>3. {e[1] : e \in T} = rs
  <2>1. ASSUME NEW r \in rs PROVE \E e \in T : e[1] = r
    <3> DEFINE e == <<r, IF r = "browser-self-check" THEN "planned" ELSE "skipped">>
    <3>1. e \in T /\ e[1] = r
      OBVIOUS
    <3> QED BY <3>1
  <2> QED BY <1>1, <2>1
<1>4. Unused(rs) = SetToSeq(T)
  BY DEF Unused
<1> HIDE DEF T
<1>5. T \in SUBSET Entered /\ \A e \in T : e[1] \in BrowserRoles
  BY <1>1
<1> QED BY <1>1, <1>2, <1>3, <1>4, <1>5, SectionEach

\* The browser roles are given up, with a section for each.
LEMMA EndsEarlyKeeps ==
  ASSUME CoreInv, at \in {"browser", "install", "wait"}, NEW finding, NEW next \in {"report", "stop"},
         EndsEarly(finding, next), next = "report" => AppAccountedFor,
         UNCHANGED <<analysis, todo, budget, asking, worded, runtime, chrome, crawl>>
  PROVE  CoreInv'
<1> USE DEF CoreInv
<1> DEFINE k == Unused(AskedBrowserRoles)
<1>1. at' = next /\ noted' = noted \o k /\ found \subseteq found'
  BY DEF EndsEarly
<1>2. AskedBrowserRoles \in SUBSET BrowserRoles /\ AskedBrowserRoles = analysis.roles \intersect BrowserRoles
  BY DEF AskedBrowserRoles
<1>3. /\ k \in Seq(Entered) /\ OnceEach(k) /\ Heads(k) = AskedBrowserRoles
      /\ \A e \in ToSet(k) : e[2] # "ready"
  BY <1>2, UnusedSections
<1> HIDE DEF k
<1>4. Heads(noted) = Own /\ analysis.mode = "browser" /\ noted \in Seq(Entered) /\ OnceEach(noted)
  BY DEF CoreSections, CoreTypes, Browsing
<1>5. Own \intersect AskedBrowserRoles = {} /\ Own \union AskedBrowserRoles = OwedSections
  BY <1>2, <1>4, RolesOfCore DEF Own, OwedSections, CoreTypes
<1>6. /\ noted' \in Seq(Entered) /\ OnceEach(noted') /\ Heads(noted') = OwedSections
      /\ ToSet(noted') = ToSet(noted) \union ToSet(k)
  BY <1>1, <1>3, <1>4, <1>5, MoreSections
<1>7. CoreTypes'
  BY <1>1, <1>6 DEF CoreTypes, Own
<1>8. CoreSections'
  BY <1>1, <1>4, <1>6 DEF CoreSections, OwedSections, Own, Browsing
<1>9. CoreSeen'
  BY <1>1, <1>3, <1>6 DEF CoreSeen, SomethingSeen
<1>10. CoreProcesses' /\ CorePages' /\ CoreBudget'
  BY <1>1 DEF CoreProcesses, AppAccountedFor, CorePages, CoreBudget
<1> QED BY <1>7, <1>8, <1>9, <1>10

\* The copy, the installation and the start of the repository.
LEMMA BeginningsKeep ==
  ASSUME CoreInv,
         PrepareRuntime \/ InstallAndStart \/ WaitForServer \/ LaunchBrowser \/ StartCrawl
  PROVE  CoreInv'
<1> USE DEF CoreInv
<1>1. ASSUME PrepareRuntime PROVE CoreInv'
  <2>1. at = "browser" /\ UNCHANGED <<analysis, todo, budget, asking, worded, runtime, chrome, crawl>>
    BY <1>1 DEF PrepareRuntime, wordVars, browserVars
  <2>2. AppAccountedFor
    BY <2>1 DEF CoreProcesses, AppAll, AppAccountedFor
  <2>3. CASE at' = "report"
    <3>1. PICK finding : EndsEarly(finding, "report")
      BY <1>1, <2>3 DEF PrepareRuntime
    <3> QED BY <2>1, <2>2, <3>1, EndsEarlyKeeps
  <2>4. CASE at' # "report"
    <3>1. at' \in {"install", "thrown"} /\ UNCHANGED <<noted, found>>
      BY <1>1, <2>4 DEF PrepareRuntime, EndsEarly
    <3>2. CoreTypes'
      BY <2>1, <3>1 DEF CoreTypes, Own, Browsing
    <3>3. CoreSections'
      BY <2>1, <3>1 DEF CoreSections, Own, Browsing
    <3>4. CoreSeen' /\ CoreProcesses' /\ CorePages' /\ CoreBudget'
      BY <2>1, <3>1 DEF CoreSeen, SomethingSeen, CoreProcesses, CorePages, CoreBudget
    <3> QED BY <3>2, <3>3, <3>4
  <2> QED BY <2>3, <2>4
<1>2. ASSUME InstallAndStart PROVE CoreInv'
  <2>1. at = "install" /\ UNCHANGED <<analysis, todo, budget, asking, worded, chrome, crawl>>
    BY <1>2 DEF InstallAndStart, wordVars
  <2>2. CASE at' = "report"
    <3>1. EndsEarly(SelfCheck("installation"), "report") /\ UNCHANGED runtime
      BY <1>2, <2>2 DEF InstallAndStart
    <3>2. AppAccountedFor
      BY <2>1 DEF CoreProcesses, AppAll, AppAccountedFor
    <3> QED BY <2>1, <3>1, <3>2, EndsEarlyKeeps
  <2>3. CASE at' # "report"
    <3>1. at' = "wait" /\ runtime' = AppAll("up") /\ UNCHANGED <<noted, found>>
      BY <1>2, <2>3 DEF InstallAndStart, EndsEarly
    <3>2. CoreTypes'
      BY <2>1, <3>1 DEF CoreTypes, Own, Browsing, AppAll
    <3>3. CoreSections'
      BY <2>1, <3>1 DEF CoreSections, Own, Browsing
    <3>4. CoreSeen' /\ CoreProcesses' /\ CorePages' /\ CoreBudget'
      BY <2>1, <3>1 DEF CoreSeen, SomethingSeen, CoreProcesses, CorePages, CoreBudget
    <3> QED BY <3>2, <3>3, <3>4
  <2> QED BY <2>2, <2>3
<1>3. ASSUME WaitForServer PROVE CoreInv'
  <2>1. at = "wait" /\ UNCHANGED <<analysis, todo, budget, asking, worded, runtime, chrome, crawl>>
    BY <1>3 DEF WaitForServer, wordVars, browserVars
  <2>2. CASE at' = "stop"
    <3>1. EndsEarly(SelfCheck("boot"), "stop")
      BY <1>3, <2>2 DEF WaitForServer
    <3> QED BY <2>1, <3>1, EndsEarlyKeeps
  <2>3. CASE at' # "stop"
    <3>1. at' = "launch" /\ UNCHANGED <<noted, found>>
      BY <1>3, <2>3 DEF WaitForServer, EndsEarly
    <3>2. CoreTypes'
      BY <2>1, <3>1 DEF CoreTypes, Own, Browsing
    <3>3. CoreSections'
      BY <2>1, <3>1 DEF CoreSections, Own, Browsing
    <3>4. CoreSeen' /\ CoreProcesses' /\ CorePages' /\ CoreBudget'
      BY <2>1, <3>1 DEF CoreSeen, SomethingSeen, CoreProcesses, CorePages, CoreBudget
    <3> QED BY <3>2, <3>3, <3>4
  <2> QED BY <2>2, <2>3
<1>4. ASSUME LaunchBrowser \/ StartCrawl PROVE CoreInv'
  <2>1. /\ at = "launch" /\ at' \in {"launch", "crawl"} /\ chrome' \in {chrome, "open"}
        /\ UNCHANGED <<analysis, todo, noted, found, budget, asking, worded, runtime, crawl>>
    BY <1>4 DEF LaunchBrowser, StartCrawl, wordVars, browserVars
  <2>2. CoreTypes'
    BY <2>1 DEF CoreTypes, Own, Browsing
  <2>3. CoreSections'
    BY <2>1 DEF CoreSections, Own, Browsing
  <2>4. CoreSeen' /\ CoreProcesses' /\ CorePages' /\ CoreBudget'
    BY <2>1 DEF CoreSeen, SomethingSeen, CoreProcesses, CorePages, CoreBudget
  <2> QED BY <2>2, <2>3, <2>4
<1> QED BY <1>1, <1>2, <1>3, <1>4

\* One URL of the queue.
LEMMA CrawlKeeps ==
  ASSUME CoreInv, SkipUrl \/ CrawlFails \/ CrawlPage \/ CloseBrowser PROVE CoreInv'
<1> USE DEF CoreInv
<1>1. /\ at = "crawl" /\ UNCHANGED <<analysis, todo, noted, budget, asking, worded, runtime>>
      /\ found \subseteq found'
  BY DEF SkipUrl, CrawlFails, CrawlPage, CloseBrowser, wordVars
<1>2. /\ crawl.queue \in Seq(Site) /\ crawl.visited \in SUBSET Site /\ crawl.pages \in Seq(Site)
      /\ Heads(noted) = Own /\ analysis.mode = "browser"
  BY <1>1 DEF CoreTypes, CoreSections, Browsing
<1>3. /\ crawl.queue # <<>> =>
           NextUrl \in Site /\ Tail(crawl.queue) \in Seq(Site)
      /\ crawl.queue = <<Home>> => NextUrl = Home
  <2>1. crawl.queue # <<>> => Head(crawl.queue) \in Site /\ Tail(crawl.queue) \in Seq(Site)
    BY <1>2, HeadTailProperties
  <2>2. Head(<<Home>>) = Home
    OBVIOUS
  <2> QED BY <2>1, <2>2 DEF NextUrl
\* What the crawl leaves alone as long as it goes on.
<1>4. ASSUME at' = "crawl", chrome' = chrome, CorePages', SomethingSeen',
             crawl' \in [queue : Seq(Site), visited : SUBSET Site, pages : Seq(Site), exercised : BOOLEAN]
      PROVE  CoreInv'
  <2>1. CoreTypes'
    BY <1>1, <1>4 DEF CoreTypes, Own, Browsing
  <2>2. CoreSections'
    BY <1>1, <1>4 DEF CoreSections, Own, Browsing
  <2>3. CoreProcesses' /\ CoreBudget'
    BY <1>1, <1>4 DEF CoreProcesses, CoreBudget
  <2>4. Heads(noted) \intersect BrowserRoles = {}
    BY <1>2, RolesOfCore DEF Own
  <2>5. ~ \E e \in ToSet(noted) : e[1] \in BrowserRoles
    BY <2>4 DEF Heads
  <2>6. CoreSeen'
    BY <1>1, <1>4, <2>5 DEF CoreSeen
  <2> QED BY <1>4, <2>1, <2>2, <2>3, <2>6
<1>5. ASSUME SkipUrl PROVE CoreInv'
  <2>1. /\ crawl' = [crawl EXCEPT !.queue = Tail(crawl.queue)] /\ at' = "crawl" /\ chrome' = chrome
        /\ crawl.queue # <<>> /\ NextUrl \in crawl.visited /\ found' = found
    BY <1>1, <1>5 DEF SkipUrl
  <2>2. /\ crawl' \in [queue : Seq(Site), visited : SUBSET Site, pages : Seq(Site), exercised : BOOLEAN]
        /\ crawl'.pages = crawl.pages /\ crawl'.visited = crawl.visited
    BY <1>3, <2>1 DEF CoreTypes
  <2>3. CorePages'
    BY <2>2 DEF CorePages
  <2>4. SomethingSeen'
    BY <2>1, <2>2 DEF CoreSeen, SomethingSeen
  <2> QED BY <1>4, <2>1, <2>2, <2>3, <2>4
<1>6. ASSUME CrawlFails PROVE CoreInv'
  <2>1. /\ crawl' = [crawl EXCEPT !.queue = Tail(crawl.queue), !.visited = crawl.visited \union {NextUrl}]
        /\ at' = "crawl" /\ chrome' = chrome /\ crawl.queue # <<>>
        /\ found' = found \union SelfCheck("navigation")
    BY <1>1, <1>6 DEF CrawlFails
  <2>2. /\ crawl' \in [queue : Seq(Site), visited : SUBSET Site, pages : Seq(Site), exercised : BOOLEAN]
        /\ crawl'.pages = crawl.pages /\ crawl'.visited = crawl.visited \union {NextUrl}
    BY <1>3, <2>1 DEF CoreTypes
  <2>3. CorePages'
    BY <2>2 DEF CorePages
  <2>4. SomethingSeen'
    BY <2>1 DEF SomethingSeen
  <2> QED BY <1>4, <2>1, <2>2, <2>3, <2>4
<1>7. ASSUME CrawlPage PROVE CoreInv'
  <2> DEFINE links == Leads[NextUrl] \ (crawl.visited \union {NextUrl} \union ToSet(Tail(crawl.queue)))
             ahead == Tail(crawl.queue) \o SetToSeq(links)
             more  == Append(crawl.pages, NextUrl)
  <2>1. /\ at' = "crawl" /\ chrome' = chrome /\ crawl.queue # <<>> /\ Len(crawl.pages) < MaxCrawled
        /\ NextUrl \notin crawl.visited /\ "malformed" \notin Leads[NextUrl]
        /\ crawl'.queue = ahead /\ crawl'.visited = crawl.visited \union {NextUrl}
        /\ crawl'.pages = more
    BY <1>1, <1>7 DEF CrawlPage
  <2>2. \E trial : crawl' = [queue |-> ahead, visited |-> crawl.visited \union {NextUrl}, pages |-> more,
                            exercised |-> crawl.exercised \/ trial # "nothing"]
    BY <1>7 DEF CrawlPage
  <2>3. NextUrl \in Site /\ Tail(crawl.queue) \in Seq(Site)
    BY <1>3, <2>1
  <2>4. ahead \in Seq(Site)
    <3>1. links \subseteq Site /\ IsFiniteSet(links)
      <4>1. /\ Leads[NextUrl] \subseteq Site \union {"malformed"} /\ IsFiniteSet(Leads[NextUrl])
        BY <2>3, SiteAssumption
      <4>2. links \in SUBSET Leads[NextUrl]
        OBVIOUS
      <4>3. IsFiniteSet(links)
        BY <4>1, <4>2, FS_Subset
      <4> QED BY <2>1, <4>1, <4>3
    <3> HIDE DEF links
    <3>2. SetToSeq(links) \in Seq(links)
      BY <3>1, SetAsSeq
    <3>3. SetToSeq(links) \in Seq(Site)
      BY <3>1, <3>2, SeqMonotonic
    <3> QED BY <2>3, <3>3, ConcatProperties
  <2>5. /\ more \in Seq(Site) /\ ToSet(more) = ToSet(crawl.pages) \union {NextUrl}
        /\ Len(more) = Len(crawl.pages) + 1 /\ DOMAIN more = 1 .. Len(crawl.pages) + 1
        /\ DOMAIN crawl.pages = 1 .. Len(crawl.pages) /\ Len(crawl.pages) \in Nat
        /\ \A i \in 1 .. Len(crawl.pages) : more[i] = crawl.pages[i]
        /\ more[Len(crawl.pages) + 1] = NextUrl
    BY <1>2, <2>3, Appended
  <2> HIDE DEF ahead, more
  <2>6. crawl' \in [queue : Seq(Site), visited : SUBSET Site, pages : Seq(Site), exercised : BOOLEAN]
    BY <1>2, <2>2, <2>3, <2>4, <2>5
  <2>7. NextUrl \notin ToSet(crawl.pages)
    BY <2>1 DEF CorePages
  <2>8. \A i \in 1 .. Len(crawl.pages) : crawl.pages[i] # NextUrl
    BY <2>5, <2>7 DEF ToSet
  <2>9. IsInjective(more)
    <3> SUFFICES ASSUME NEW i \in DOMAIN more, NEW j \in DOMAIN more, more[i] = more[j] PROVE i = j
      BY DEF IsInjective
    <3>1. (i \in 1 .. Len(crawl.pages) \/ i = Len(crawl.pages) + 1)
            /\ (j \in 1 .. Len(crawl.pages) \/ j = Len(crawl.pages) + 1)
      BY <2>5
    <3>2. CASE i \in 1 .. Len(crawl.pages) /\ j \in 1 .. Len(crawl.pages)
      BY <2>5, <3>2 DEF CorePages, IsInjective
    <3>3. CASE i = Len(crawl.pages) + 1 \/ j = Len(crawl.pages) + 1
      BY <2>5, <2>8, <3>1, <3>3
    <3> QED BY <3>1, <3>2, <3>3
  <2>10. CorePages'
    <3>1. Len(more) =< MaxCrawled
      BY <2>1, <2>5, CallAssumption
    <3>2. ToSet(more) \subseteq crawl.visited \union {NextUrl}
      BY <2>5 DEF CorePages
    <3> QED BY <2>1, <2>9, <3>1, <3>2 DEF CorePages
  <2>11. SomethingSeen'
    <3>1. more # <<>>
      BY <2>5
    <3> QED BY <2>1, <3>1 DEF SomethingSeen
  <2> QED BY <1>4, <2>1, <2>6, <2>10, <2>11
<1>8. ASSUME CloseBrowser PROVE CoreInv'
  <2>1. /\ at' = "visual" /\ chrome' = "closed" /\ UNCHANGED <<found, crawl>>
        /\ crawl.queue = <<>> \/ Len(crawl.pages) >= MaxCrawled
    BY <1>8 DEF CloseBrowser
  <2>2. SomethingSeen
    <3>1. crawl.pages = <<>> => Len(crawl.pages) = 0
      OBVIOUS
    <3>2. Len(crawl.pages) >= MaxCrawled => crawl.pages # <<>>
      BY <3>1, CallAssumption
    <3>3. <<Home>> # <<>>
      OBVIOUS
    <3> QED BY <2>1, <3>2, <3>3 DEF CoreSeen, SomethingSeen
  <2>3. CoreTypes'
    BY <1>1, <2>1 DEF CoreTypes, Own, Browsing
  <2>4. CoreSections'
    BY <1>1, <2>1 DEF CoreSections, Own, Browsing
  <2>5. CoreSeen' /\ CoreProcesses' /\ CorePages' /\ CoreBudget'
    BY <1>1, <2>1, <2>2 DEF CoreSeen, SomethingSeen, CoreProcesses, CorePages, CoreBudget
  <2> QED BY <2>3, <2>4, <2>5
<1> QED BY <1>5, <1>6, <1>7, <1>8

\* The visual and the interaction role, their sections, and the end.
LEMMA EndingsKeep ==
  ASSUME CoreInv,
         \/ SummarizeVisuals \/ SummarizeInteractions \/ WriteSections \/ WriteLog
         \/ BrowserThrows \/ StopRuntime \/ KillRuntime
  PROVE  CoreInv'
<1> USE DEF CoreInv
\* A summary, by a provider or not at all.
<1>1. ASSUME NEW r \in WordedRoles \ StaticRoles, NEW next \in {"interaction", "sections"},
             at \in {"visual", "interaction"},
             \/ MayAsk /\ AskProviders(r)
             \/ at' = next /\ UNCHANGED <<budget, asking, worded>>,
             UNCHANGED <<analysis, todo, noted, found, runtime, chrome, crawl>>
      PROVE  CoreInv'
  <2>1. SomethingSeen /\ SomethingSeen' = SomethingSeen /\ analysis.mode = "browser" /\ Heads(noted) = Own
    BY <1>1 DEF CoreSeen, SomethingSeen, CoreSections, Browsing
  <2>2. CASE MayAsk /\ AskProviders(r)
    <3>1. /\ budget' \in 0 .. analysis.limit /\ worded' \in Seq(WordedRoles) /\ CoreBudget'
          /\ asking' \in [role : WordedRoles \union {"none"}, left : Seq({"api", "cli"}), asked : Nat,
                          again : BOOLEAN]
          /\ Len(asking'.left) + asking'.asked =< Len(Providers)
          /\ asking'.role = r /\ at' = "asking"
      BY <1>1, <2>2, AskingCounts
    <3>2. CoreTypes'
      BY <1>1, <3>1 DEF CoreTypes, Own
    <3>3. CoreSections'
      BY <1>1, <2>1, <3>1 DEF CoreSections, Own, Browsing
    <3>4. CoreSeen' /\ CoreProcesses' /\ CorePages'
      BY <1>1, <2>1, <3>1 DEF CoreSeen, CoreProcesses, CorePages
    <3> QED BY <3>1, <3>2, <3>3, <3>4
  <2>3. CASE at' = next /\ UNCHANGED <<budget, asking, worded>>
    <3>1. CoreTypes'
      BY <1>1, <2>3 DEF CoreTypes, Own, Browsing
    <3>2. CoreSections'
      BY <1>1, <2>1, <2>3 DEF CoreSections, Own, Browsing
    <3>3. CoreSeen' /\ CoreProcesses' /\ CorePages' /\ CoreBudget'
      BY <1>1, <2>1, <2>3 DEF CoreSeen, CoreProcesses, CorePages, CoreBudget
    <3> QED BY <3>1, <3>2, <3>3
  <2> QED BY <1>1, <2>2, <2>3
<1>2. {"visual-inspection", "interaction-test"} \subseteq WordedRoles \ StaticRoles
  BY RolesOfCore DEF WordedRoles, BrowserRoles
<1>3. ASSUME SummarizeVisuals PROVE CoreInv'
  <2>1. /\ at = "visual" /\ UNCHANGED <<analysis, todo, noted, found, runtime, chrome, crawl>>
        /\ \/ MayAsk /\ AskProviders("visual-inspection")
           \/ at' = "interaction" /\ UNCHANGED <<budget, asking, worded>>
    BY <1>3 DEF SummarizeVisuals, browserVars, wordVars
  <2> QED BY <1>1, <1>2, <2>1
<1>4. ASSUME SummarizeInteractions PROVE CoreInv'
  <2>1. /\ at = "interaction" /\ UNCHANGED <<analysis, todo, noted, found, runtime, chrome, crawl>>
        /\ \/ MayAsk /\ AskProviders("interaction-test")
           \/ at' = "sections" /\ UNCHANGED <<budget, asking, worded>>
    BY <1>4 DEF SummarizeInteractions, browserVars, wordVars
  <2> QED BY <1>1, <1>2, <2>1
<1>5. ASSUME WriteSections PROVE CoreInv'
  <2> DEFINE T == {<<r, "ready">> : r \in AskedBrowserRoles}
             k == SetToSeq(T)
  <2>1. /\ at = "sections" /\ at' = "write" /\ noted' = noted \o k
        /\ UNCHANGED <<analysis, todo, found, budget, asking, worded, runtime, chrome, crawl>>
    BY <1>5 DEF WriteSections, wordVars, browserVars
  <2>2. AskedBrowserRoles = analysis.roles \intersect BrowserRoles
    BY DEF AskedBrowserRoles
  <2>3. /\ T \in SUBSET Entered /\ \A e \in T : e[1] \in BrowserRoles
        /\ \A d, e \in T : d[1] = e[1] => d = e
    BY <2>2 DEF Entered
  <2>4. {e[1] : e \in T} = AskedBrowserRoles
    <3>1. ASSUME NEW r \in AskedBrowserRoles PROVE \E e \in T : e[1] = r
      <4>1. <<r, "ready">> \in T /\ <<r, "ready">>[1] = r
        OBVIOUS
      <4> QED BY <4>1
    <3>2. \A e \in T : e[1] \in AskedBrowserRoles
      OBVIOUS
    <3> QED BY <3>1, <3>2
  <2> HIDE DEF T
  <2>5. k \in Seq(Entered) /\ OnceEach(k) /\ ToSet(k) = T /\ Heads(k) = AskedBrowserRoles
    BY <2>3, <2>4, SectionEach
  <2> HIDE DEF k
  <2>6. Heads(noted) = Own /\ analysis.mode = "browser" /\ noted \in Seq(Entered) /\ OnceEach(noted)
    BY <2>1 DEF CoreSections, CoreTypes, Browsing
  <2>7. Own \intersect AskedBrowserRoles = {} /\ Own \union AskedBrowserRoles = OwedSections
    BY <2>2, <2>6, RolesOfCore DEF Own, OwedSections, CoreTypes
  <2>8. noted' \in Seq(Entered) /\ OnceEach(noted') /\ Heads(noted') = OwedSections
    BY <2>1, <2>5, <2>6, <2>7, MoreSections
  <2>9. CoreTypes'
    BY <2>1, <2>8 DEF CoreTypes, Own
  <2>10. CoreSections'
    BY <2>1, <2>6, <2>8 DEF CoreSections, OwedSections, Own, Browsing
  <2>11. CoreSeen' /\ CoreProcesses' /\ CorePages' /\ CoreBudget'
    BY <2>1 DEF CoreSeen, SomethingSeen, CoreProcesses, CorePages, CoreBudget
  <2> QED BY <2>9, <2>10, <2>11
<1>6. ASSUME WriteLog PROVE CoreInv'
  <2>1. /\ at = "write" /\ at' = "stop"
        /\ UNCHANGED <<analysis, todo, noted, found, budget, asking, worded, runtime, chrome, crawl>>
    BY <1>6 DEF WriteLog, wordVars, browserVars
  <2>2. CoreTypes'
    BY <2>1 DEF CoreTypes, Own
  <2>3. CoreSections'
    BY <2>1 DEF CoreSections, OwedSections, Own, Browsing
  <2>4. CoreSeen' /\ CoreProcesses' /\ CorePages' /\ CoreBudget'
    BY <2>1 DEF CoreSeen, SomethingSeen, CoreProcesses, CorePages, CoreBudget
  <2> QED BY <2>2, <2>3, <2>4
<1>7. ASSUME BrowserThrows PROVE CoreInv'
  <2> DEFINE rs == {r \in AskedBrowserRoles : ~ HasSection(r)}
             k  == Unused(rs)
  <2>1. /\ at \in {"launch", "crawl", "write"} /\ at' = "stop" /\ noted' = noted \o k
        /\ found' = found \union SelfCheck("failed")
        /\ UNCHANGED <<analysis, todo, budget, asking, worded, runtime, chrome, crawl>>
    BY <1>7 DEF BrowserThrows, wordVars, browserVars
  <2>2. AskedBrowserRoles = analysis.roles \intersect BrowserRoles
    BY DEF AskedBrowserRoles
  <2>3. \A r : HasSection(r) <=> r \in Heads(noted)
    BY DEF HasSection, Heads, ToSet
  <2>4. rs \in SUBSET BrowserRoles /\ rs = AskedBrowserRoles \ Heads(noted)
    BY <2>2, <2>3
  <2> HIDE DEF rs
  <2>5. /\ k \in Seq(Entered) /\ OnceEach(k) /\ Heads(k) = rs /\ \A e \in ToSet(k) : e[2] # "ready"
    BY <2>4, UnusedSections
  <2> HIDE DEF k
  <2>6. /\ analysis.mode = "browser" /\ noted \in Seq(Entered) /\ OnceEach(noted)
        /\ Heads(noted) = Own \/ Heads(noted) = OwedSections
    BY <2>1 DEF CoreSections, CoreTypes, Browsing
  <2>7. Own \union AskedBrowserRoles = OwedSections
    BY <2>2, <2>6, RolesOfCore DEF Own, OwedSections, CoreTypes
  <2>8. Heads(noted) \union rs = OwedSections /\ Heads(noted) \intersect rs = {}
    BY <2>4, <2>6, <2>7
  <2>9. /\ noted' \in Seq(Entered) /\ OnceEach(noted') /\ Heads(noted') = OwedSections
        /\ ToSet(noted') = ToSet(noted) \union ToSet(k)
    BY <2>1, <2>5, <2>6, <2>8, MoreSections
  <2>10. CoreTypes'
    BY <2>1, <2>9 DEF CoreTypes, Own
  <2>11. CoreSections'
    BY <2>1, <2>6, <2>9 DEF CoreSections, OwedSections, Own, Browsing
  <2>12. CoreSeen'
    BY <2>1, <2>5, <2>9 DEF CoreSeen, SomethingSeen
  <2>13. CoreProcesses' /\ CorePages' /\ CoreBudget'
    BY <2>1 DEF CoreProcesses, CorePages, CoreBudget
  <2> QED BY <2>10, <2>11, <2>12, <2>13
<1>8. ASSUME StopRuntime PROVE CoreInv'
  <2>1. PICK left \in SUBSET AppProcesses :
          /\ at = "stop" /\ at' = IF "leader" \in left THEN "kill" ELSE "report"
          /\ runtime' = [p \in AppProcesses |-> IF p \in left THEN "up" ELSE "gone"]
          /\ UNCHANGED <<analysis, todo, noted, found, budget, asking, worded, chrome, crawl>>
    BY <1>8 DEF StopRuntime, wordVars
  <2>2. CoreTypes'
    BY <2>1 DEF CoreTypes, Own
  <2>3. CoreSections'
    BY <2>1 DEF CoreSections, OwedSections, Own, Browsing
  <2>4. at' = "report" => AppAccountedFor'
    BY <2>1 DEF AppAccountedFor, AppProcesses
  <2>5. CoreSeen' /\ CoreProcesses' /\ CorePages' /\ CoreBudget'
    BY <2>1, <2>4 DEF CoreSeen, SomethingSeen, CoreProcesses, CorePages, CoreBudget
  <2> QED BY <2>2, <2>3, <2>5
<1>9. ASSUME KillRuntime PROVE CoreInv'
  <2>1. PICK left \in SUBSET AppProcesses :
          /\ at = "kill" /\ at' = "report"
          /\ runtime' = [p \in AppProcesses |-> IF p \in left THEN "killed" ELSE "gone"]
          /\ UNCHANGED <<analysis, todo, noted, found, budget, asking, worded, chrome, crawl>>
    BY <1>9 DEF KillRuntime, wordVars
  <2>2. CoreTypes'
    BY <2>1 DEF CoreTypes, Own
  <2>3. CoreSections'
    BY <2>1 DEF CoreSections, OwedSections, Own, Browsing
  <2>4. AppAccountedFor'
    BY <2>1 DEF AppAccountedFor
  <2>5. CoreSeen' /\ CoreProcesses' /\ CorePages' /\ CoreBudget'
    BY <2>1, <2>4 DEF CoreSeen, SomethingSeen, CoreProcesses, CorePages, CoreBudget
  <2> QED BY <2>2, <2>3, <2>5
<1> QED BY <1>3, <1>4, <1>5, <1>6, <1>7, <1>8, <1>9

\* Every step of the analysis keeps the invariant.
LEMMA NextCoreInv == CoreInv /\ [CoreAnalysisNext]_coreAnalysisVars => CoreInv'
<1> SUFFICES ASSUME CoreInv, [CoreAnalysisNext]_coreAnalysisVars PROVE CoreInv'
  OBVIOUS
<1>1. ASSUME UNCHANGED coreAnalysisVars PROVE CoreInv'
  <2>1. UNCHANGED <<analysis, at, todo, noted, found, budget, asking, worded, runtime, chrome, crawl>>
    BY <1>1 DEF coreAnalysisVars
  <2>2. CoreTypes'
    BY <2>1 DEF CoreInv, CoreTypes, Own
  <2>3. CoreSections'
    BY <2>1 DEF CoreInv, CoreSections, OwedSections, Own
  <2>4. CoreSeen' /\ CoreProcesses' /\ CorePages' /\ CoreBudget'
    BY <2>1 DEF CoreInv, CoreSeen, SomethingSeen, CoreProcesses, AppAccountedFor, CorePages, CoreBudget
  <2> QED BY <2>2, <2>3, <2>4 DEF CoreInv
<1> QED BY <1>1, WordsKeep, RolesKeep, BeginningsKeep, CrawlKeeps, EndingsKeep DEF CoreAnalysisNext

\* CoreAnalysisType and CoreReportIsHonest follow from the invariant.
LEMMA CoreShows == CoreInv => CoreAnalysisType /\ CoreReportIsHonest
<1> SUFFICES ASSUME CoreInv PROVE CoreAnalysisType /\ CoreReportIsHonest
  OBVIOUS
<1> USE DEF CoreInv
<1>1. CoreAnalysisType
  <2>1. asking.asked \in 0 .. Len(Providers)
    <3>1. Len(Providers) \in Nat /\ Len(asking.left) \in Nat
      BY CallAssumption, LenProperties DEF CoreTypes
    <3> QED BY <3>1 DEF CoreTypes
  <2>2. todo \subseteq StaticRoles
    BY DEF CoreTypes, Own
  <2> QED BY <2>1, <2>2 DEF CoreTypes, CorePages, CoreAnalysisType, Browsing
<1>2. ASSUME NEW r
      PROVE  Cardinality(SectionsOf(r)) = IF r \in Heads(noted) THEN 1 ELSE 0
  <2>1. CASE r \in Heads(noted)
    <3>1. PICK i \in DOMAIN noted : noted[i][1] = r
      BY <2>1 DEF Heads, ToSet
    <3>2. SectionsOf(r) = {i}
      BY <3>1 DEF SectionsOf, CoreSections, OnceEach
    <3> QED BY <2>1, <3>2, FS_Singleton
  <2>2. CASE r \notin Heads(noted)
    <3>1. SectionsOf(r) = {}
      BY <2>2 DEF SectionsOf, Heads, ToSet
    <3> QED BY <2>2, <3>1, FS_EmptySet
  <2> QED BY <2>1, <2>2
<1>3. ASSUME at = "report"
      PROVE  /\ \A r \in StaticRoles \union BrowserRoles :
                  Cardinality(SectionsOf(r)) = IF r \in OwedSections THEN 1 ELSE 0
             /\ \A i \in DOMAIN noted :
                  noted[i][1] \in BrowserRoles /\ noted[i][2] = "ready" => SomethingSeen
             /\ AppAccountedFor
             /\ chrome = "open" => SelfCheck("failed") \subseteq found
  <2>1. Heads(noted) = OwedSections
    BY <1>3 DEF CoreSections
  <2>2. \A i \in DOMAIN noted : noted[i] \in ToSet(noted)
    BY DEF ToSet
  <2>3. AppAccountedFor /\ (chrome = "open" => SelfCheck("failed") \subseteq found)
    BY <1>3 DEF CoreProcesses
  <2> QED BY <1>2, <2>1, <2>2, <2>3 DEF CoreSeen
<1>4. analysis.tracked /\ analysis.limit > 0 => Len(worded) =< analysis.limit
  <2>1. Len(worded) \in Nat /\ analysis.limit \in Nat /\ budget \in 0 .. analysis.limit
    BY LenProperties DEF CoreTypes
  <2> QED BY <2>1 DEF CoreBudget
<1>5. CoreReportIsHonest
  BY <1>3, <1>4 DEF CoreReportIsHonest, CorePages, SomethingSeen
<1> QED BY <1>1, <1>5

\* CoreReportIsHonest: the report has one section for each role that was asked for, none "ready"
\* with no page seen unless a finding tells why, what is left of the application was sent a
\* SIGKILL or ignored the SIGTERM its leader ended on, the browser is left open only by what
\* failed, a page is recorded once and within the limit, and tracked providers keep their budget;
\* for every site and every list of providers (analyzeRepo, analyzeBrowserRoles).
THEOREM CoreReportsAreHonest == CoreSpec => [](CoreAnalysisType /\ CoreReportIsHonest)
<1>1. CoreSpec => []CoreInv
  BY CoreStarts, NextCoreInv, PTL DEF CoreSpec
<1> QED BY <1>1, CoreShows, PTL
=============================================================================
