----------------------------- MODULE RunnerPlane ----------------------------
(***************************************************************************)
(* The retained runner plane (apps/runner): a job whose message is on the  *)
(* analysis-jobs queue, the processes that take it (executeQueuedJob), the *)
(* docker container of its run, its directory on the host, and what a      *)
(* process removes when it starts (cleanupStaleSandboxes).  The job is     *)
(* executed once at most, so that one record holds the execution.  Codex   *)
(* tokens are those of CodexAuth; log rows and metrics are left out.       *)
(***************************************************************************)
EXTENDS Naturals, FiniteSets

CONSTANTS
  Runners,         \* processes, each with an id of its own
  MaxDeliveries,   \* bound on the deliveries of the message
  MaxRunnerFaults  \* bound on deaths and on calls that throw

ASSUME RunnerAssumption == MaxDeliveries \in Nat /\ MaxRunnerFaults \in Nat

VARIABLES
  hostedJob,  \* the row: status, cancelRequestedAt, claimedRunnerId
  letter,     \* the message: ready, taken or done, and its deliveries left
  hostedRun,  \* the execution
  box,        \* the container
  workdir,    \* tempDir exists
  runnerFaults

runnerVars == <<hostedJob, letter, hostedRun, box, workdir, runnerFaults>>
runVars    == <<hostedRun, box, workdir>>

Unfinished == {"pending", "queued", "running"}
RunSteps   == {"none", "record", "prepare", "spawn", "wait", "closed", "finalize", "catch",
               "clean", "over", "dead"}
NoRunYet   == [at |-> "none", by |-> "none", timedOut |-> FALSE, cancelled |-> FALSE,
               stopping |-> FALSE, exit |-> "none", verdict |-> "none", threw |-> FALSE]

RunnerType ==
  /\ hostedJob.status \in Unfinished \union {"succeeded", "failed", "cancelled"}
  /\ hostedJob.claimer \in Runners \union {"none"}
  /\ letter.is \in {"ready", "taken", "done"} /\ letter.left \in 0 .. MaxDeliveries
  /\ hostedRun.at \in RunSteps
  /\ box \in {"none", "created", "running", "left"}
  /\ workdir \in BOOLEAN
  /\ runnerFaults \in 0 .. MaxRunnerFaults

RunnerInit ==
  /\ hostedJob = [status |-> "queued", cancel |-> FALSE, claimer |-> "none"]
  /\ letter = [is |-> "ready", left |-> MaxDeliveries]
  /\ hostedRun = NoRunYet
  /\ box = "none"
  /\ workdir = FALSE
  /\ runnerFaults = 0

RunnerFault == runnerFaults < MaxRunnerFaults /\ runnerFaults' = runnerFaults + 1

RunGoesTo(step) == hostedRun' = [hostedRun EXCEPT !.at = step]

-----------------------------------------------------------------------------
(* The queue, the user and docker *)

\* requestJobCancellationForUser, at the row: see JobLifecycle for its steps
AskRunnerJobToStop ==
  /\ hostedJob.status \in Unfinished /\ ~hostedJob.cancel
  /\ hostedJob' = [hostedJob EXCEPT !.cancel = TRUE,
                                    !.status = IF @ = "running" THEN @ ELSE "cancelled"]
  /\ UNCHANGED <<letter, runVars, runnerFaults>>

\* docker run: the container is created, starts, and ends with --rm, which may leave it;
\* a client that is stopped before the start leaves it created.
BoxStarts ==
  /\ box = "created"
  /\ box' = "running"
  /\ UNCHANGED <<hostedJob, letter, hostedRun, workdir, runnerFaults>>

BoxEnds ==
  /\ box = "running" \/ (box = "created" /\ hostedRun.stopping)
  /\ box' \in {"none", IF box = "created" THEN "created" ELSE "left"}
  /\ hostedRun.at = "wait" => hostedRun.stopping
  /\ hostedRun' = IF hostedRun.at = "wait"
                  THEN [hostedRun EXCEPT !.at = "closed", !.exit = "nonzero"] ELSE hostedRun
  /\ UNCHANGED <<hostedJob, letter, workdir, runnerFaults>>

\* It ends by itself: the client reports its exit code.
BoxExits ==
  /\ box = "running" /\ hostedRun.at = "wait" /\ ~hostedRun.stopping
  /\ box' \in {"none", "left"}
  /\ \E code \in {"zero", "nonzero"} :
       hostedRun' = [hostedRun EXCEPT !.at = "closed", !.exit = code]
  /\ UNCHANGED <<hostedJob, letter, workdir, runnerFaults>>

-----------------------------------------------------------------------------
(* executeQueuedJob *)

\* claimAnalysisJob, the transaction: a job with a cancellation is ended, a job that waits
\* is claimed, and any other one is left to whoever has it.
ClaimAnalysisJob(r) ==
  /\ letter.is = "ready" /\ letter.left > 0
  /\ LET waits == hostedJob.status \in {"pending", "queued"}
     IN  \/ /\ waits /\ ~hostedJob.cancel
            /\ hostedJob' = [hostedJob EXCEPT !.status = "running", !.claimer = r]
            /\ hostedRun' = [NoRunYet EXCEPT !.at = "record", !.by = r]
            /\ letter' = [is |-> "taken", left |-> letter.left - 1]
         \/ /\ waits /\ hostedJob.cancel
            /\ hostedJob' = [hostedJob EXCEPT !.status = "cancelled"]
            /\ letter' = [is |-> "done", left |-> letter.left - 1]
            /\ UNCHANGED hostedRun
         \/ /\ ~waits
            /\ letter' = [is |-> "done", left |-> letter.left - 1]
            /\ UNCHANGED <<hostedJob, hostedRun>>
  /\ UNCHANGED <<box, workdir, runnerFaults>>

\* getExecutionRecord; when it throws the job is failed, if it is still this runner's.
\* That update may throw too, and the handler with it.
ReadRecord ==
  /\ hostedRun.at = "record"
  /\ \/ RunGoesTo("prepare") /\ UNCHANGED <<hostedJob, runnerFaults>>
     \/ /\ RunnerFault
        /\ hostedJob' = IF hostedJob.status = "running" /\ hostedJob.claimer = hostedRun.by
                        THEN [hostedJob EXCEPT !.status = "failed"] ELSE hostedJob
        /\ RunGoesTo("clean")
     \/ /\ RunnerFault
        /\ hostedRun' = [hostedRun EXCEPT !.at = "clean", !.threw = TRUE]
        /\ UNCHANGED hostedJob
  /\ UNCHANGED <<letter, box, workdir>>

\* The directory, the source in it and the request
PrepareRun ==
  /\ hostedRun.at = "prepare"
  /\ \/ RunGoesTo("spawn") /\ UNCHANGED runnerFaults
     \/ RunGoesTo("catch") /\ RunnerFault
  /\ workdir' = TRUE
  /\ UNCHANGED <<hostedJob, letter, box>>

\* runSandboxContainer
SpawnBox ==
  /\ hostedRun.at = "spawn"
  /\ \/ RunGoesTo("wait") /\ box' = "created" /\ UNCHANGED runnerFaults
     \/ RunGoesTo("catch") /\ RunnerFault /\ UNCHANGED box
  /\ UNCHANGED <<hostedJob, letter, workdir>>

\* The timeout of waitForSandbox
BoxTimesOut ==
  /\ hostedRun.at = "wait" /\ ~hostedRun.timedOut
  /\ hostedRun' = [hostedRun EXCEPT !.timedOut = TRUE, !.stopping = TRUE]
  /\ UNCHANGED <<hostedJob, letter, box, workdir, runnerFaults>>

\* Its cancellation poll
BoxIsCancelled ==
  /\ hostedRun.at = "wait" /\ hostedJob.cancel /\ ~hostedRun.cancelled
  /\ hostedRun' = [hostedRun EXCEPT !.cancelled = TRUE, !.stopping = TRUE]
  /\ UNCHANGED <<hostedJob, letter, box, workdir, runnerFaults>>

\* Five seconds after SIGTERM the client is killed and the container removed, which may fail.
KillBox ==
  /\ hostedRun.at = "wait" /\ hostedRun.stopping
  /\ hostedRun' = [hostedRun EXCEPT !.at = "closed", !.exit = "nonzero"]
  /\ \/ box' = "none" /\ UNCHANGED runnerFaults
     \/ RunnerFault /\ UNCHANGED box
  /\ UNCHANGED <<hostedJob, letter, workdir>>

\* After the client has closed: raw logs are uploaded, the cancellation is read, the
\* result is read and its artifacts are uploaded.
Judge ==
  /\ hostedRun.at = "closed"
  /\ \/ /\ hostedRun' = [hostedRun EXCEPT !.at = "finalize", !.verdict =
            CASE hostedRun.cancelled \/ hostedJob.cancel -> "cancelled"
              [] ~(hostedRun.cancelled \/ hostedJob.cancel)
                 /\ (hostedRun.timedOut \/ hostedRun.exit # "zero") -> "failed"
              [] OTHER -> "succeeded"]
        /\ UNCHANGED runnerFaults
     \/ RunGoesTo("catch") /\ RunnerFault
  /\ UNCHANGED <<hostedJob, letter, box, workdir>>

\* finalizeAnalysisJobSuccess or finalizeAnalysisJobFailure, at the row
RowAfter(verdict) ==
  IF verdict = "succeeded"
  THEN IF hostedJob.status = "running" /\ ~hostedJob.cancel
       THEN [hostedJob EXCEPT !.status = "succeeded"] ELSE hostedJob
  ELSE IF hostedJob.status \in Unfinished
       THEN [hostedJob EXCEPT !.status = verdict] ELSE hostedJob

\* The update commits or throws; what follows it may throw too.
FinalizeRun ==
  /\ hostedRun.at = "finalize"
  /\ \/ hostedJob' = RowAfter(hostedRun.verdict) /\ RunGoesTo("clean") /\ UNCHANGED runnerFaults
     \/ hostedJob' \in {hostedJob, RowAfter(hostedRun.verdict)} /\ RunGoesTo("catch") /\ RunnerFault
  /\ UNCHANGED <<letter, box, workdir>>

\* Mutant: the failure is logged only.
CatchAndLog ==
  /\ hostedRun.at = "catch"
  /\ RunGoesTo("clean")
  /\ UNCHANGED <<hostedJob, letter, box, workdir, runnerFaults>>

\* The catch block uploads the raw logs again and fails the job; both may throw.
CatchRun ==
  /\ hostedRun.at = "catch"
  /\ \/ hostedJob' = RowAfter("failed") /\ RunGoesTo("clean") /\ UNCHANGED runnerFaults
     \/ /\ RunnerFault
        /\ hostedRun' = [hostedRun EXCEPT !.at = "clean", !.threw = TRUE] /\ UNCHANGED hostedJob
  /\ UNCHANGED <<letter, box, workdir>>

\* The finally block; a handler that has thrown has its message sent again.
CleanRun ==
  /\ hostedRun.at = "clean"
  /\ RunGoesTo("over")
  /\ workdir' = FALSE
  /\ letter' = [letter EXCEPT !.is = IF hostedRun.threw THEN "ready" ELSE "done"]
  /\ UNCHANGED <<hostedJob, box, runnerFaults>>

RunnerStep ==
  \/ ReadRecord \/ PrepareRun \/ SpawnBox \/ BoxTimesOut \/ BoxIsCancelled \/ KillBox
  \/ Judge \/ FinalizeRun \/ CatchRun \/ CleanRun

-----------------------------------------------------------------------------
(* Deaths *)

\* The process dies; its message expires.
RunnerDies ==
  /\ hostedRun.at \notin {"none", "over", "dead"}
  /\ RunnerFault
  /\ RunGoesTo("dead")
  /\ letter' = [letter EXCEPT !.is = "ready"]
  /\ UNCHANGED <<hostedJob, box, workdir>>

\* cleanupStaleSandboxes when a process starts: containers of its id that do not run, and
\* directories of anybody that are older than the retention.  One that has died starts
\* again with the same id when RUNNER_ID is set.
RunnerStarts ==
  /\ hostedRun.at = "dead"
  /\ box' \in {box, IF box \in {"created", "left"} THEN "none" ELSE box}
  /\ workdir' \in {workdir, FALSE}
  /\ <<box', workdir'>> # <<box, workdir>>
  /\ UNCHANGED <<hostedJob, letter, hostedRun, runnerFaults>>

RunnerNext ==
  \/ AskRunnerJobToStop \/ BoxStarts \/ BoxEnds \/ BoxExits
  \/ \E r \in Runners : ClaimAnalysisJob(r)
  \/ RunnerStep \/ RunnerDies \/ RunnerStarts

-----------------------------------------------------------------------------
(* Properties *)

\* A job that is running although its execution has returned was cancelled after the
\* runner's last look, or the failure path itself threw; one that succeeded had a run
\* that ended by itself with code 0; and an execution that returned has left no directory.
RunnerJobIsAccounted ==
  /\ hostedJob.status = "running" /\ hostedRun.at = "over" =>
       hostedRun.threw \/ (hostedRun.verdict = "succeeded" /\ hostedJob.cancel)
  /\ hostedJob.status = "succeeded" =>
       hostedRun.exit = "zero" /\ ~hostedRun.timedOut /\ ~hostedRun.cancelled
  /\ hostedRun.at = "over" => ~workdir
=============================================================================
