----------------------------- MODULE SandboxRun -----------------------------
(***************************************************************************)
(* executeHostedAgentJobInSandbox with waitForAgentSandbox: a worker's     *)
(* controller starts the container of one job through a docker client,     *)
(* stops it on a timeout or a cancellation, stores the log lines it sends, *)
(* decides what became of the job and finalizes it.  Timers, answers of    *)
(* polls and the client's events come in any order; the controller's       *)
(* awaits are its steps (pc).                                              *)
(***************************************************************************)
EXTENDS LogSink, LogStream

\* How a container ends by itself: with exit code 0 and a result that says what
\* became of the job, or with no result; or with another exit code.
Endings == {"succeeded", "failed", "missing", "nonzero"}

VARIABLES
  pc,            \* the controller's step
  container,     \* "up", or "gone"
  client,        \* the docker client: "up", "killed", "closed"
  ending,        \* exit code and result of the container, "none" while it is up
  removing,      \* "docker rm -f" of the container is under way
  requested,     \* cancelRequestedAt is set
  askedEarly,    \* history: it was set before the client closed
  deadline,      \* the timeout timer is armed
  answer,        \* the answer "yes" to the cancellation poll is under way
  timedOut, cancelled,
  killed,        \* child.killed
  forceKill,     \* forceKillTimer is armed
  result,        \* AgentSandboxRunResult
  verdict,       \* status to finalize with
  replay,        \* logs to insert after the status
  replayed       \* history: they were inserted

clientVars     == <<container, client, ending, removing>>
timerVars      == <<deadline, answer, timedOut, cancelled, killed, forceKill>>
controllerVars == <<pc, result, verdict, replay, replayed>>
requestVars    == <<requested, askedEarly>>

vars == <<tableVars, sinkVars, streamVars, clientVars, timerVars, controllerVars, requestVars>>

ControllerSteps == {"launch", "wait", "flush", "decide", "collect", "finalize", "replay",
           "recover", "recoverReplay", "done"}

Init ==
  /\ TableInit /\ SinkInit /\ StreamInit
  /\ pc = "launch"
  /\ container = "gone" /\ client = "closed" /\ ending = "none" /\ removing = FALSE
  /\ requested = FALSE /\ askedEarly = FALSE
  /\ deadline = FALSE /\ answer = FALSE
  /\ timedOut = FALSE /\ cancelled = FALSE /\ killed = FALSE /\ forceKill = FALSE
  /\ result = [code |-> "none", timedOut |-> FALSE, cancelled |-> FALSE]
  /\ verdict = "none" /\ replay = {} /\ replayed = FALSE

\* appendLog: an insertion that throws is only warned of.
AppendStep(n) ==
  LET log == <<"controller", n>>
  IN  /\ born' = Append(born, log)
      /\ \/ /\ stored' = stored \union {log}
            /\ inOrder' = IF status = "running" THEN inOrder \union {log} ELSE inOrder
            /\ UNCHANGED errors
         \/ Throws /\ UNCHANGED <<stored, inOrder>>

-----------------------------------------------------------------------------
(* The container and the docker client *)

Launch ==
  /\ pc = "launch"
  /\ AppendStep(1)
  /\ pc' = "wait"
  /\ container' = "up" /\ client' = "up"
  /\ deadline' = TRUE
  /\ UNCHANGED <<status, pendingLogs, flushTimer, batch, awaited, streamedLogIds, streamVars,
                 ending, removing, answer, timedOut, cancelled, killed, forceKill,
                 result, verdict, replay, replayed, requestVars>>

\* A line of the sandbox reaches the controller's onStdoutLine.
EmitLine ==
  /\ container = "up" /\ client = "up"
  /\ Cardinality(Created("sandbox")) < NumLines
  /\ LET log == <<"sandbox", Cardinality(Created("sandbox")) + 1>>
     IN  born' = Append(born, log) /\ Push(log)
  /\ UNCHANGED <<status, stored, inOrder, streamVars, clientVars, timerVars, controllerVars,
                 requestVars>>

\* The program in the container ends, by itself or by SIGTERM.
ContainerEnds ==
  /\ container = "up"
  /\ container' = "gone"
  /\ ending' \in Endings
  /\ UNCHANGED <<tableVars, sinkVars, streamVars, client, removing, timerVars, controllerVars,
                 requestVars>>

\* Mutant: SIGTERM is all there is.
SigtermOnly == killed' = (killed \/ client = "up") /\ UNCHANGED forceKill

\* terminateChild
Terminate ==
  IF killed THEN UNCHANGED <<killed, forceKill>>
  ELSE killed' = (client = "up") /\ forceKill' = TRUE

TimeoutFires ==
  /\ deadline
  /\ deadline' = FALSE
  /\ timedOut' = TRUE
  /\ Terminate
  /\ UNCHANGED <<tableVars, sinkVars, streamVars, clientVars, answer, cancelled,
                 controllerVars, requestVars>>

\* cancellationPoll asks the database (an answer of "no" changes nothing) ...
AskCancellation ==
  /\ pc = "wait"
  /\ requested /\ ~ answer
  /\ answer' = TRUE
  /\ UNCHANGED <<tableVars, sinkVars, streamVars, clientVars, deadline, timedOut, cancelled,
                 killed, forceKill, controllerVars, requestVars>>

\* ... and its answer may come after the client has closed.
HearCancellation ==
  /\ answer
  /\ answer' = FALSE
  /\ IF ~ cancelled
     THEN cancelled' = TRUE /\ Terminate
     ELSE UNCHANGED <<cancelled, killed, forceKill>>
  /\ UNCHANGED <<tableVars, sinkVars, streamVars, clientVars, deadline, timedOut,
                 controllerVars, requestVars>>

\* Mutant: only the client is killed.
KillClientOnly ==
  /\ forceKill
  /\ forceKill' = FALSE
  /\ client' = IF client = "up" THEN "killed" ELSE client
  /\ UNCHANGED <<tableVars, sinkVars, streamVars, container, ending, removing, deadline, answer,
                 timedOut, cancelled, killed, controllerVars, requestVars>>

\* Five seconds after SIGTERM: SIGKILL for the client, and "docker rm -f" for the
\* container is started.  Nobody awaits it, and no "close" stops it.
ForceKill ==
  /\ forceKill
  /\ forceKill' = FALSE
  /\ client' = IF client = "up" THEN "killed" ELSE client
  /\ removing' = TRUE
  /\ UNCHANGED <<tableVars, sinkVars, streamVars, container, ending, deadline, answer,
                 timedOut, cancelled, killed, controllerVars, requestVars>>

\* "docker rm -f" ends, perhaps after the run; its failure is only warned of.
RemovalEnds ==
  /\ removing
  /\ removing' = FALSE
  /\ \/ /\ container' = "gone"
        /\ ending' = IF container = "up" THEN "nonzero" ELSE ending
        /\ UNCHANGED errors
     \/ Throws /\ UNCHANGED <<container, ending>>
  /\ UNCHANGED <<tableVars, pendingLogs, flushTimer, batch, awaited, streamedLogIds, streamVars,
                 client, timerVars, controllerVars, requestVars>>

\* "close": the container is gone, or the client was killed or is lost.  The timers
\* are cleared and the sink's flush begins.
ClientCloses ==
  /\ pc = "wait"
  /\ \/ container = "gone" /\ client = "up" /\ Flush
     \/ client = "killed" /\ Flush
     \/ /\ container = "up" /\ client = "up"
        /\ Throws
        /\ flushTimer' = FALSE /\ Drain(pendingLogs) /\ awaited' = (batch' # <<>>)
        /\ UNCHANGED streamedLogIds
  /\ client' = "closed"
  /\ result' = [code |-> IF client = "up" /\ container = "gone" THEN ending ELSE "nonzero",
                timedOut |-> timedOut, cancelled |-> cancelled]
  /\ deadline' = FALSE /\ forceKill' = FALSE
  /\ pc' = "flush"
  /\ UNCHANGED <<tableVars, streamVars, container, ending, removing, answer, timedOut, cancelled,
                 killed, verdict, replay, replayed, requestVars>>

-----------------------------------------------------------------------------
(* The controller, after the run.  What its last await brings is returned   *)
(* with the job's directory removed: "done" is that, too.                  *)

Elsewhere == <<streamVars, clientVars, timerVars, requestVars>>

\* sink.flush returned; the raw logs are uploaded, or that throws, and the end of
\* the wait is logged.
ReportWait ==
  /\ pc = "flush"
  /\ ~ awaited
  /\ \/ AppendStep(2) /\ pc' = "decide"
     \/ Throws /\ pc' = "recover" /\ UNCHANGED <<born, stored, inOrder>>
  /\ UNCHANGED <<status, pendingLogs, flushTimer, batch, awaited, streamedLogIds, Elsewhere,
                 result, verdict, replay, replayed>>

\* Mutant: only the poll's flag tells of a cancellation.
DecideByFlag ==
  /\ pc = "decide"
  /\ verdict' = IF result.cancelled THEN "cancelled" ELSE "failed"
  /\ replay' = Created("controller")
  /\ pc' = CASE result.cancelled \/ result.timedOut \/ result.code = "nonzero" -> "finalize"
             [] result.code = "missing" -> "recover"
             [] OTHER -> "collect"
  /\ UNCHANGED <<tableVars, sinkVars, Elsewhere, result, replayed>>

\* A cancellation comes before a timeout, a timeout before the exit code, the exit
\* code before the result.
Decide ==
  /\ pc = "decide"
  /\ LET stop == result.cancelled \/ requested
     IN  /\ verdict' = IF stop THEN "cancelled" ELSE "failed"
         /\ pc' = CASE stop \/ result.timedOut \/ result.code = "nonzero" -> "finalize"
                    [] ~ stop /\ ~ result.timedOut /\ result.code = "missing" -> "recover"
                    [] OTHER -> "collect"
  /\ replay' = Created("controller")
  /\ UNCHANGED <<tableVars, sinkVars, Elsewhere, result, replayed>>

\* Mutant: a line counts as streamed once it was pushed.
CollectUnpushed ==
  /\ pc = "collect"
  /\ AppendStep(3)
  /\ verdict' = result.code
  /\ replay' = {}
  /\ pc' = "finalize"
  /\ UNCHANGED <<status, pendingLogs, flushTimer, batch, awaited, streamedLogIds, Elsewhere,
                 result, replayed>>

\* result.json is read; a step of the collection may throw.  Success replays the
\* lines not known to be stored, a failed result the controller's logs as well.
Collect ==
  /\ pc = "collect"
  /\ \/ /\ AppendStep(3)
        /\ LET missing == Created("sandbox") \ streamedLogIds
           IN  replay' = IF result.code = "succeeded" THEN missing
                         ELSE missing \union Created("controller") \union {<<"controller", 3>>}
        /\ verdict' = result.code
        /\ pc' = "finalize"
     \/ /\ Throws /\ pc' = "recover"
        /\ UNCHANGED <<born, stored, inOrder, verdict, replay>>
  /\ UNCHANGED <<status, pendingLogs, flushTimer, batch, awaited, streamedLogIds, Elsewhere,
                 result, replayed>>

\* finalizeAnalysisJobSuccess and finalizeAnalysisJobFailure: the transaction, which
\* changes nothing when the job was cancelled or has ended ...
Finalize ==
  /\ pc = "finalize"
  /\ LET written == status = "running" /\ (verdict = "succeeded" => ~ requested)
     IN  /\ status' = IF written THEN verdict ELSE status
         /\ pc' = IF written THEN "replay" ELSE "done"
  /\ UNCHANGED <<born, stored, inOrder, sinkVars, Elsewhere, result, verdict, replay, replayed>>

\* ... and then the logs.
ReplayLogs ==
  /\ pc \in {"replay", "recoverReplay"}
  /\ \/ /\ Insert(replay) /\ replayed' = TRUE
        /\ pc' = "done"
        /\ UNCHANGED errors
     \/ /\ Throws
        /\ pc' = IF pc = "replay" THEN "recover" ELSE "done"
        /\ UNCHANGED <<stored, inOrder, replayed>>
  /\ UNCHANGED <<status, born, pendingLogs, flushTimer, batch, awaited, streamedLogIds, Elsewhere,
                 result, verdict, replay>>

\* The catch block: the job has failed, unless it was finalized before the error.
Recover ==
  /\ pc = "recover"
  /\ status' = IF status = "running" THEN "failed" ELSE status
  /\ pc' = IF status = "running" THEN "recoverReplay" ELSE "done"
  /\ replay' = Created("controller")
  /\ UNCHANGED <<born, stored, inOrder, sinkVars, Elsewhere, result, verdict, replayed>>

Controller ==
  ReportWait \/ Decide \/ Collect \/ Finalize \/ ReplayLogs \/ Recover

-----------------------------------------------------------------------------
\* requestJobCancellationForUser of a running job.
RequestCancellation ==
  /\ status = "running" /\ ~ requested
  /\ requested' = TRUE
  /\ askedEarly' = (pc \in {"launch", "wait"})
  /\ UNCHANGED <<tableVars, sinkVars, streamVars, clientVars, timerVars, controllerVars>>

RunOnly    == <<clientVars, timerVars, controllerVars, requestVars>>
Sink       == SinkStep /\ UNCHANGED <<streamVars, RunOnly>>
Stream     == Poll /\ UNCHANGED <<sinkVars, RunOnly>>

\* The viewer's connection breaks.
StreamBreaks ==
  /\ Reconnect
  /\ Throws
  /\ UNCHANGED <<pendingLogs, flushTimer, batch, awaited, streamedLogIds, RunOnly>>

Next ==
  \/ Launch \/ EmitLine \/ ContainerEnds \/ TimeoutFires
  \/ AskCancellation \/ HearCancellation \/ ForceKill \/ RemovalEnds \/ ClientCloses
  \/ Controller \/ RequestCancellation \/ Sink \/ Stream \/ StreamBreaks

\* Timers fire, a docker command ends, a client whose container is gone closes, promises settle, and the
\* viewer polls for as long as its stream is open.  The program in the container may
\* hang.
Spec ==
  /\ Init /\ [][Next]_vars
  /\ WF_vars(Launch) /\ WF_vars(TimeoutFires) /\ WF_vars(ForceKill) /\ WF_vars(RemovalEnds)
  /\ WF_vars(ClientCloses)
  /\ WF_vars(Controller) /\ WF_vars(Sink)
  /\ WF_vars(Stream)

-----------------------------------------------------------------------------
(* Properties *)

RunType ==
  /\ TableType /\ SinkType /\ StreamType
  /\ pc \in ControllerSteps
  /\ container \in {"up", "gone"} /\ client \in {"up", "killed", "closed"}
  /\ ending \in Endings \union {"none"} /\ (container = "up" => ending = "none")
  /\ {requested, askedEarly, removing, deadline, answer, timedOut, cancelled, killed, forceKill,
      replayed} \subseteq BOOLEAN
  /\ result \in [code : Endings \union {"none"}, timedOut : BOOLEAN, cancelled : BOOLEAN]
  /\ verdict \in FinalStatuses \union {"none"}
  /\ replay \subseteq ToSet(born)

\* Success needs a container that ended by itself with a successful result, in time
\* and without a cancellation; "cancelled" needs a request; and a request made while
\* the container ran prevails over a timeout, an exit code or a result that races it.
VerdictFits ==
  /\ status = "succeeded" => /\ result.code = "succeeded"
                             /\ ~ result.timedOut /\ ~ result.cancelled /\ ~ requested
  /\ status = "cancelled" => requested
  /\ askedEarly /\ pc = "done" /\ errors = 0 => status = "cancelled"

\* The lines of a successful job all have a row once its logs were replayed, however
\* many insertions of the sink threw: a line counts as streamed only when stored.
LinesSurviveSuccess ==
  status = "succeeded" /\ replayed => Created("sandbox") \subseteq stored

\* What the sink was given is stored in the end, whatever becomes of the job.
LinesReachTheTable == <>[](Created("sandbox") \subseteq stored)

\* "docker rm -f" is not awaited: the controller finalizes its job, and removes the
\* directory the container has mounted, though the container may still be up.  Even so
\* none is forgotten: one that outlives its client is being removed, unless docker
\* failed; and no result is collected from a directory it still writes to, nor does its
\* job succeed.
ContainerAccountedFor ==
  container = "up" => /\ client = "closed" => removing \/ errors > 0
                      /\ pc # "collect" /\ status # "succeeded"

\* The run comes to an end, though the container hangs or ignores SIGTERM: the controller
\* is done, the viewer of a job that ended is told so, and a container that was told to
\* stop is gone, though the timers are cleared when the client closes, unless docker failed.
RunEnds ==
  <>(/\ pc = "done"
     /\ status \in FinalStatuses => poll = "done"
     /\ killed => container = "gone" \/ errors > 0)
=============================================================================
