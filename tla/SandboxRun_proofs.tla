------------------------- MODULE SandboxRun_proofs --------------------------
(***************************************************************************)
(* Proofs about the controller of one sandbox run, for any number of lines,*)
(* batch size and errors.  RunInv ties the controller's place (pc) to what *)
(* it knows: what the run's result may be, what the verdict rests on, which*)
(* lines of the sandbox have a row, and what a stop left of the container. *)
(* CreatedInv and StreamInv add the viewer of the streamed logs: a row that*)
(* is stored in order lies beyond its cursor as long as it is not sent.    *)
(***************************************************************************)
EXTENDS SandboxRun, TLAPS, SequenceTheorems, FiniteSetTheorems

-----------------------------------------------------------------------------
(* Log lines *)

\* A log that is appended is one more log.
LEMMA AppendedLogs ==
  ASSUME NEW s \in Seq(Logs), NEW log \in Logs
  PROVE  Append(s, log) \in Seq(Logs) /\ ToSet(Append(s, log)) = ToSet(s) \union {log}
<1>1. /\ Append(s, log) \in Seq(Logs)
      /\ DOMAIN Append(s, log) = 1 .. (Len(s) + 1)
      /\ DOMAIN s = 1 .. Len(s) /\ Len(s) \in Nat
      /\ \A i \in 1 .. Len(s) : Append(s, log)[i] = s[i]
      /\ Append(s, log)[Len(s) + 1] = log
  BY AppendProperties, LenProperties
<1> QED BY <1>1 DEF ToSet

\* There are finitely many logs.
LEMMA FiniteLogs ==
  ASSUME NEW s \in Seq(Logs), NEW T \in SUBSET ToSet(s)
  PROVE  IsFiniteSet(T) /\ Cardinality(T) \in Nat
<1>1. IsFiniteSet(1 .. Len(s)) /\ DOMAIN s = 1 .. Len(s)
  BY LenProperties, FS_Interval
<1>2. s \in Surjection(1 .. Len(s), ToSet(s))
  BY <1>1, LenProperties DEF ToSet, Surjection
<1>3. IsFiniteSet(ToSet(s))
  BY <1>1, <1>2, FS_Surjection
<1> QED BY <1>3, FS_Subset, FS_CardinalityType

\* appendLog adds a log of the controller: the sandbox's lines stay as they are.
LEMMA AppendStepFacts ==
  ASSUME born \in Seq(Logs), errors \in Nat, NEW n \in 1 .. 3, AppendStep(n)
  PROVE  /\ born' \in Seq(Logs)
         /\ Created("sandbox")' = Created("sandbox")
         /\ stored \subseteq stored'
         /\ errors' \in Nat /\ errors' >= errors
<1>1. <<"controller", n>> \in Logs
  BY DEF Logs, Steps
<1>2. born' \in Seq(Logs) /\ ToSet(born') = ToSet(born) \union {<<"controller", n>>}
  BY <1>1, AppendedLogs DEF AppendStep
<1>3. Created("sandbox")' = Created("sandbox")
  BY <1>2 DEF Created
<1>4. stored \subseteq stored' /\ errors' \in Nat /\ errors' >= errors
  BY DEF AppendStep, Throws
<1> QED BY <1>2, <1>3, <1>4

\* A line of the sandbox that is emitted is the only new log.
LEMMA EmitLineFacts ==
  ASSUME born \in Seq(Logs), EmitLine
  PROVE  born' \in Seq(Logs)
<1> DEFINE n == Cardinality(Created("sandbox"))
<1>1. n \in Nat
  BY FiniteLogs DEF Created
<1>2. <<"sandbox", n + 1>> \in Logs
  BY <1>1, NumLinesAssumption DEF EmitLine, Logs, Lines
<1> QED BY <1>2, AppendedLogs DEF EmitLine

-----------------------------------------------------------------------------
(* The invariant *)

\* The result of a run that was neither stopped nor lost.
CleanSuccess ==
  result.code = "succeeded" /\ ~ result.timedOut /\ ~ result.cancelled

\* Every line of the sandbox has a row, or is among those to be replayed.
LinesAccountedFor == Created("sandbox") \subseteq replay \union stored

\* Lines and the log sink.
LinesInv ==
  /\ born \in Seq(Logs)
  /\ errors \in Nat
  /\ streamedLogIds \subseteq stored

\* The container, and what stopping it leaves behind: one that outlives its client is
\* being removed, or docker failed, and the client did not close with a clean result.
ContainerInv ==
  /\ pc \in ControllerSteps /\ container \in {"up", "gone"}
  /\ pc \notin {"launch", "wait"} => client = "closed"
  /\ pc # "launch" /\ container = "gone" => ending \in Endings
  /\ container = "up" /\ client # "up" => removing \/ errors > 0
  /\ container = "up" /\ pc \notin {"launch", "wait"} => result.code = "nonzero"

\* A cancellation that anyone knows of was requested.
RequestInv == answer \/ cancelled \/ result.cancelled \/ askedEarly => requested

\* What the controller knows at each step, about the result and about the verdict.
StepInv ==
  /\ status # "running" => pc \in {"replay", "recover", "recoverReplay", "done"}
  /\ pc \in {"flush", "decide", "collect"} => result.code \in Endings
  /\ pc = "collect" => /\ ~ result.timedOut /\ ~ result.cancelled
                       /\ result.code \in {"succeeded", "failed"}
  /\ pc = "finalize" => /\ verdict \in FinalStatuses
                        /\ verdict = "cancelled" => requested
                        /\ verdict = "succeeded" => CleanSuccess /\ LinesAccountedFor
  /\ replayed => pc = "done"
  /\ status = "succeeded" => CleanSuccess /\ ~ requested
  /\ status = "succeeded" /\ pc = "replay" => LinesAccountedFor
  /\ status = "succeeded" => pc # "recoverReplay"
  /\ status = "cancelled" => requested

\* A request made while the container ran decides the verdict, unless a call throws.
EarlyInv ==
  askedEarly /\ errors = 0 =>
    /\ pc \notin {"collect", "recover", "recoverReplay"}
    /\ pc = "finalize" => verdict = "cancelled"
    /\ pc \in {"replay", "done"} => status = "cancelled"

RunInv ==
  /\ LinesInv /\ ContainerInv /\ RequestInv /\ StepInv /\ EarlyInv
  /\ LinesSurviveSuccess

LEMMA InitRunInv == Init => RunInv
BY DEF Init, TableInit, SinkInit, StreamInit, RunInv, LinesInv, ContainerInv, RequestInv, StepInv,
   EarlyInv, LinesSurviveSuccess, ControllerSteps, FinalStatuses

-----------------------------------------------------------------------------
(* Steps before the controller decides *)

LEMMA LaunchKeeps == RunInv /\ Launch => RunInv'
<1> SUFFICES ASSUME RunInv, Launch PROVE RunInv'
  OBVIOUS
<1>1. /\ born' \in Seq(Logs) /\ stored \subseteq stored' /\ errors' \in Nat /\ errors' >= errors
  BY AppendStepFacts DEF RunInv, LinesInv, Launch
<1>2. LinesInv' /\ ContainerInv' /\ RequestInv' /\ StepInv' /\ EarlyInv'
  BY <1>1 DEF Launch, RunInv, LinesInv, ContainerInv, RequestInv, StepInv, EarlyInv, requestVars,
     ControllerSteps
<1>3. status' = "running"
  BY DEF Launch, RunInv, StepInv
<1> QED BY <1>2, <1>3 DEF RunInv, LinesSurviveSuccess

LEMMA EmitLineKeeps == RunInv /\ EmitLine => RunInv'
<1> SUFFICES ASSUME RunInv, EmitLine PROVE RunInv'
  OBVIOUS
<1>1. born' \in Seq(Logs)
  BY EmitLineFacts DEF RunInv, LinesInv
<1>2. pc \in {"launch", "wait"} /\ status = "running"
  BY DEF RunInv, ContainerInv, StepInv, EmitLine
<1> QED BY <1>1, <1>2 DEF EmitLine, Push, RunInv, LinesInv, ContainerInv, RequestInv, StepInv,
     EarlyInv, requestVars, controllerVars, timerVars, clientVars, LinesSurviveSuccess

LEMMA TimersKeep ==
  RunInv /\ (ContainerEnds \/ TimeoutFires \/ AskCancellation \/ HearCancellation \/ ForceKill \/ RemovalEnds) => RunInv'
<1> SUFFICES ASSUME RunInv,
                    ContainerEnds \/ TimeoutFires \/ AskCancellation \/ HearCancellation \/ ForceKill \/ RemovalEnds
             PROVE  RunInv'
  OBVIOUS
<1>1. /\ UNCHANGED <<tableVars, streamedLogIds, controllerVars, requestVars>>
      /\ errors' \in Nat /\ errors' >= errors
  BY DEF RunInv, LinesInv, ContainerEnds, TimeoutFires, AskCancellation, HearCancellation, ForceKill,
     RemovalEnds, sinkVars, tableVars, Throws
<1>2. ContainerInv'
  <2> USE <1>1 DEF RunInv, LinesInv, ContainerInv, controllerVars, clientVars
  <2>1. CASE ContainerEnds
    BY <2>1 DEF ContainerEnds, timerVars
  <2>2. CASE AskCancellation
    BY <2>2 DEF AskCancellation
  <2>3. CASE TimeoutFires \/ HearCancellation
    <3>1. UNCHANGED clientVars
      BY <2>3 DEF TimeoutFires, HearCancellation
    <3> QED BY <3>1
  <2>4. CASE ForceKill
    BY <2>4 DEF ForceKill
  <2>5. CASE RemovalEnds
    <3>1. /\ container' = "gone" \/ (container' = container /\ errors' > 0)
          /\ container = "gone" => container' = "gone" /\ ending' = ending
          /\ container' = "gone" /\ container = "up" => ending' = "nonzero"
          /\ UNCHANGED client
      BY <2>5 DEF RemovalEnds, Throws
    <3>2. pc # "launch" /\ container' = "gone" => ending' \in Endings
      BY <3>1 DEF Endings
    <3> QED BY <3>1, <3>2
  <2> QED BY <2>1, <2>2, <2>3, <2>4, <2>5
<1>3. RequestInv'
  BY <1>1 DEF RunInv, RequestInv, ContainerEnds, TimeoutFires, AskCancellation, HearCancellation,
     ForceKill, RemovalEnds, controllerVars, requestVars, timerVars
<1>4. Created("sandbox")' = Created("sandbox")
  BY <1>1 DEF Created, tableVars
<1>5. LinesInv' /\ StepInv' /\ EarlyInv' /\ LinesSurviveSuccess'
  BY <1>1, <1>4 DEF RunInv, LinesInv, StepInv, EarlyInv, LinesSurviveSuccess, CleanSuccess,
     LinesAccountedFor, tableVars, controllerVars, requestVars
<1> QED BY <1>2, <1>3, <1>5 DEF RunInv

\* "close" brings the result, and the end of the lines.
LEMMA ClientClosesKeeps == RunInv /\ ClientCloses => RunInv'
<1> SUFFICES ASSUME RunInv, ClientCloses PROVE RunInv'
  OBVIOUS
<1>1. /\ UNCHANGED <<tableVars, streamedLogIds, container, ending, removing, answer, timedOut,
                     cancelled, killed, verdict, replay, replayed, requestVars>>
      /\ pc = "wait" /\ pc' = "flush" /\ client' = "closed"
      /\ result' = [code |-> IF client = "up" /\ container = "gone" THEN ending ELSE "nonzero",
                    timedOut |-> timedOut, cancelled |-> cancelled]
  BY DEF ClientCloses, Flush
<1>2. /\ errors' \in Nat /\ errors' >= errors
      /\ container = "gone" \/ client = "killed" \/ errors' > 0
  BY DEF ClientCloses, Flush, Throws, RunInv, LinesInv
<1>3. ContainerInv'
  BY <1>1, <1>2 DEF RunInv, LinesInv, ContainerInv, ControllerSteps
<1>4. status = "running"
  BY <1>1 DEF RunInv, StepInv
<1>5. result'.code \in Endings /\ (result'.cancelled => requested)
  BY <1>1 DEF RunInv, ContainerInv, RequestInv, Endings
<1> QED BY <1>1, <1>2, <1>3, <1>4, <1>5 DEF RunInv, LinesInv, RequestInv, StepInv, EarlyInv,
     LinesSurviveSuccess, tableVars, requestVars

\* Steps of the sink and of the viewer, and a cancellation request, change no place
\* of the controller; what they store stays stored.
LEMMA OthersKeep ==
  RunInv /\ (RequestCancellation \/ Sink \/ Stream \/ StreamBreaks \/ UNCHANGED vars) => RunInv'
<1> SUFFICES ASSUME RunInv, RequestCancellation \/ Sink \/ Stream \/ StreamBreaks \/ UNCHANGED vars
             PROVE  RunInv'
  OBVIOUS
<1>1. /\ UNCHANGED <<status, born, clientVars, timerVars, controllerVars>>
      /\ stored \subseteq stored' /\ streamedLogIds' \subseteq stored'
      /\ errors' \in Nat /\ errors' >= errors
  <2> USE DEF RunInv, LinesInv, RunOnly, tableVars, sinkVars
  <2>1. CASE RequestCancellation
    BY <2>1 DEF RequestCancellation
  <2>2. CASE TimerFires /\ UNCHANGED RunOnly
    BY <2>2 DEF TimerFires
  <2>3. CASE BatchStored /\ UNCHANGED RunOnly
    BY <2>3 DEF BatchStored, Insert
  <2>4. CASE BatchThrows /\ UNCHANGED RunOnly
    <3>1. stored \subseteq stored'
      BY <2>4 DEF BatchThrows, Insert
    <3> QED BY <2>4, <3>1 DEF BatchThrows, Throws
  <2>5. CASE Stream
    <3>1. UNCHANGED tableVars
      BY <2>5, Zenon DEF Stream, Poll, ReadStatus, SendRows
    <3> QED BY <2>5, <3>1 DEF Stream
  <2>6. CASE StreamBreaks
    BY <2>6 DEF StreamBreaks, Reconnect, Throws
  <2>7. CASE UNCHANGED vars
    BY <2>7 DEF vars
  <2> QED BY <2>1, <2>2, <2>3, <2>4, <2>5, <2>6, <2>7 DEF Sink, SinkStep
<1>2. Created("sandbox")' = Created("sandbox")
  BY <1>1 DEF Created
<1>3. \/ UNCHANGED requestVars
      \/ /\ status = "running" /\ requested'
         /\ askedEarly' <=> pc \in {"launch", "wait"}
  BY DEF RequestCancellation, Sink, Stream, StreamBreaks, RunOnly, vars
<1>4. LinesInv' /\ ContainerInv' /\ RequestInv'
  BY <1>1, <1>3 DEF RunInv, LinesInv, ContainerInv, RequestInv,
     clientVars, timerVars, controllerVars, requestVars
<1>5. /\ CleanSuccess' <=> CleanSuccess
      /\ LinesAccountedFor => LinesAccountedFor'
  BY <1>1, <1>2 DEF CleanSuccess, LinesAccountedFor, controllerVars
<1>6. StepInv'
  BY <1>1, <1>3, <1>5 DEF RunInv, StepInv, controllerVars, requestVars
<1>7. EarlyInv'
  <2> SUFFICES ASSUME askedEarly', errors' = 0
               PROVE  EarlyInv'
    BY DEF EarlyInv
  <2>1. errors = 0 /\ UNCHANGED <<pc, verdict, status>>
    BY <1>1 DEF RunInv, LinesInv, controllerVars
  <2>2. askedEarly \/ pc \in {"launch", "wait"}
    BY <1>3 DEF requestVars
  <2> QED BY <2>1, <2>2 DEF RunInv, EarlyInv
<1>8. LinesSurviveSuccess'
  BY <1>1, <1>2 DEF RunInv, LinesSurviveSuccess, controllerVars
<1> QED BY <1>4, <1>6, <1>7, <1>8 DEF RunInv

-----------------------------------------------------------------------------
(* The controller's steps *)

\* What all of them leave alone.
LEMMA ControllerFacts ==
  ASSUME RunInv, Controller
  PROVE  /\ UNCHANGED <<streamedLogIds, streamVars, clientVars, timerVars, requestVars>>
         /\ LinesInv'
         /\ ContainerInv'
         /\ Created("sandbox")' = Created("sandbox")
         /\ stored \subseteq stored'
         /\ errors' \in Nat /\ errors' >= errors
<1>1. /\ UNCHANGED <<streamedLogIds, streamVars, clientVars, timerVars, requestVars, result>>
      /\ pc \in ControllerSteps \ {"launch", "wait"}
      /\ pc' \in ControllerSteps \ {"launch", "wait"}
  BY DEF Controller, ReportWait, Decide, Collect, Finalize, ReplayLogs, Recover, Elsewhere,
     sinkVars, ControllerSteps, tableVars
<1>2. /\ born' \in Seq(Logs) /\ Created("sandbox")' = Created("sandbox")
      /\ stored \subseteq stored' /\ errors' \in Nat /\ errors' >= errors
  <2> USE DEF RunInv, LinesInv
  <2>1. CASE AppendStep(2) \/ AppendStep(3)
    BY <2>1, AppendStepFacts
  <2>2. CASE UNCHANGED born /\ stored \subseteq stored' /\ (UNCHANGED errors \/ Throws)
    BY <2>2 DEF Created, Throws
  <2>3. (AppendStep(2) \/ AppendStep(3)) \/ (UNCHANGED born /\ stored \subseteq stored' /\ (UNCHANGED errors \/ Throws))
    BY DEF Controller, ReportWait, Decide, Collect, Finalize, ReplayLogs, Recover, sinkVars, tableVars, Insert
  <2> QED BY <2>1, <2>2, <2>3
<1>3. LinesInv' /\ ContainerInv'
  BY <1>1, <1>2 DEF RunInv, LinesInv, ContainerInv, clientVars, timerVars
<1> QED BY <1>1, <1>2, <1>3

LEMMA ReportWaitKeeps == RunInv /\ ReportWait => RunInv'
<1> SUFFICES ASSUME RunInv, ReportWait PROVE RunInv'
  OBVIOUS
<1>1. /\ LinesInv' /\ ContainerInv' /\ UNCHANGED <<timerVars, requestVars>>
      /\ errors' >= errors /\ errors' \in Nat /\ errors \in Nat
  BY ControllerFacts DEF Controller, RunInv, LinesInv
<1>2. /\ UNCHANGED <<result, status, verdict, replay, replayed>>
      /\ pc = "flush" /\ (pc' = "decide" \/ (pc' = "recover" /\ errors' > 0))
  <2>1. /\ pc = "flush" /\ (pc' = "decide" \/ (pc' = "recover" /\ Throws))
        /\ UNCHANGED <<result, status, verdict, replay, replayed>>
    BY DEF ReportWait
  <2>2. Throws => errors' > 0
    BY <1>1 DEF Throws
  <2> QED BY <2>1, <2>2
<1>3. status = "running"
  BY <1>2 DEF RunInv, StepInv
<1> QED BY <1>1, <1>2, <1>3 DEF RunInv, RequestInv, StepInv, EarlyInv, LinesSurviveSuccess, timerVars, requestVars

LEMMA DecideKeeps == RunInv /\ Decide => RunInv'
<1> SUFFICES ASSUME RunInv, Decide PROVE RunInv'
  OBVIOUS
<1> DEFINE stop == result.cancelled \/ requested
<1>1. /\ LinesInv' /\ ContainerInv' /\ UNCHANGED <<timerVars, requestVars, result, status, errors, replayed>>
      /\ pc = "decide" /\ status = "running"
      /\ verdict' = IF stop THEN "cancelled" ELSE "failed"
  BY ControllerFacts DEF Controller, Decide, RunInv, StepInv, tableVars, sinkVars
<1>2. /\ stop => pc' = "finalize"
      /\ pc' \in {"finalize", "recover", "collect"}
      /\ pc' = "collect" => ~ stop /\ ~ result.timedOut /\ result.code \notin {"nonzero", "missing"}
  BY DEF Decide
<1>3. stop => requested
  BY DEF RunInv, RequestInv
<1> QED BY <1>1, <1>2, <1>3 DEF RunInv, RequestInv, StepInv, EarlyInv, LinesSurviveSuccess, timerVars,
     requestVars, FinalStatuses, Endings

LEMMA CollectKeeps == RunInv /\ Collect => RunInv'
<1> SUFFICES ASSUME RunInv, Collect PROVE RunInv'
  OBVIOUS
<1>1. /\ LinesInv' /\ ContainerInv' /\ UNCHANGED <<timerVars, requestVars, result, status, replayed>>
      /\ Created("sandbox")' = Created("sandbox") /\ streamedLogIds \subseteq stored'
      /\ errors' >= errors /\ errors' \in Nat /\ errors \in Nat
      /\ pc = "collect" /\ status = "running"
  BY ControllerFacts DEF Controller, Collect, RunInv, StepInv, LinesInv
<1>2. \/ /\ pc' = "finalize" /\ verdict' = result.code
         /\ Created("sandbox") \ streamedLogIds \subseteq replay'
      \/ pc' = "recover" /\ errors' > 0
  BY <1>1 DEF Collect, Throws
<1>3. CASE pc' = "finalize" /\ verdict' = result.code
           /\ Created("sandbox") \ streamedLogIds \subseteq replay'
  <2>1. LinesAccountedFor'
    BY <1>1, <1>3 DEF LinesAccountedFor
  <2>2. askedEarly => errors > 0
    BY <1>1 DEF RunInv, EarlyInv
  <2> QED BY <1>1, <1>3, <2>1, <2>2 DEF RunInv, RequestInv, StepInv, EarlyInv, LinesSurviveSuccess,
     timerVars, requestVars, FinalStatuses, CleanSuccess
<1>4. CASE pc' = "recover" /\ errors' > 0
  BY <1>1, <1>4 DEF RunInv, RequestInv, StepInv, EarlyInv, LinesSurviveSuccess, timerVars, requestVars
<1> QED BY <1>2, <1>3, <1>4

LEMMA FinalizeKeeps == RunInv /\ Finalize => RunInv'
<1> SUFFICES ASSUME RunInv, Finalize PROVE RunInv'
  OBVIOUS
<1>1. /\ LinesInv' /\ ContainerInv' /\ UNCHANGED <<timerVars, requestVars, result, verdict, replay, replayed, errors, stored>>
      /\ Created("sandbox")' = Created("sandbox")
      /\ pc = "finalize" /\ status = "running"
      /\ \/ pc' = "replay" /\ status' = verdict /\ (verdict = "succeeded" => ~ requested)
         \/ pc' = "done" /\ status' = status /\ verdict = "succeeded" /\ requested
  BY ControllerFacts DEF Controller, Finalize, RunInv, StepInv, sinkVars
<1>2. StepInv'
  BY <1>1 DEF RunInv, StepInv, requestVars, FinalStatuses, CleanSuccess, LinesAccountedFor
<1>3. RequestInv' /\ EarlyInv'
  BY <1>1 DEF RunInv, RequestInv, EarlyInv, timerVars, requestVars
<1>4. LinesSurviveSuccess'
  BY <1>1 DEF RunInv, StepInv, LinesSurviveSuccess
<1> QED BY <1>1, <1>2, <1>3, <1>4 DEF RunInv

LEMMA ReplayLogsKeeps == RunInv /\ ReplayLogs => RunInv'
<1> SUFFICES ASSUME RunInv, ReplayLogs PROVE RunInv'
  OBVIOUS
<1>1. /\ LinesInv' /\ ContainerInv' /\ UNCHANGED <<timerVars, requestVars>>
      /\ Created("sandbox")' = Created("sandbox") /\ stored \subseteq stored'
      /\ errors' >= errors /\ errors' \in Nat /\ errors \in Nat
  BY ControllerFacts DEF Controller, RunInv, LinesInv
<1>2. /\ UNCHANGED <<result, verdict, replay, status>>
      /\ pc \in {"replay", "recoverReplay"}
      /\ \/ stored' = stored \union replay /\ pc' = "done" /\ errors' = errors
         \/ /\ errors' > 0 /\ replayed' = replayed
            /\ pc' = IF pc = "replay" THEN "recover" ELSE "done"
  BY <1>1 DEF ReplayLogs, Throws, Insert
<1>3. LinesSurviveSuccess'
  <2> SUFFICES ASSUME status = "succeeded", replayed'
               PROVE  Created("sandbox") \subseteq stored'
    BY <1>1, <1>2 DEF LinesSurviveSuccess
  <2>1. CASE stored' = stored \union replay
    <3>1. LinesAccountedFor
      BY <1>2 DEF RunInv, StepInv
    <3> QED BY <2>1, <3>1 DEF LinesAccountedFor
  <2>2. CASE replayed' = replayed
    BY <1>1, <2>2 DEF RunInv, LinesSurviveSuccess
  <2> QED BY <1>2, <2>1, <2>2
<1>4. RequestInv' /\ StepInv' /\ EarlyInv'
  BY <1>1, <1>2 DEF RunInv, RequestInv, StepInv, EarlyInv, timerVars, requestVars, CleanSuccess
<1> QED BY <1>1, <1>3, <1>4 DEF RunInv

LEMMA RecoverKeeps == RunInv /\ Recover => RunInv'
<1> SUFFICES ASSUME RunInv, Recover PROVE RunInv'
  OBVIOUS
<1>1. /\ LinesInv' /\ ContainerInv' /\ UNCHANGED <<timerVars, requestVars, result, verdict, replayed, errors, stored>>
      /\ Created("sandbox")' = Created("sandbox")
      /\ pc = "recover"
      /\ \/ status = "running" /\ status' = "failed" /\ pc' = "recoverReplay"
         \/ status # "running" /\ status' = status /\ pc' = "done"
  BY ControllerFacts DEF Controller, Recover, RunInv, sinkVars
<1> QED BY <1>1 DEF RunInv, RequestInv, StepInv, EarlyInv, LinesSurviveSuccess, timerVars, requestVars,
     FinalStatuses, CleanSuccess

LEMMA NextKeeps == RunInv /\ [Next]_vars => RunInv'
BY LaunchKeeps, EmitLineKeeps, TimersKeep, ClientClosesKeeps, OthersKeep, ReportWaitKeeps, DecideKeeps,
   CollectKeeps, FinalizeKeeps, ReplayLogsKeeps, RecoverKeeps DEF Next, Controller

-----------------------------------------------------------------------------
(* The theorems *)

\* The invariant of a run holds, whatever order timers, polls, events of the client
\* and the controller's awaits come in, and whatever throws.
THEOREM RunInvariant == Spec => []RunInv
BY InitRunInv, NextKeeps, PTL DEF Spec

\* The verdict of a job fits its run: the order of the controller's checks, the
\* transaction's own condition and the catch block leave no way for a stopped or
\* failed run to succeed, nor for an early cancellation to be lost to a race.
THEOREM VerdictsFit == Spec => []VerdictFits
<1>1. RunInv => VerdictFits
  BY DEF RunInv, StepInv, EarlyInv, VerdictFits, CleanSuccess
<1> QED BY <1>1, RunInvariant, PTL

\* A line of a successful job that the sink could not store is among those replayed.
THEOREM SuccessKeepsLines == Spec => []LinesSurviveSuccess
<1>1. RunInv => LinesSurviveSuccess
  BY DEF RunInv
<1> QED BY <1>1, RunInvariant, PTL

\* Nobody awaits "docker rm -f", so a container may outlive its run, but not unnoticed:
\* it is being removed, or docker failed; and the client of a container that is still up
\* closes with an error, so that nothing is collected while it writes and its job does
\* not succeed.
THEOREM ContainersAccountedFor == Spec => []ContainerAccountedFor
<1>1. RunInv => ContainerAccountedFor
  BY DEF RunInv, ContainerInv, StepInv, CleanSuccess, ContainerAccountedFor
<1> QED BY <1>1, RunInvariant, PTL

-----------------------------------------------------------------------------
(* The viewer of the stream *)

\* A log that was created is at its place.
PlacesOfBorn ==
  born \in Seq(Logs) => \A r \in ToSet(born) : Place(r) \in 1 .. Len(born) /\ born[Place(r)] = r

\* That is so before a step,
LEMMA PlaceOfBorn == PlacesOfBorn
<1> SUFFICES ASSUME born \in Seq(Logs), NEW r \in ToSet(born)
             PROVE  Place(r) \in 1 .. Len(born) /\ born[Place(r)] = r
  BY DEF PlacesOfBorn
<1>1. DOMAIN born = 1 .. Len(born)
  BY LenProperties
<1>2. \E i \in DOMAIN born : born[i] = r
  BY DEF ToSet
<1> QED BY <1>1, <1>2 DEF Place

\* and after it.
LEMMA PlaceOfBornNext == PlacesOfBorn'
BY PlaceOfBorn, PTL

\* The rows as they are ordered are all of them, each once, the older first.
LEMMA OrderedRows ==
  ASSUME born \in Seq(Logs), NEW S, S \subseteq ToSet(born)
  PROVE  /\ Ordered(S) \in Seq(S) /\ ToSet(Ordered(S)) = S
         /\ Len(Ordered(S)) = Cardinality(S)
         /\ \A i, j \in 1 .. Len(Ordered(S)) : i < j => Place(Ordered(S)[i]) < Place(Ordered(S)[j])
<1> DEFINE N == Cardinality(S)
           upTo(r) == {q \in S : Place(q) <= Place(r)}
           rank == [r \in S |-> Cardinality(upTo(r))]
           o == [n \in 1 .. N |-> CHOOSE r \in S : Cardinality(upTo(r)) = n]
<1>1. IsFiniteSet(S) /\ N \in Nat
  BY FiniteLogs
<1>2. \A r \in S : Place(r) \in Nat /\ born[Place(r)] = r
  BY PlaceOfBorn DEF PlacesOfBorn
<1>3. ASSUME NEW r \in S PROVE rank[r] \in 1 .. N
  <2>1. IsFiniteSet(upTo(r)) /\ Cardinality(upTo(r)) <= N
    BY <1>1, FS_Subset
  <2>2. r \in upTo(r)
    BY <1>2
  <2>3. Cardinality(upTo(r)) \in Nat /\ Cardinality(upTo(r)) # 0
    BY <2>1, <2>2, FS_CardinalityType, FS_EmptySet
  <2> QED BY <1>1, <2>1, <2>3
<1>4. ASSUME NEW r \in S, NEW q \in S, rank[q] <= rank[r] PROVE Place(q) <= Place(r)
  <2> SUFFICES ASSUME Place(r) < Place(q) PROVE FALSE
    BY <1>2
  <2>1. upTo(r) \subseteq upTo(q) /\ q \in upTo(q) /\ q \notin upTo(r)
    BY <1>2
  <2>2. IsFiniteSet(upTo(q))
    BY <1>1, FS_Subset
  <2>3. Cardinality(upTo(r)) <= Cardinality(upTo(q)) /\ Cardinality(upTo(r)) # Cardinality(upTo(q))
    BY <2>1, <2>2, FS_Subset
  <2> QED BY <1>1, <1>3, <1>4, <2>3
<1>5. \A r, q \in S : rank[r] = rank[q] => r = q
  <2> SUFFICES ASSUME NEW r \in S, NEW q \in S, rank[r] = rank[q] PROVE r = q
    OBVIOUS
  <2>1. rank[r] \in Nat /\ rank[q] \in Nat
    BY <1>1, <1>3
  <2>2. rank[q] <= rank[r] /\ rank[r] <= rank[q]
    BY <2>1
  <2> HIDE DEF rank
  <2>3. Place(q) <= Place(r)
    BY <1>4, <2>2
  <2>4. Place(r) <= Place(q)
    BY <1>4, <2>2
  <2>5. Place(r) = Place(q)
    BY <1>2, <2>3, <2>4
  <2> QED BY <1>2, <2>5
<1>6. rank \in Surjection(S, 1 .. N)
  <2>1. rank \in Injection(S, 1 .. N)
    BY <1>3, <1>5 DEF Injection, IsInjective
  <2>2. IsFiniteSet(1 .. N) /\ Cardinality(1 .. N) = N
    BY <1>1, FS_Interval
  <2> QED BY <2>1, <2>2, FS_Injection
<1>7. \A n \in 1 .. N : o[n] \in S /\ rank[o[n]] = n
  <2> SUFFICES ASSUME NEW n \in 1 .. N PROVE o[n] \in S /\ rank[o[n]] = n
    OBVIOUS
  <2>1. \E r \in S : rank[r] = n
    BY <1>6 DEF Surjection
  <2> QED BY <2>1
<1>8. Ordered(S) = o
  BY DEF Ordered
<1> HIDE DEF o, rank, N
<1>9. o \in Seq(S) /\ Len(o) = N /\ DOMAIN o = 1 .. N
  <2>1. o \in [1 .. N -> S]
    BY <1>7 DEF o
  <2> QED BY <1>1, <2>1, SeqDef, LenProperties
<1>10. ToSet(o) = S
  <2>1. \A r \in S : o[rank[r]] = r
    BY <1>3, <1>5, <1>7
  <2> QED BY <1>3, <1>7, <1>9, <2>1 DEF ToSet
<1>11. \A i, j \in 1 .. N : i < j => Place(o[i]) < Place(o[j])
  <2> SUFFICES ASSUME NEW i \in 1 .. N, NEW j \in 1 .. N, i < j PROVE Place(o[i]) < Place(o[j])
    OBVIOUS
  <2>1. o[i] \in S /\ o[j] \in S /\ rank[o[i]] = i /\ rank[o[j]] = j
    BY <1>7
  <2>2. ~ (Place(o[j]) <= Place(o[i]))
    <3> SUFFICES ASSUME Place(o[j]) <= Place(o[i]) PROVE FALSE
      OBVIOUS
    <3>1. upTo(o[j]) \subseteq upTo(o[i])
      BY <1>2, <2>1
    <3>2. Cardinality(upTo(o[j])) <= Cardinality(upTo(o[i]))
      BY <1>1, <3>1, FS_Subset
    <3> QED BY <2>1, <3>2, <1>1 DEF rank
  <2> QED BY <1>2, <2>1, <2>2
<1> QED BY <1>8, <1>9, <1>10, <1>11 DEF N

-----------------------------------------------------------------------------
(* What was created, and what of it has a row *)

\* Logs are created once, and only what was created waits, is replayed or has a row.
CreatedInv ==
  /\ IsInjective(born)
  /\ Created("sandbox") = {"sandbox"} \X (1 .. Cardinality(Created("sandbox")))
  /\ pc = "launch" => Created("controller") = {}
  /\ pc \in {"wait", "flush"} => Created("controller") = {<<"controller", 1>>}
  /\ pc \in {"decide", "collect"} => <<"controller", 3>> \notin ToSet(born)
  /\ {pendingLogs, batch} \subseteq Seq(ToSet(born))
  /\ stored \union replay \subseteq ToSet(born)

\* What a step does to the rows, as far as a viewer has to know.
RowsGrow ==
  /\ \A r \in stored : Place(r)' = Place(r)
  /\ stored \subseteq stored' /\ stored' \subseteq ToSet(born')
  /\ inOrder \subseteq inOrder' /\ inOrder' \subseteq inOrder \union stored'
  /\ \A r \in inOrder' \ inOrder :
       status = "running" /\ \A q \in stored : Place(q) < Place(r)'
  /\ status \in FinalStatuses => status' = status

\* A log that was not created yet becomes the youngest one.
LEMMA NewLog ==
  ASSUME born \in Seq(Logs), IsInjective(born), NEW log \in Logs, log \notin ToSet(born),
         born' = Append(born, log)
  PROVE  /\ born' \in Seq(Logs) /\ IsInjective(born') /\ ToSet(born') = ToSet(born) \union {log}
         /\ \A r \in ToSet(born) : Place(r)' = Place(r) /\ Place(r) < Place(log)'
<1>1. /\ born' \in Seq(Logs) /\ ToSet(born') = ToSet(born) \union {log}
  BY AppendedLogs
<1>2. /\ DOMAIN born' = 1 .. (Len(born) + 1) /\ DOMAIN born = 1 .. Len(born) /\ Len(born) \in Nat
      /\ \A i \in 1 .. Len(born) : born'[i] = born[i]
      /\ born'[Len(born) + 1] = log
  BY AppendProperties, LenProperties
<1>3. \A i \in 1 .. Len(born) : born'[i] # log
  BY <1>2 DEF ToSet
<1>4. IsInjective(born')
  BY <1>2, <1>3 DEF IsInjective
<1>5. Place(log)' = Len(born) + 1
  <2>1. \A i \in DOMAIN born' : born'[i] = log <=> i = Len(born) + 1
    BY <1>2, <1>3
  <2>2. Len(born) + 1 \in DOMAIN born'
    BY <1>2
  <2> QED BY <2>1, <2>2 DEF Place
<1>6. ASSUME NEW r \in ToSet(born) PROVE Place(r)' = Place(r) /\ Place(r) < Place(log)'
  <2>1. Place(r) \in 1 .. Len(born) /\ born[Place(r)] = r
    BY PlaceOfBorn DEF PlacesOfBorn
  <2>2. \A i \in DOMAIN born' : born'[i] = r <=> i = Place(r)
    BY <1>2, <1>3, <2>1 DEF IsInjective
  <2>3. Place(r)' = Place(r)
    BY <1>2, <2>1, <2>2 DEF Place
  <2> QED BY <1>2, <1>5, <2>1, <2>3
<1> QED BY <1>1, <1>4, <1>6

\* A sequence of logs that were created is one when there are more.
LEMMA MoreBorn ==
  ASSUME NEW S, NEW T, S \subseteq T, NEW s \in Seq(S)
  PROVE  s \in Seq(T)
BY SeqDef

\* What the sink takes of its logs, and what it leaves, is of its logs.
LEMMA Parted ==
  ASSUME NEW S, NEW s \in Seq(S)
  PROVE  Taken(s) \in Seq(S) /\ Left(s) \in Seq(S)
<1>1. Len(s) \in Nat /\ BatchSize \in Nat /\ BatchSize # 0
  BY SinkAssumption, LenProperties
<1>2. \A n \in 0 .. Len(s) : SubSeq(s, 1, n) \in Seq(S) /\ Len(SubSeq(s, 1, n)) = n
  BY <1>1, SubSeqProperties
<1>3. Taken(s) \in Seq(S) /\ Len(Taken(s)) \in 0 .. Len(s)
  BY <1>1, <1>2 DEF Taken
<1>4. Left(s) \in Seq(S)
  <2>1. \A m \in 1 .. (Len(s) + 1) : SubSeq(s, m, Len(s)) \in Seq(S)
    BY <1>1, SubSeqProperties
  <2> QED BY <1>1, <1>3, <2>1 DEF Left
<1> QED BY <1>3, <1>4

\* So is what a drain makes of them.
LEMMA Drained ==
  ASSUME NEW S, NEW s \in Seq(S), batch \in Seq(S), Drain(s)
  PROVE  batch' \in Seq(S) /\ pendingLogs' \in Seq(S)
BY Parted DEF Drain

\* appendLog with a step that was not logged yet.
LEMMA StepLogged ==
  ASSUME RunInv, CreatedInv, NEW n \in 1 .. 3, <<"controller", n>> \notin ToSet(born),
         AppendStep(n), status' = status
  PROVE  /\ RowsGrow /\ IsInjective(born') /\ stored' \subseteq ToSet(born')
         /\ ToSet(born') = ToSet(born) \union {<<"controller", n>>}
         /\ Created("sandbox")' = Created("sandbox")
         /\ Created("controller")' = Created("controller") \union {<<"controller", n>>}
<1> DEFINE log == <<"controller", n>>
<1>1. log \in Logs /\ born \in Seq(Logs) /\ born' = Append(born, log) /\ IsInjective(born)
  BY DEF Logs, Steps, RunInv, LinesInv, AppendStep, CreatedInv
<1>2. /\ IsInjective(born') /\ ToSet(born') = ToSet(born) \union {log}
      /\ \A r \in ToSet(born) : Place(r)' = Place(r) /\ Place(r) < Place(log)'
  BY <1>1, NewLog
<1>3. stored \subseteq ToSet(born)
  BY DEF CreatedInv
<1>4. stored' \subseteq stored \union {log} /\ stored \subseteq stored'
  BY DEF AppendStep
<1>5. /\ inOrder \subseteq inOrder' /\ inOrder' \subseteq inOrder \union stored'
      /\ \A r \in inOrder' \ inOrder : r = log /\ status = "running"
  BY DEF AppendStep
<1>6. RowsGrow
  BY <1>2, <1>3, <1>4, <1>5 DEF RowsGrow
<1>7. Created("sandbox")' = Created("sandbox") /\ Created("controller")' = Created("controller") \union {log}
  BY <1>2 DEF Created
<1> QED BY <1>2, <1>3, <1>4, <1>6, <1>7

\* createManyLogs of logs that were created.
LEMMA RowsInserted ==
  ASSUME CreatedInv, NEW rows, rows \subseteq ToSet(born), Insert(rows), UNCHANGED <<born, status>>
  PROVE  RowsGrow
<1>1. stored \subseteq ToSet(born) /\ stored' = stored \union rows
  BY DEF CreatedInv, Insert
<1>2. \A r : Place(r)' = Place(r)
  BY DEF Place
<1>3. /\ inOrder \subseteq inOrder' /\ inOrder' \subseteq inOrder \union stored'
      /\ \A r \in inOrder' \ inOrder :
           r \in rows /\ status = "running" /\ \A q \in stored : Place(q) < Place(r)
  BY <1>1 DEF Insert
<1> QED BY <1>1, <1>2, <1>3 DEF RowsGrow

\* No log and no row is new.
LEMMA RowsStay ==
  ASSUME CreatedInv, UNCHANGED <<born, stored, inOrder>>, status \in FinalStatuses => status' = status
  PROVE  RowsGrow
<1>1. \A r : Place(r)' = Place(r)
  BY DEF Place
<1> QED BY <1>1 DEF RowsGrow, CreatedInv

\* The logs are the same ones: what else changed is among them.
LEMMA CreatedStays ==
  ASSUME CreatedInv, born' = born, {pendingLogs', batch'} \subseteq Seq(ToSet(born)),
         stored' \union replay' \subseteq ToSet(born),
         \/ pc' = pc
         \/ pc = "wait" /\ pc' = "flush"
         \/ pc = "decide" /\ pc' = "collect"
         \/ pc' \in {"finalize", "replay", "recover", "recoverReplay", "done"}
  PROVE  CreatedInv'
<1>1. ToSet(born') = ToSet(born) /\ \A kind : Created(kind)' = Created(kind)
  BY DEF Created
<1> QED BY <1>1 DEF CreatedInv

\* The elements of a sequence.
LEMMA ElementsOf == ASSUME NEW S, NEW s \in Seq(S) PROVE ToSet(s) \subseteq S
BY ElementOfSeq, LenProperties DEF ToSet

\* A line of the sandbox that is emitted is one more.
LEMMA LineEmitted ==
  ASSUME RunInv, CreatedInv, EmitLine
  PROVE  RowsGrow /\ CreatedInv'
<1> DEFINE k == Cardinality(Created("sandbox"))
           log == <<"sandbox", k + 1>>
<1>1. k \in Nat /\ IsFiniteSet(Created("sandbox")) /\ born \in Seq(Logs)
  BY FiniteLogs DEF Created, RunInv, LinesInv
<1>2. k < NumLines /\ born' = Append(born, log) /\ Push(log)
      /\ UNCHANGED <<status, stored, inOrder, pc, replay>>
  BY DEF EmitLine, controllerVars
<1>3. Created("sandbox") = {"sandbox"} \X (1 .. k) /\ IsInjective(born)
  BY DEF CreatedInv
<1> HIDE DEF k
<1>4. log \in Logs
  BY <1>1, <1>2, NumLinesAssumption DEF Logs, Lines
<1>5. log \notin Created("sandbox")
  BY <1>1, <1>3
<1>6. log \notin ToSet(born)
  BY <1>5 DEF Created
<1>7. /\ IsInjective(born') /\ ToSet(born') = ToSet(born) \union {log}
      /\ \A r \in ToSet(born) : Place(r)' = Place(r)
  BY <1>1, <1>2, <1>3, <1>4, <1>6, NewLog
<1>8. RowsGrow
  BY <1>2, <1>7 DEF RowsGrow, CreatedInv
<1>9. /\ Created("sandbox")' = Created("sandbox") \union {log}
      /\ Created("controller")' = Created("controller")
      /\ <<"controller", 3>> \in ToSet(born') => <<"controller", 3>> \in ToSet(born)
  BY <1>7 DEF Created
<1>10. Created("sandbox")' = {"sandbox"} \X (1 .. Cardinality(Created("sandbox")')) 
  <2>1. Cardinality(Created("sandbox")') = k + 1
    BY <1>1, <1>5, <1>9, FS_AddElement DEF k
  <2>2. Created("sandbox")' = {"sandbox"} \X (1 .. (k + 1))
    BY <1>1, <1>3, <1>9
  <2> QED BY <2>1, <2>2
<1>11. {pendingLogs', batch'} \subseteq Seq(ToSet(born'))
  <2>1. pendingLogs \in Seq(ToSet(born')) /\ batch \in Seq(ToSet(born'))
    BY <1>7, MoreBorn DEF CreatedInv
  <2>2. Append(pendingLogs, log) \in Seq(ToSet(born'))
    BY <1>7, <2>1, AppendProperties
  <2>3. \/ Drain(Append(pendingLogs, log))
        \/ pendingLogs' = Append(pendingLogs, log) /\ batch' = batch
    BY <1>2 DEF Push
  <2> QED BY <2>1, <2>2, <2>3, Drained
<1>12. stored' \union replay' \subseteq ToSet(born')
  BY <1>2, <1>7 DEF CreatedInv
<1> QED BY <1>2, <1>7, <1>8, <1>9, <1>10, <1>11, <1>12 DEF CreatedInv

\* What the sink does with its logs.
LEMMA SinkGrows ==
  ASSUME RunInv, CreatedInv, SinkStep, UNCHANGED controllerVars
  PROVE  RowsGrow /\ CreatedInv'
<1>0. /\ pendingLogs \in Seq(ToSet(born)) /\ batch \in Seq(ToSet(born))
      /\ stored \union replay \subseteq ToSet(born) /\ pc' = pc /\ replay' = replay
  BY DEF CreatedInv, controllerVars
<1>1. CASE TimerFires
  <2>1. UNCHANGED tableVars /\ Drain(pendingLogs)
    BY <1>1 DEF TimerFires
  <2>2. {pendingLogs', batch'} \subseteq Seq(ToSet(born))
    BY <1>0, <2>1, Drained
  <2> QED BY <1>0, <2>1, <2>2, RowsStay, CreatedStays DEF tableVars
<1>2. CASE BatchStored
  <2>1. /\ Insert(ToSet(batch)) /\ UNCHANGED <<born, status>>
        /\ batch' = Taken(pendingLogs) /\ pendingLogs' = Left(pendingLogs)
    BY <1>2 DEF BatchStored
  <2>2. {pendingLogs', batch'} \subseteq Seq(ToSet(born)) /\ ToSet(batch) \subseteq ToSet(born)
    BY <1>0, <2>1, Parted, ElementsOf
  <2>3. stored' \union replay' \subseteq ToSet(born)
    BY <1>0, <2>1, <2>2 DEF Insert
  <2> QED BY <1>0, <2>1, <2>2, <2>3, RowsInserted, CreatedStays
<1>3. CASE BatchThrows
  <2>1. /\ Insert(ToSet(batch)) \/ UNCHANGED <<stored, inOrder>>
        /\ UNCHANGED <<born, status>>
        /\ batch' = <<>> /\ pendingLogs' = batch \o pendingLogs
    BY <1>3 DEF BatchThrows
  <2>2. {pendingLogs', batch'} \subseteq Seq(ToSet(born)) /\ ToSet(batch) \subseteq ToSet(born)
    BY <1>0, <2>1, ConcatProperties, EmptySeq, ElementsOf
  <2>3. stored' \union replay' \subseteq ToSet(born)
    BY <1>0, <2>1, <2>2 DEF Insert
  <2> QED BY <1>0, <2>1, <2>2, <2>3, RowsInserted, RowsStay, CreatedStays
<1> QED BY <1>1, <1>2, <1>3 DEF SinkStep

\* The client closes: the sink's flush begins.
LEMMA CloseGrows ==
  ASSUME CreatedInv, ClientCloses
  PROVE  RowsGrow /\ CreatedInv'
<1>1. UNCHANGED tableVars /\ replay' = replay /\ pc = "wait" /\ pc' = "flush"
  BY DEF ClientCloses
<1>2. Drain(pendingLogs)
  BY DEF ClientCloses, Flush
<1>3. {pendingLogs', batch'} \subseteq Seq(ToSet(born))
  BY <1>2, Drained DEF CreatedInv
<1>4. stored' \union replay' \subseteq ToSet(born)
  BY <1>1 DEF CreatedInv, tableVars
<1> QED BY <1>1, <1>3, <1>4, RowsStay, CreatedStays DEF tableVars

\* The steps that log: the launch, the wait and the collection.
LEMMA LogsGrow ==
  ASSUME RunInv, CreatedInv, Launch \/ ReportWait \/ Collect
  PROVE  RowsGrow /\ CreatedInv'
<1>0. /\ {pendingLogs, batch} \subseteq Seq(ToSet(born)) /\ UNCHANGED <<pendingLogs, batch, status>>
      /\ stored \union replay \subseteq ToSet(born)
      /\ Created("sandbox") = {"sandbox"} \X (1 .. Cardinality(Created("sandbox")))
  BY DEF CreatedInv, Launch, ReportWait, Collect
<1>1. ASSUME NEW n \in 1 .. 3, <<"controller", n>> \notin ToSet(born), AppendStep(n),
             replay' \subseteq ToSet(born'),
             \/ n = 1 /\ pc = "launch" /\ pc' = "wait"
             \/ n = 2 /\ pc = "flush" /\ pc' = "decide"
             \/ n = 3 /\ pc' = "finalize"
      PROVE  RowsGrow /\ CreatedInv'
  <2>1. /\ RowsGrow /\ IsInjective(born') /\ stored' \subseteq ToSet(born')
        /\ ToSet(born') = ToSet(born) \union {<<"controller", n>>}
        /\ Created("sandbox")' = Created("sandbox")
        /\ Created("controller")' = Created("controller") \union {<<"controller", n>>}
    BY <1>0, <1>1, StepLogged
  <2>2. {pendingLogs', batch'} \subseteq Seq(ToSet(born'))
    BY <1>0, <2>1, MoreBorn
  <2>3. /\ pc' = "wait" => Created("controller")' = {<<"controller", 1>>}
        /\ pc' = "decide" => <<"controller", 3>> \notin ToSet(born')
        /\ pc' \in {"wait", "decide", "finalize"}
    <3>1. CASE pc = "launch" /\ n = 1 /\ pc' = "wait"
      BY <2>1, <3>1 DEF CreatedInv
    <3>2. CASE pc = "flush" /\ n = 2 /\ pc' = "decide"
      BY <2>1, <3>2 DEF CreatedInv, Created
    <3>3. CASE pc' = "finalize"
      BY <3>3
    <3> QED BY <1>1, <3>1, <3>2, <3>3
  <2> QED BY <1>0, <1>1, <2>1, <2>2, <2>3 DEF CreatedInv
<1>2. CASE Launch
  <2>1. AppendStep(1) /\ pc = "launch" /\ pc' = "wait" /\ replay' = replay
    BY <1>2 DEF Launch
  <2>2. <<"controller", 1>> \notin ToSet(born)
    BY <2>1 DEF CreatedInv, Created
  <2>3. replay' \subseteq ToSet(born')
    BY <1>0, <2>1, <2>2, StepLogged
  <2> QED BY <1>1, <2>1, <2>2, <2>3
<1>3. CASE ReportWait
  <2>1. CASE AppendStep(2) /\ pc' = "decide"
    <3>1. pc = "flush" /\ replay' = replay
      BY <1>3 DEF ReportWait
    <3>2. <<"controller", 2>> \notin ToSet(born)
      BY <3>1 DEF CreatedInv, Created
    <3>3. replay' \subseteq ToSet(born')
      BY <1>0, <2>1, <3>1, <3>2, StepLogged
    <3> QED BY <1>1, <2>1, <3>1, <3>2, <3>3
  <2>2. CASE pc' = "recover" /\ UNCHANGED <<born, stored, inOrder>>
    <3>1. replay' = replay
      BY <1>3 DEF ReportWait
    <3> QED BY <1>0, <2>2, <3>1, RowsStay, CreatedStays
  <2> QED BY <1>3, <2>1, <2>2 DEF ReportWait
<1>4. CASE Collect
  <2>1. CASE AppendStep(3) /\ pc' = "finalize"
    <3>1. /\ pc = "collect"
          /\ replay' \subseteq Created("sandbox") \union Created("controller") \union {<<"controller", 3>>}
      BY <1>4, <2>1 DEF Collect
    <3>2. <<"controller", 3>> \notin ToSet(born)
      BY <3>1 DEF CreatedInv
    <3>3. ToSet(born') = ToSet(born) \union {<<"controller", 3>>}
      BY <1>0, <2>1, <3>2, StepLogged
    <3>4. replay' \subseteq ToSet(born')
      BY <3>1, <3>2, <3>3 DEF Created
    <3> QED BY <1>1, <2>1, <3>1, <3>2, <3>4
  <2>2. CASE pc' = "recover" /\ UNCHANGED <<born, stored, inOrder, replay>>
    BY <1>0, <2>2, RowsStay, CreatedStays
  <2> QED BY <1>4, <2>1, <2>2 DEF Collect
<1> QED BY <1>2, <1>3, <1>4

\* The other steps of the controller.
LEMMA EndsGrow ==
  ASSUME RunInv, CreatedInv, Decide \/ Finalize \/ ReplayLogs \/ Recover
  PROVE  RowsGrow /\ CreatedInv'
<1>0. /\ {pendingLogs, batch} \subseteq Seq(ToSet(born)) /\ UNCHANGED <<pendingLogs, batch, born>>
      /\ stored \union replay \subseteq ToSet(born) /\ Created("controller") \subseteq ToSet(born)
  BY DEF CreatedInv, Decide, Finalize, ReplayLogs, Recover, sinkVars, tableVars, Created
<1>1. CASE ReplayLogs
  <2>1. /\ Insert(replay) \/ UNCHANGED <<stored, inOrder>>
        /\ replay' = replay /\ status' = status /\ pc' \in {"done", "recover"}
    BY <1>1 DEF ReplayLogs
  <2>2. stored' \union replay' \subseteq ToSet(born)
    BY <1>0, <2>1 DEF Insert
  <2> QED BY <1>0, <2>1, <2>2, RowsInserted, RowsStay, CreatedStays
<1>2. CASE Decide \/ Finalize \/ Recover
  <2>1. /\ UNCHANGED <<stored, inOrder>>
        /\ replay' \subseteq replay \union Created("controller")
        /\ \/ pc = "decide" /\ pc' = "collect"
           \/ pc' \in {"finalize", "replay", "recover", "recoverReplay", "done"}
        /\ status \in FinalStatuses => status' = status
    BY <1>2 DEF Decide, Finalize, Recover, tableVars, FinalStatuses
  <2>2. stored' \union replay' \subseteq ToSet(born)
    BY <1>0, <2>1
  <2> QED BY <1>0, <2>1, <2>2, RowsStay, CreatedStays
<1> QED BY <1>1, <1>2

\* What was created stays so with every step, and rows only grow.
LEMMA RunGrows == RunInv /\ CreatedInv /\ [Next]_vars => RowsGrow /\ CreatedInv'
<1> SUFFICES ASSUME RunInv, CreatedInv, [Next]_vars PROVE RowsGrow /\ CreatedInv'
  OBVIOUS
<1>1. CASE EmitLine
  BY <1>1, LineEmitted
<1>2. CASE Sink
  BY <1>2, SinkGrows DEF Sink, RunOnly
<1>3. CASE ClientCloses
  BY <1>3, CloseGrows
<1>4. CASE Launch \/ Controller
  BY <1>4, LogsGrow, EndsGrow DEF Controller
<1>5. CASE \/ ContainerEnds \/ TimeoutFires \/ AskCancellation \/ HearCancellation \/ ForceKill \/ RemovalEnds
           \/ RequestCancellation \/ Stream \/ StreamBreaks \/ UNCHANGED vars
  <2>1. UNCHANGED <<tableVars, pendingLogs, batch, controllerVars>>
    BY <1>5 DEF ContainerEnds, TimeoutFires, AskCancellation, HearCancellation, ForceKill,
       RemovalEnds, RequestCancellation, Stream, Poll, ReadStatus, SendRows, StreamBreaks, Reconnect, RunOnly,
       sinkVars, vars
  <2>2. /\ UNCHANGED <<born, stored, inOrder, status, pc, replay>>
        /\ {pendingLogs', batch'} \subseteq Seq(ToSet(born))
        /\ stored' \union replay' \subseteq ToSet(born)
    BY <2>1 DEF tableVars, controllerVars, CreatedInv
  <2> QED BY <2>2, RowsStay, CreatedStays
<1> QED BY <1>1, <1>2, <1>3, <1>4, <1>5 DEF Next

-----------------------------------------------------------------------------
(* The viewer *)

\* The cursor is at a row that was stored: what is stored in order later is beyond it.
\* What was stored in order and is not beyond it was sent; and the stream ends after a
\* poll that saw the end of the job first.
StreamInv ==
  /\ sent \in Seq(stored)
  /\ \A i, j \in DOMAIN sent : i < j => Place(sent[i]) < Place(sent[j])
  /\ \A i \in DOMAIN sent : Place(sent[i]) <= cursor
  /\ cursor = 0 \/ \E r \in stored : Place(r) = cursor
  /\ inOrder \subseteq stored
  /\ \A r \in inOrder : Place(r) <= cursor => r \in ToSet(sent)
  /\ envelope \in FinalStatuses \/ poll = "done" => status \in FinalStatuses
  /\ poll = "done" => inOrder \subseteq ToSet(sent)

\* At first nothing was created or sent.
LEMMA InitStreamInv == Init => CreatedInv /\ StreamInv
<1> SUFFICES ASSUME Init PROVE CreatedInv /\ StreamInv
  OBVIOUS
<1>1. /\ born = <<>> /\ stored = {} /\ inOrder = {} /\ sent = <<>> /\ cursor = 0 /\ poll = "idle"
      /\ envelope = "running" /\ pendingLogs = <<>> /\ batch = <<>> /\ replay = {} /\ pc = "launch"
  BY DEF Init, TableInit, SinkInit, StreamInit
<1>2. ToSet(born) = {} /\ \A S : <<>> \in Seq(S)
  BY <1>1, EmptySeq DEF ToSet
<1>3. \A kind : Created(kind) = {}
  BY <1>2 DEF Created
<1>4. Cardinality({}) = 0
  BY FS_EmptySet
<1>5. CreatedInv
  <2>1. IsInjective(born)
    BY <1>1 DEF IsInjective
  <2>2. Created("sandbox") = {"sandbox"} \X (1 .. Cardinality(Created("sandbox")))
    BY <1>3, <1>4
  <2> QED BY <1>1, <1>2, <1>3, <2>1, <2>2 DEF CreatedInv
<1>6. StreamInv
  BY <1>1, <1>2 DEF StreamInv, FinalStatuses
<1> QED BY <1>5, <1>6

\* Rows that are added lie beyond the cursor, or came out of order.
LEMMA ViewerWaits ==
  ASSUME RunInv, RunInv', CreatedInv, RowsGrow, StreamInv, UNCHANGED streamVars
  PROVE  StreamInv'
<1>1. UNCHANGED <<poll, envelope, cursor, sent>>
  BY DEF streamVars
<1>2. /\ sent' \in Seq(stored') /\ DOMAIN sent = 1 .. Len(sent)
      /\ \A i \in DOMAIN sent : sent[i] \in stored
  BY <1>1, MoreBorn, ElementOfSeq, LenProperties DEF StreamInv, RowsGrow
<1>3. DOMAIN sent' = DOMAIN sent /\ \A i \in DOMAIN sent : Place(sent[i])' = Place(sent[i])
  BY <1>1, <1>2 DEF RowsGrow, Place
<1>9. /\ \A i, j \in DOMAIN sent' : i < j => Place(sent[i])' < Place(sent[j])'
      /\ \A i \in DOMAIN sent' : Place(sent[i])' <= cursor'
  BY <1>1, <1>3 DEF StreamInv
<1>4. cursor' = 0 \/ \E r \in stored' : Place(r)' = cursor'
  BY <1>1 DEF StreamInv, RowsGrow
<1>5. inOrder' \subseteq stored'
  BY DEF StreamInv, RowsGrow
<1>6. ASSUME NEW r \in inOrder', Place(r)' <= cursor' PROVE r \in ToSet(sent')
  <2>1. CASE r \in inOrder
    <3>1. r \in stored /\ Place(r)' = Place(r)
      BY <2>1 DEF StreamInv, RowsGrow
    <3> QED BY <1>1, <1>6, <2>1, <3>1 DEF StreamInv
  <2>2. CASE r \notin inOrder
    <3>1. \A q \in stored : Place(q) < Place(r)'
      BY <2>2 DEF RowsGrow
    <3>2. Place(r)' \in Nat /\ Place(r)' > 0
      <4>1. r \in ToSet(born') /\ born' \in Seq(Logs)
        BY <1>5 DEF RowsGrow, RunInv, LinesInv
      <4>2. Place(r)' \in 1 .. Len(born') /\ Len(born') \in Nat
        BY <4>1, PlaceOfBornNext, LenProperties DEF PlacesOfBorn
      <4> QED BY <4>2
    <3>3. \A q \in stored : Place(q) \in Nat
      BY PlaceOfBorn DEF PlacesOfBorn, CreatedInv, RunInv, LinesInv
    <3> QED BY <1>1, <1>6, <3>1, <3>2, <3>3 DEF StreamInv
  <2> QED BY <2>1, <2>2
<1>7. poll' = "done" => inOrder' \subseteq ToSet(sent')
  BY <1>1 DEF StreamInv, RowsGrow, FinalStatuses
<1>8. envelope' \in FinalStatuses \/ poll' = "done" => status' \in FinalStatuses
  BY <1>1 DEF StreamInv, RowsGrow
<1> QED BY <1>2, <1>4, <1>5, <1>6, <1>7, <1>8, <1>9 DEF StreamInv

\* The rows of a poll come after those that were sent, and the last one is the cursor.
LEMMA RowsSent ==
  ASSUME RunInv, CreatedInv, StreamInv, SendRows
  PROVE  /\ sent' \in Seq(stored)
         /\ \A i, j \in DOMAIN sent' : i < j => Place(sent'[i]) < Place(sent'[j])
         /\ \A i \in DOMAIN sent' : Place(sent'[i]) <= cursor'
         /\ cursor' = 0 \/ \E r \in stored : Place(r) = cursor'
         /\ \A r \in inOrder : r \in ToSet(sent')
<1> DEFINE S == RowsAfter(cursor)
           o == Ordered(S)
<1>1. /\ S \subseteq stored /\ stored \subseteq ToSet(born) /\ born \in Seq(Logs)
      /\ \A r \in stored : r \in S \/ Place(r) <= cursor
      /\ \A r \in stored : Place(r) \in Nat
      /\ \A r \in S : Place(r) > cursor
      /\ cursor \in Nat
  <2>1. stored \subseteq ToSet(born) /\ born \in Seq(Logs)
    BY DEF CreatedInv, RunInv, LinesInv
  <2>2. \A r \in stored : Place(r) \in Nat
    BY <2>1, PlaceOfBorn, LenProperties DEF PlacesOfBorn
  <2>3. cursor \in Nat
    BY <2>2 DEF StreamInv
  <2> QED BY <2>1, <2>2, <2>3 DEF RowsAfter
<1>2. /\ o \in Seq(S) /\ ToSet(o) = S /\ Len(o) = Cardinality(S)
      /\ \A i, j \in 1 .. Len(o) : i < j => Place(o[i]) < Place(o[j])
  BY <1>1, OrderedRows
<1>3. sent' = sent \o o /\ cursor' = IF o = <<>> THEN cursor ELSE Place(Last(o))
  BY DEF SendRows
<1> HIDE DEF o, S
<1>4. /\ Len(sent) \in Nat /\ Len(o) \in Nat /\ o \in Seq(stored) /\ sent \in Seq(stored)
      /\ DOMAIN sent = 1 .. Len(sent) /\ DOMAIN o = 1 .. Len(o)
      /\ \A i \in 1 .. Len(o) : o[i] \in S
  BY <1>1, <1>2, MoreBorn, LenProperties, ElementOfSeq DEF StreamInv
<1>5. /\ sent' \in Seq(stored) /\ DOMAIN sent' = 1 .. (Len(sent) + Len(o))
      /\ \A i \in 1 .. Len(sent) : sent'[i] = sent[i]
      /\ \A i \in 1 .. Len(o) : sent'[Len(sent) + i] = o[i]
  <2>1. /\ sent \o o \in Seq(stored) /\ Len(sent \o o) = Len(sent) + Len(o)
        /\ \A i \in 1 .. (Len(sent) + Len(o)) :
             (sent \o o)[i] = IF i <= Len(sent) THEN sent[i] ELSE o[i - Len(sent)]
    BY <1>4, ConcatProperties
  <2> QED BY <1>3, <1>4, <2>1, LenProperties
<1>6. \A i \in DOMAIN sent' : \/ i \in 1 .. Len(sent) /\ sent'[i] = sent[i]
                              \/ \E k \in 1 .. Len(o) : i = Len(sent) + k /\ sent'[i] = o[k]
  <2> SUFFICES ASSUME NEW i \in 1 .. (Len(sent) + Len(o)), ~ (i \in 1 .. Len(sent))
               PROVE  \E k \in 1 .. Len(o) : i = Len(sent) + k /\ sent'[i] = o[k]
    BY <1>5
  <2>1. i - Len(sent) \in 1 .. Len(o) /\ i = Len(sent) + (i - Len(sent))
    BY <1>4
  <2> QED BY <1>5, <2>1
<1>7. ASSUME NEW i \in DOMAIN sent', NEW j \in DOMAIN sent', i < j
      PROVE  Place(sent'[i]) < Place(sent'[j])
  <2>1. CASE j \in 1 .. Len(sent)
    BY <1>4, <1>5, <1>7, <2>1 DEF StreamInv
  <2>2. CASE \E k \in 1 .. Len(o) : j = Len(sent) + k /\ sent'[j] = o[k]
    <3>1. PICK k \in 1 .. Len(o) : j = Len(sent) + k /\ sent'[j] = o[k]
      BY <2>2
    <3>2. Place(o[k]) > cursor /\ Place(o[k]) \in Nat
      BY <1>1, <1>4
    <3>3. CASE i \in 1 .. Len(sent)
      <4>1. Place(sent[i]) <= cursor /\ Place(sent[i]) \in Nat /\ sent'[i] = sent[i]
        BY <1>1, <1>4, <1>5, <3>3, ElementOfSeq DEF StreamInv
      <4> QED BY <1>1, <3>1, <3>2, <4>1
    <3>4. CASE \E m \in 1 .. Len(o) : i = Len(sent) + m /\ sent'[i] = o[m]
      BY <1>2, <1>4, <1>7, <3>1, <3>4
    <3> QED BY <1>6, <3>3, <3>4
  <2> QED BY <1>6, <2>1, <2>2
<1>8. /\ o = <<>> => cursor' = cursor
      /\ o # <<>> => Len(o) \in 1 .. Len(o) /\ cursor' = Place(o[Len(o)]) /\ cursor' > cursor
  <2>1. ASSUME o # <<>> PROVE Len(o) \in 1 .. Len(o) /\ cursor' = Place(o[Len(o)])
    <3>1. Len(o) # 0
      BY <1>4, <2>1, EmptySeq
    <3> QED BY <1>3, <1>4, <2>1, <3>1 DEF Last
  <2> QED BY <1>1, <1>3, <1>4, <2>1
<1>9. ASSUME NEW i \in DOMAIN sent' PROVE Place(sent'[i]) <= cursor'
  <2>1. CASE i \in 1 .. Len(sent)
    <3>1. Place(sent[i]) <= cursor /\ Place(sent[i]) \in Nat /\ sent'[i] = sent[i]
      BY <1>1, <1>4, <1>5, <2>1, ElementOfSeq DEF StreamInv
    <3> QED BY <1>1, <1>4, <1>8, <3>1
  <2>2. CASE \E k \in 1 .. Len(o) : i = Len(sent) + k /\ sent'[i] = o[k]
    <3>1. PICK k \in 1 .. Len(o) : i = Len(sent) + k /\ sent'[i] = o[k]
      BY <2>2
    <3>2. o # <<>>
      BY <1>4, <3>1, EmptySeq
    <3>3. Len(o) \in 1 .. Len(o) /\ cursor' = Place(o[Len(o)])
      BY <1>8, <3>2
    <3>4. /\ {Place(o[k]), Place(o[Len(o)])} \subseteq Nat /\ (k < Len(o) \/ k = Len(o))
          /\ k < Len(o) => Place(o[k]) < Place(o[Len(o)])
      BY <1>1, <1>2, <1>4, <3>1, <3>3
    <3>5. Place(o[k]) <= Place(o[Len(o)])
      BY <3>4
    <3> QED BY <3>1, <3>3, <3>5
  <2> QED BY <1>6, <2>1, <2>2
<1>10. cursor' = 0 \/ \E r \in stored : Place(r) = cursor'
  BY <1>1, <1>4, <1>8 DEF StreamInv
<1>11. ASSUME NEW r \in inOrder PROVE r \in ToSet(sent')
  <2>1. r \in stored
    BY DEF StreamInv
  <2>2. CASE Place(r) <= cursor
    <3>1. PICK i \in DOMAIN sent : sent[i] = r
      BY <2>2 DEF StreamInv, ToSet
    <3> QED BY <1>4, <1>5, <3>1 DEF ToSet
  <2>3. CASE r \in S
    <3>1. PICK k \in 1 .. Len(o) : o[k] = r
      BY <1>2, <1>4, <2>3 DEF ToSet
    <3>2. Len(sent) + k \in DOMAIN sent'
      BY <1>4, <1>5
    <3> QED BY <1>5, <3>1, <3>2 DEF ToSet
  <2> QED BY <1>1, <2>1, <2>2, <2>3
<1> QED BY <1>5, <1>7, <1>9, <1>10, <1>11

\* A step of the stream leaves the table as it is.
LEMMA ViewerPolls ==
  ASSUME RunInv, CreatedInv, StreamInv, Poll \/ Reconnect
  PROVE  StreamInv'
<1>1. UNCHANGED <<status, born, stored, inOrder>>
  BY DEF Poll, ReadStatus, SendRows, Reconnect, tableVars
<1>2. \A r : Place(r)' = Place(r)
  BY <1>1 DEF Place
<1>3. /\ sent' \in Seq(stored)
      /\ \A i, j \in DOMAIN sent' : i < j => Place(sent'[i]) < Place(sent'[j])
      /\ \A i \in DOMAIN sent' : Place(sent'[i]) <= cursor'
      /\ cursor' = 0 \/ \E r \in stored : Place(r) = cursor'
      /\ \A r \in inOrder : Place(r) <= cursor' => r \in ToSet(sent')
  <2>1. CASE SendRows
    BY <2>1, RowsSent
  <2>2. CASE ReadStatus \/ Reconnect
    <3>1. UNCHANGED <<sent, cursor>>
      BY <2>2 DEF ReadStatus, Reconnect
    <3> QED BY <3>1 DEF StreamInv
  <2> QED BY <2>1, <2>2 DEF Poll
<1>4. /\ envelope' \in FinalStatuses \/ poll' = "done" => status \in FinalStatuses
      /\ poll' = "done" => inOrder \subseteq ToSet(sent')
  <2>1. CASE SendRows
    <3>1. inOrder \subseteq ToSet(sent')
      BY <2>1, RowsSent
    <3>2. envelope' = "running" /\ (poll' = "done" => envelope \in FinalStatuses)
      BY <2>1 DEF SendRows
    <3> QED BY <3>1, <3>2 DEF StreamInv, FinalStatuses
  <2>2. CASE ReadStatus \/ Reconnect
    BY <2>2 DEF ReadStatus, Reconnect, FinalStatuses
  <2> QED BY <2>1, <2>2 DEF Poll
<1>5. /\ \A i, j \in DOMAIN sent' : i < j => Place(sent[i])' < Place(sent[j])'
      /\ \A i \in DOMAIN sent' : Place(sent[i])' <= cursor'
      /\ cursor' = 0 \/ \E r \in stored' : Place(r)' = cursor'
      /\ \A r \in inOrder' : Place(r)' <= cursor' => r \in ToSet(sent')
  BY <1>1, <1>3 DEF Place
<1>6. inOrder' \subseteq stored' /\ sent' \in Seq(stored')
  BY <1>1, <1>3 DEF StreamInv
<1> QED BY <1>1, <1>4, <1>5, <1>6 DEF StreamInv

\* The viewer's invariant is inductive beside that of the run.
THEOREM StreamInvariant == Spec => [](CreatedInv /\ StreamInv)
<1>1. RunInv /\ RunInv' /\ CreatedInv /\ StreamInv /\ [Next]_vars => CreatedInv' /\ StreamInv'
  <2> SUFFICES ASSUME RunInv, RunInv', CreatedInv, StreamInv, [Next]_vars
               PROVE  CreatedInv' /\ StreamInv'
    OBVIOUS
  <2>1. RowsGrow /\ CreatedInv'
    BY RunGrows
  <2>2. CASE Stream \/ StreamBreaks
    BY <2>1, <2>2, ViewerPolls DEF Stream, StreamBreaks
  <2>3. CASE ~ (Stream \/ StreamBreaks)
    <3>1. UNCHANGED streamVars
      BY <2>3 DEF Next, vars, Launch, EmitLine, ContainerEnds, TimeoutFires, AskCancellation,
         HearCancellation, ForceKill, RemovalEnds, ClientCloses, Controller, ReportWait, Decide, Collect, Finalize,
         ReplayLogs, Recover, Elsewhere, RequestCancellation, Sink
    <3> QED BY <2>1, <3>1, ViewerWaits
  <2> QED BY <2>2, <2>3
<1> QED BY <1>1, InitStreamInv, RunInvariant, PTL DEF Spec

\* StreamComplete: listJobLogsAfterWithVisibility gives the rows after the cursor in the order
\* of creation, and streamLogs reads the job's status before them; so that a viewer that has
\* seen the end has got every row that was stored in order, once.
THEOREM StreamsAreComplete == Spec => []StreamComplete
<1>1. StreamInv => StreamComplete
  BY DEF StreamInv, StreamComplete
<1> QED BY <1>1, StreamInvariant, PTL
=============================================================================
