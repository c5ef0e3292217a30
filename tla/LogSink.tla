------------------------------- MODULE LogSink -------------------------------
(***************************************************************************)
(* createSandboxStreamLogSink: the log lines of a sandbox are inserted in  *)
(* batches, at once when many wait and otherwise after a delay.  One drain *)
(* runs at a time; a batch whose insertion throws goes back to the front   *)
(* and is tried again by the timer, for as long as the worker lives.       *)
(***************************************************************************)
EXTENDS LogTable

CONSTANTS
  BatchSize,   \* 100 in the code
  DrainAt,     \* 25 in the code
  MaxErrors    \* bound on calls that throw

ASSUME SinkAssumption ==
  BatchSize \in Nat \ {0} /\ DrainAt \in Nat \ {0} /\ MaxErrors \in Nat

VARIABLES
  pendingLogs,
  flushTimer,
  batch,           \* the batch of flushLoop, <<>> when there is no loop
  awaited,         \* flush() waits for the loop's end
  streamedLogIds,  \* logs onPersisted was called with
  errors

sinkVars == <<pendingLogs, flushTimer, batch, awaited, streamedLogIds, errors>>

SinkInit ==
  /\ pendingLogs = <<>>
  /\ flushTimer = FALSE
  /\ batch = <<>>
  /\ awaited = FALSE
  /\ streamedLogIds = {}
  /\ errors = 0

SinkType ==
  /\ pendingLogs \in Seq(Lines) /\ batch \in Seq(Lines)
  /\ flushTimer \in BOOLEAN /\ awaited \in BOOLEAN
  /\ streamedLogIds \subseteq stored \intersect Lines
  /\ errors \in 0 .. MaxErrors
  /\ IsInjective(batch \o pendingLogs)
  /\ ToSet(batch \o pendingLogs) \union streamedLogIds = Created("sandbox")

Throws == errors < MaxErrors /\ errors' = errors + 1

\* pendingLogs.splice(0, 100) of the logs in s: what is taken, what stays.
Taken(s) == SubSeq(s, 1, IF Len(s) < BatchSize THEN Len(s) ELSE BatchSize)
\* Mutant: a batch is copied, not taken out.
NotRemoved(s) == s

Left(s)  == SubSeq(s, Len(Taken(s)) + 1, Len(s))

\* drainPendingLogs when these logs are pending: a loop that runs goes on.
Drain(logs) ==
  IF batch = <<>>
  THEN batch' = Taken(logs) /\ pendingLogs' = Left(logs)
  ELSE pendingLogs' = logs /\ UNCHANGED batch

\* push
Push(log) ==
  LET logs == Append(pendingLogs, log)
  IN  /\ IF Len(logs) >= DrainAt
         THEN flushTimer' = FALSE /\ Drain(logs)
         ELSE flushTimer' = TRUE /\ pendingLogs' = logs /\ UNCHANGED batch
      /\ UNCHANGED <<awaited, streamedLogIds, errors>>

\* flush: the caller waits for the loop that runs then.
Flush ==
  /\ flushTimer' = FALSE
  /\ Drain(pendingLogs)
  /\ awaited' = (batch' # <<>>)
  /\ UNCHANGED <<streamedLogIds, errors>>

TimerFires ==
  /\ flushTimer
  /\ flushTimer' = FALSE
  /\ Drain(pendingLogs)
  /\ UNCHANGED <<tableVars, awaited, streamedLogIds, errors>>

\* The loop's turn is over: the next batch, or the loop ends.
BatchStored ==
  /\ batch # <<>>
  /\ Insert(ToSet(batch))
  /\ streamedLogIds' = streamedLogIds \union ToSet(batch)
  /\ batch' = Taken(pendingLogs)
  /\ pendingLogs' = Left(pendingLogs)
  /\ awaited' = (awaited /\ batch' # <<>>)
  /\ UNCHANGED <<status, born, flushTimer, errors>>

\* Mutant: a failed batch waits for the next push.
BatchKept ==
  /\ batch # <<>>
  /\ Throws
  /\ UNCHANGED <<stored, inOrder>>
  /\ pendingLogs' = batch \o pendingLogs
  /\ batch' = <<>>
  /\ awaited' = FALSE
  /\ UNCHANGED <<status, born, streamedLogIds, flushTimer>>

\* The insertion throws, with or without effect: the loop breaks and its owner
\* schedules another one.
BatchThrows ==
  /\ batch # <<>>
  /\ Throws
  /\ Insert(ToSet(batch)) \/ UNCHANGED <<stored, inOrder>>
  /\ pendingLogs' = batch \o pendingLogs
  /\ batch' = <<>>
  /\ flushTimer' = TRUE
  /\ awaited' = FALSE
  /\ UNCHANGED <<status, born, streamedLogIds>>

SinkStep == TimerFires \/ BatchStored \/ BatchThrows
=============================================================================
