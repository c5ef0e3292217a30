----------------------------- MODULE AgentQueue -----------------------------
(***************************************************************************)
(* The ai-agent-jobs queue, kept by the pg-boss library and known here only*)
(* through the calls packages/db/src/queue.ts makes to it.  A message      *)
(* carries a job id.  It waits, is handed to one worker slot, and is       *)
(* completed when that slot's handler returns.  When the handler throws,   *)
(* or does not return in time, the message waits again, until it has been  *)
(* handed out RetryLimit + 1 times and the queue gives it up.              *)
(***************************************************************************)
EXTENDS Naturals

CONSTANTS
  Messages,    \* message ids
  RetryLimit,  \* redeliveries pg-boss makes of one message
  NoJob,       \* the payload of a message that was not sent yet
  NoSlot       \* the holder of a message no slot was given

ASSUME RetryLimitAssumption == RetryLimit \in Nat

VARIABLE queue   \* [Messages -> [job, state, tries, holder]]

Message(job, state, tries, holder) ==
  [job |-> job, state |-> state, tries |-> tries, holder |-> holder]

Unsent == Message(NoJob, "unsent", 0, NoSlot)

MessageState == {"unsent", "created", "active", "completed", "cancelled", "failed"}

QueueTypeOK(jobs, slots) ==
  queue \in [Messages -> [job    : jobs \union {NoJob},
                          state  : MessageState,
                          tries  : 0 .. RetryLimit + 1,
                          holder : slots \union {NoSlot}]]

QueueInit == queue = [m \in Messages |-> Unsent]

\* Messages the queue still owes a delivery, or is in the middle of one.
Deliverable(m) == queue[m].state \in {"created", "active"}

\* boss.send
SendMessage(m, j) ==
  /\ queue[m].state = "unsent"
  /\ queue' = [queue EXCEPT ![m] = Message(j, "created", 0, NoSlot)]

\* boss.work: slot s is given m.
FetchMessage(m, s) ==
  /\ queue[m].state = "created"
  /\ queue' = [queue EXCEPT ![m] = Message(@.job, "active", @.tries + 1, s)]

\* The delivery of m ended without an answer: it waits again or is given up.
Returned(msg) ==
  Message(msg.job, IF msg.tries > RetryLimit THEN "failed" ELSE "created", msg.tries, NoSlot)

IsHeldBy(m, s) == queue[m].state = "active" /\ queue[m].holder = s

\* The handler of slot s returned; a delivery the queue gave up is not touched.
CompleteMessage(m, s) ==
  queue' = [queue EXCEPT ![m].state = IF IsHeldBy(m, s) THEN "completed" ELSE @]

\* The handler of slot s threw.
FailMessage(m, s) ==
  queue' = [queue EXCEPT ![m] = IF IsHeldBy(m, s) THEN Returned(@) ELSE @]

\* The delivery outlived its expiry.
ExpireMessage(m) ==
  /\ queue[m].state = "active"
  /\ queue' = [queue EXCEPT ![m] = Returned(@)]

\* boss.cancel: no effect on a message that is already done.
CancelMessage(m) ==
  queue' = [queue EXCEPT ![m].state = IF Deliverable(m) THEN "cancelled" ELSE @]
=============================================================================
