---------------------------- MODULE JobLifecycle ----------------------------
(***************************************************************************)
(* The life of hosted jobs: API processes create, dispatch and cancel them,*)
(* the queue carries them, AI workers claim, execute and finalize them.    *)
(* Every action is one database transaction or one call to the queue; what *)
(* a handler keeps in its locals between two of those is its record in     *)
(* thread or slot, so that any other process may run in between.           *)
(*                                                                         *)
(* Faults are actions with a budget: a process that crashes, a call that   *)
(* throws, and a lease or delivery that expires while its holder still     *)
(* works on it.                                                            *)
(***************************************************************************)
EXTENDS AnalysisJobs, AgentQueue

CONSTANTS
  Jobs,        \* job ids
  Apis,        \* API processes; each runs one dispatch loop
  Requests,    \* concurrent requests of one API process
  Loop,        \* the name of an API process's dispatch loop
  Workers,     \* AI worker processes, each with its AI_WORKER_ID
  Slots,       \* queue workers of one AI worker process
  MaxCrashes,  \* bound on process crashes
  MaxSlow,     \* bound on expiries under a holder that is still working
  MaxErrors    \* bound on calls that throw

ASSUME ProcessAssumption ==
  /\ Loop \notin Requests
  /\ NoSlot \notin Workers \X Slots
  /\ NoMessage \notin Messages
  /\ NoJob \notin Jobs
  /\ NoWorker \notin Workers
  /\ NoOwner \notin Apis \X Nat \X {"inline", "loop"}

ASSUME BoundAssumption == MaxCrashes \in Nat /\ MaxSlow \in Nat /\ MaxErrors \in Nat

VARIABLES
  row,        \* the AnalysisJob table
  thread,     \* the locals of API requests and dispatch loops
  life,       \* restarts of each API process: a new dispatchLoopInstanceId
  slot,       \* the locals of the workers' handlers
  published,  \* jobs whose learnables or changeset were written
  faults      \* faults so far, by kind

vars == <<row, queue, thread, life, slot, published, faults>>

Threads     == Apis \X (Requests \union {Loop})
WorkerSlots == Workers \X Slots
Dispatchers == Apis \X Nat \X {"inline", "loop"}

\* `${dispatchLoopInstanceId}:inline` and `:loop`
DispatcherId(t) ==
  <<t[1], life[t[1]], IF t[2] = Loop THEN "loop" ELSE "inline">>

ThreadPc ==
  {"idle", "lease", "publish", "record", "fail", "failWrite",
   "cancelQueued", "cancelRunning", "dequeue"}

\* Step pc of a thread, with the job, the message id and the attempts and owner
\* it has read.
Thread(pc, job, msg, attempts, owner) ==
  [pc |-> pc, job |-> job, msg |-> msg, attempts |-> attempts, owner |-> owner]

IdleThread == Thread("idle", NoJob, NoMessage, 0, NoOwner)

\* The slot runs executeHostedAgentJobInSandbox, or the reads of claimAgentJob
\* that precede it, for a job it claimed.
ExecutingPc == {"prepare", "stage", "sandbox", "collect", "publish", "succeed", "finalize", "recover"}
SlotPc      == {"idle", "claim", "dropped", "settled"} \union ExecutingPc
Outcome     == {"none", "ok", "failed", "cancelled"}

Slot(pc, msg, outcome) == [pc |-> pc, msg |-> msg, outcome |-> outcome]

IdleSlot == Slot("idle", NoMessage, "none")

JobOf(s)     == queue[slot[s].msg].job
Executing(s) == slot[s].pc \in ExecutingPc

JobRows       == Rows(Dispatchers, Messages, Workers)
ThreadRecords == [pc : ThreadPc, job : Jobs \union {NoJob},
                  msg : Messages \union {NoMessage}, attempts : Nat,
                  owner : Dispatchers \union {NoOwner}]
SlotRecords   == [pc : SlotPc, msg : Messages \union {NoMessage}, outcome : Outcome]
FaultRecords  == [crash : 0 .. MaxCrashes, slow : 0 .. MaxSlow, error : 0 .. MaxErrors]

TypeOK ==
  /\ row \in [Jobs -> JobRows]
  /\ QueueTypeOK(Jobs, WorkerSlots)
  /\ thread \in [Threads -> ThreadRecords]
  /\ life \in [Apis -> Nat]
  /\ slot \in [WorkerSlots -> SlotRecords]
  /\ published \in SUBSET Jobs
  /\ faults \in FaultRecords

Init ==
  /\ row = [j \in Jobs |-> AbsentRow]
  /\ QueueInit
  /\ thread = [t \in Threads |-> IdleThread]
  /\ life = [a \in Apis |-> 0]
  /\ slot = [s \in WorkerSlots |-> IdleSlot]
  /\ published = {}
  /\ faults = [crash |-> 0, slow |-> 0, error |-> 0]

-----------------------------------------------------------------------------
(* Faults *)

Crashes == faults.crash < MaxCrashes /\ faults' = [faults EXCEPT !.crash = @ + 1]
Delays  == faults.slow  < MaxSlow    /\ faults' = [faults EXCEPT !.slow  = @ + 1]
Throws  == faults.error < MaxErrors  /\ faults' = [faults EXCEPT !.error = @ + 1]

Goto(t, pc) == thread' = [thread EXCEPT ![t].pc = pc]
Return(t)   == thread' = [thread EXCEPT ![t] = IdleThread]

GotoSlot(s, pc) == slot' = [slot EXCEPT ![s].pc = pc]

\* updateMany: the row changes if it still satisfies the update's "where".
UpdateRow(j, where, data) == row' = [row EXCEPT ![j] = IF where THEN data ELSE @]

-----------------------------------------------------------------------------
(* API requests that create a job, and its inline dispatch *)

StartDispatch(t, j) ==
  /\ row' = [row EXCEPT ![j] = CreatedRow]
  /\ thread' = [thread EXCEPT ![t] = Thread("lease", j, NoMessage, 0, NoOwner)]
  /\ UNCHANGED <<queue, life, slot, published, faults>>

\* POST /api/workspaces/:workspaceId/analyze and its siblings: insert, then queueJob.
CreateJob(t, j) ==
  /\ t[2] # Loop
  /\ thread[t].pc = "idle"
  /\ row[j].status = "absent"
  /\ StartDispatch(t, j)

\* POST /api/jobs/:jobId/retry: a new job is inserted, the old one is kept.
RetryJob(t, old, new) ==
  /\ t[2] # Loop
  /\ thread[t].pc = "idle"
  /\ row[old].status \in {"failed", "cancelled"}
  /\ row[new].status = "absent"
  /\ StartDispatch(t, new)

\* leaseAnalysisJobForDispatch
LeaseForDispatch(t) ==
  LET j == thread[t].job
      d == DispatcherId(t)
  IN UpdateRow(j, CanLease(row[j], d), LeasedRow(row[j], d))

\* dispatchRunnerJob: lease the job or leave it to the dispatch loops.
LeaseInline(t) ==
  /\ thread[t].pc = "lease"
  /\ LeaseForDispatch(t)
  /\ IF CanLease(row[thread[t].job], DispatcherId(t)) THEN Goto(t, "publish") ELSE Return(t)
  /\ UNCHANGED <<queue, life, slot, published, faults>>

-----------------------------------------------------------------------------
(* The dispatch loop *)

\* leaseNextPendingAnalysisJobForDispatch: a candidate of its query is leased.
LeaseCandidate(t, j) ==
  /\ t[2] = Loop
  /\ thread[t].pc = "idle"
  /\ IsDispatchCandidate(row[j])
  /\ row' = [row EXCEPT ![j] = LeasedRow(@, DispatcherId(t))]

\* drainPendingDispatches
LeaseNext(t, j) ==
  /\ LeaseCandidate(t, j)
  /\ thread' = [thread EXCEPT ![t] = Thread("publish", j, NoMessage, 0, NoOwner)]
  /\ UNCHANGED <<queue, life, slot, published, faults>>

\* publishDispatchedJob: the message is sent.
Publish(t, m) ==
  /\ thread[t].pc = "publish"
  /\ SendMessage(m, thread[t].job)
  /\ thread' = [thread EXCEPT ![t] = Thread("record", @.job, m, 0, NoOwner)]
  /\ UNCHANGED <<row, life, slot, published, faults>>

\* The lookup before the send throws, or the send does without effect.
PublishThrows(t) ==
  /\ thread[t].pc = "publish"
  /\ Throws
  /\ Goto(t, "fail")
  /\ UNCHANGED <<row, queue, life, slot, published>>

\* The send takes effect and its answer is lost.
PublishAnswerLost(t, m) ==
  /\ thread[t].pc = "publish"
  /\ Throws
  /\ SendMessage(m, thread[t].job)
  /\ Goto(t, "fail")
  /\ UNCHANGED <<row, life, slot, published>>

\* setAnalysisJobQueueMessage
RecordMessage(t) ==
  LET j == thread[t].job
  IN UpdateRow(j, CanSetQueueMessage(row[j], DispatcherId(t)), QueuedRow(row[j], thread[t].msg))

Record(t) ==
  /\ thread[t].pc = "record"
  /\ RecordMessage(t)
  /\ Return(t)
  /\ UNCHANGED <<queue, life, slot, published, faults>>

\* The transaction fails, or the read of the envelope after it does.
RecordThrows(t) ==
  /\ thread[t].pc = "record"
  /\ Throws
  /\ RecordMessage(t) \/ UNCHANGED row
  /\ Goto(t, "fail")
  /\ UNCHANGED <<queue, life, slot, published>>

\* markAnalysisJobDispatchFailure, its read and early returns ...
ReadDispatchFailure(t) ==
  LET r == row[thread[t].job]
  IN /\ thread[t].pc = "fail"
     /\ IF MayMarkFailure(r, DispatcherId(t))
        THEN thread' = [thread EXCEPT ![t] = Thread("failWrite", @.job, NoMessage, r.attempts, r.owner)]
        ELSE Return(t)
     /\ UNCHANGED <<row, queue, life, slot, published, faults>>

\* ... and its guarded write.
MarkFailure(t) ==
  LET j  == thread[t].job
      th == thread[t]
  IN UpdateRow(j, CanMarkFailure(row[j], th.attempts, th.owner),
               DispatchFailedRow(row[j], th.attempts))

WriteDispatchFailure(t) ==
  /\ thread[t].pc = "failWrite"
  /\ MarkFailure(t)
  /\ Return(t)
  /\ UNCHANGED <<queue, life, slot, published, faults>>

-----------------------------------------------------------------------------
(* POST /api/jobs/:jobId/cancel *)

\* requestJobCancellationForUser reads the job; a terminal one is left alone.
RequestCancel(t, j) ==
  /\ t[2] # Loop
  /\ thread[t].pc = "idle"
  /\ row[j].status \in Claimable \union {"running"}
  /\ thread' = [thread EXCEPT ![t] =
       IF row[j].status = "running"
       THEN Thread("cancelRunning", j, NoMessage, 0, NoOwner)
       ELSE Thread("cancelQueued", j, row[j].msg, 0, NoOwner)]
  /\ UNCHANGED <<row, queue, life, slot, published, faults>>

\* Mutant: the job is cancelled although it was claimed since the read.
CancelWithoutRecheck(t) ==
  LET j == thread[t].job
  IN /\ thread[t].pc = "cancelQueued"
     /\ row' = [row EXCEPT ![j] = CancelledRow(@)]
     /\ IF thread[t].msg # NoMessage THEN Goto(t, "dequeue") ELSE Return(t)
     /\ UNCHANGED <<queue, life, slot, published, faults>>

\* Mutant: the request does not go on to flag the job that was claimed.
CancelWithoutFallback(t) ==
  LET j == thread[t].job
      cancelledBeforeClaim == row[j].status \in Claimable
  IN /\ thread[t].pc = "cancelQueued"
     /\ UpdateRow(j, cancelledBeforeClaim, CancelledRow(row[j]))
     /\ IF cancelledBeforeClaim /\ thread[t].msg # NoMessage THEN Goto(t, "dequeue") ELSE Return(t)
     /\ UNCHANGED <<queue, life, slot, published, faults>>

\* Mutant: the message is cancelled in the queue even if the job was claimed.
CancelAlwaysDequeues(t) ==
  LET j == thread[t].job
  IN /\ thread[t].pc = "cancelQueued"
     /\ UpdateRow(j, row[j].status \in Claimable, CancelledRow(row[j]))
     /\ Goto(t, IF thread[t].msg # NoMessage THEN "dequeue" ELSE "cancelRunning")
     /\ UNCHANGED <<queue, life, slot, published, faults>>

\* The update of requestJobCancellationForUser before the claim, and after it.
CancelBeforeClaim(t) ==
  LET j == thread[t].job
  IN UpdateRow(j, row[j].status \in Claimable, CancelledRow(row[j]))

FlagRunning(t) ==
  LET j == thread[t].job
  IN UpdateRow(j, CanFlagCancellation(row[j]), FlaggedRow(row[j]))

\* The job read as pending or queued: cancel it unless it was claimed since.
CancelQueued(t) ==
  LET cancelledBeforeClaim == row[thread[t].job].status \in Claimable
  IN /\ thread[t].pc = "cancelQueued"
     /\ CancelBeforeClaim(t)
     /\ CASE ~ cancelledBeforeClaim                              -> Goto(t, "cancelRunning")
          [] cancelledBeforeClaim /\ thread[t].msg # NoMessage -> Goto(t, "dequeue")
          [] cancelledBeforeClaim /\ thread[t].msg = NoMessage -> Return(t)
     /\ UNCHANGED <<queue, life, slot, published, faults>>

CancelRunning(t) ==
  /\ thread[t].pc = "cancelRunning"
  /\ FlagRunning(t)
  /\ Return(t)
  /\ UNCHANGED <<queue, life, slot, published, faults>>

\* cancelAgentJob, for the message id the request read at its start.
Dequeue(t) ==
  /\ thread[t].pc = "dequeue"
  /\ CancelMessage(thread[t].msg)
  /\ Return(t)
  /\ UNCHANGED <<row, life, slot, published, faults>>

\* A call throws where no handler catches it: the request or the tick ends.
Abandon(t) ==
  /\ thread[t].pc \in {"lease", "fail", "failWrite", "cancelQueued", "cancelRunning", "dequeue"}
  /\ Throws
  /\ Return(t)
  /\ UNCHANGED <<row, queue, life, slot, published>>

\* The call took effect and its answer is lost.
AbandonAnswerLost(t) ==
  /\ Throws
  /\ Return(t)
  /\ \/ thread[t].pc = "lease" /\ LeaseForDispatch(t) /\ UNCHANGED queue
     \/ \E j \in Jobs : LeaseCandidate(t, j) /\ UNCHANGED queue
     \/ thread[t].pc = "failWrite" /\ MarkFailure(t) /\ UNCHANGED queue
     \/ thread[t].pc = "cancelQueued" /\ CancelBeforeClaim(t) /\ UNCHANGED queue
     \/ thread[t].pc = "cancelRunning" /\ FlagRunning(t) /\ UNCHANGED queue
     \/ thread[t].pc = "dequeue" /\ CancelMessage(thread[t].msg) /\ UNCHANGED row
  /\ UNCHANGED <<life, slot, published>>

-----------------------------------------------------------------------------
(* AI workers: handleAgentJob in slot s *)

Fetch(s, m) ==
  /\ slot[s].pc = "idle"
  /\ FetchMessage(m, s)
  /\ slot' = [slot EXCEPT ![s] = Slot("claim", m, "none")]
  /\ UNCHANGED <<row, thread, life, published, faults>>

\* claimAgentJob: its transaction, and the update that fails a claimed job.
ClaimRow(s) ==
  LET j == JobOf(s)
  IN UpdateRow(j, CanClaim(row[j]), ClaimedRow(row[j], s[1], slot[s].msg))

FailClaim(s) ==
  LET j == JobOf(s)
  IN UpdateRow(j, CanFailClaim(row[j], s[1]), FailedRow(row[j], "failed"))

Claim(s) ==
  LET j == JobOf(s)
  IN /\ slot[s].pc = "claim"
     /\ ClaimRow(s)
     /\ GotoSlot(s, IF ClaimSucceeds(row[j]) THEN "prepare" ELSE "dropped")
     /\ UNCHANGED <<queue, thread, life, published, faults>>

\* getExecutionRecord
Prepare(s) ==
  /\ slot[s].pc = "prepare"
  /\ GotoSlot(s, "stage")
  /\ UNCHANGED <<row, queue, thread, life, published, faults>>

\* getExecutionRecord throws: claimAgentJob fails the job and returns null.
PrepareThrows(s) ==
  /\ slot[s].pc = "prepare"
  /\ Throws
  /\ FailClaim(s)
  /\ GotoSlot(s, "dropped")
  /\ UNCHANGED <<queue, thread, life, published>>

\* executeHostedAgentJobInSandbox up to its try: auth, request file, logs.
Stage(s) ==
  /\ slot[s].pc = "stage"
  /\ GotoSlot(s, "sandbox")
  /\ UNCHANGED <<row, queue, thread, life, published, faults>>

\* runHostedAgentSandbox: "failed" is a timeout, an exit code or a failed
\* result; "cancelled" needs the poll of waitForAgentSandbox to have seen it.
RunSandbox(s, o) ==
  /\ slot[s].pc = "sandbox"
  /\ o = "cancelled" => row[JobOf(s)].cancel = "requested"
  /\ slot' = [slot EXCEPT ![s] = Slot("collect", @.msg, o)]
  /\ UNCHANGED <<row, queue, thread, life, published, faults>>

\* Mutant: the outcome of the sandbox is not looked at.
CollectAsFailure(s) ==
  /\ slot[s].pc = "collect"
  /\ GotoSlot(s, "finalize")
  /\ UNCHANGED <<row, queue, thread, life, published, faults>>

\* Mutant: success is finalized before the results are published.
CollectWithoutResults(s) ==
  LET o == IF row[JobOf(s)].cancel = "requested" THEN "cancelled" ELSE slot[s].outcome
  IN /\ slot[s].pc = "collect"
     /\ slot' = [slot EXCEPT ![s] = Slot(IF o = "ok" THEN "succeed" ELSE "finalize", @.msg, o)]
     /\ UNCHANGED <<row, queue, thread, life, published, faults>>

\* The controller's check of isCancellationRequested after the sandbox.
Collect(s) ==
  LET o == IF row[JobOf(s)].cancel = "requested" THEN "cancelled" ELSE slot[s].outcome
  IN /\ slot[s].pc = "collect"
     /\ slot' = [slot EXCEPT ![s] = Slot(IF o = "ok" THEN "publish" ELSE "finalize", @.msg, o)]
     /\ UNCHANGED <<row, queue, thread, life, published, faults>>

\* replaceSourceLearnables of an audit, the changesets of a remediation.
PublishResults(s) ==
  /\ slot[s].pc = "publish"
  /\ published' = published \union {JobOf(s)}
  /\ GotoSlot(s, "succeed")
  /\ UNCHANGED <<row, queue, thread, life, faults>>

\* finalizeAnalysisJobSuccess
FinalizeSuccess(s) ==
  LET j == JobOf(s)
  IN /\ slot[s].pc = "succeed"
     /\ UpdateRow(j, CanSucceed(row[j]), SucceededRow(row[j]))
     /\ GotoSlot(s, "settled")
     /\ UNCHANGED <<queue, thread, life, published, faults>>

\* finalizeAnalysisJobFailure, from the try or from its catch.
FinalizeFailure(s) ==
  LET j == JobOf(s)
  IN /\ slot[s].pc \in {"finalize", "recover"}
     /\ UpdateRow(j, CanFail(row[j]),
                  FailedRow(row[j], IF slot[s].pc = "recover" THEN "failed" ELSE slot[s].outcome))
     /\ GotoSlot(s, "settled")
     /\ UNCHANGED <<queue, thread, life, published, faults>>

\* A step inside the try throws, before or after its own effect.
StepThrows(s) ==
  LET j == JobOf(s)
  IN /\ slot[s].pc \in {"sandbox", "collect", "publish", "succeed", "finalize"}
     /\ Throws
     /\ \/ UNCHANGED <<row, published>>
        \/ /\ slot[s].pc = "publish"
           /\ published' = published \union {j}
           /\ UNCHANGED row
        \/ /\ slot[s].pc = "succeed"
           /\ UpdateRow(j, CanSucceed(row[j]), SucceededRow(row[j]))
           /\ UNCHANGED published
        \/ /\ slot[s].pc = "finalize"
           /\ UpdateRow(j, CanFail(row[j]), FailedRow(row[j], slot[s].outcome))
           /\ UNCHANGED published
     /\ GotoSlot(s, "recover")
     /\ UNCHANGED <<queue, thread, life>>

\* handleAgentJob throws: the claim, the reads and files before the try, and
\* the catch block are not protected.  A write may have taken effect before.
HandlerThrows(s) ==
  /\ slot[s].pc \in {"claim", "prepare", "stage", "recover"}
  /\ Throws
  /\ FailMessage(slot[s].msg, s)
  /\ slot' = [slot EXCEPT ![s] = IdleSlot]
  /\ \/ UNCHANGED row
     \/ slot[s].pc = "claim" /\ ClaimRow(s)
     \/ slot[s].pc = "prepare" /\ FailClaim(s)
     \/ /\ slot[s].pc = "recover"
        /\ UpdateRow(JobOf(s), CanFail(row[JobOf(s)]), FailedRow(row[JobOf(s)], "failed"))
  /\ UNCHANGED <<thread, life, published>>

\* The handler returns, having executed the job or found nothing to claim.
Settle(s) ==
  /\ slot[s].pc \in {"dropped", "settled"}
  /\ CompleteMessage(slot[s].msg, s)
  /\ slot' = [slot EXCEPT ![s] = IdleSlot]
  /\ UNCHANGED <<row, thread, life, published, faults>>

-----------------------------------------------------------------------------
(* Time and crashes *)

\* A thread is between the lease and the end of dispatch of job j.
Dispatching(t, j) ==
  /\ thread[t].job = j
  /\ thread[t].pc \in {"publish", "record", "fail", "failWrite"}

LeaseHolders(j) ==
  {t \in Threads : Dispatching(t, j) /\ DispatcherId(t) = row[j].owner}

\* dispatchLeaseExpiresAt passes.
ExpireLease(j) ==
  /\ row[j].lease = "live"
  /\ IF LeaseHolders(j) = {} THEN UNCHANGED faults ELSE Delays
  /\ row' = [row EXCEPT ![j].lease = "expired"]
  /\ UNCHANGED <<queue, thread, life, slot, published>>

\* dispatchNextAttemptAt passes.
ElapseBackoff(j) ==
  /\ row[j].retry = "later"
  /\ row' = [row EXCEPT ![j].retry = "due"]
  /\ UNCHANGED <<queue, thread, life, slot, published, faults>>

InHandler(m) ==
  \E s \in WorkerSlots : queue[m].holder = s /\ slot[s].msg = m /\ slot[s].pc # "idle"

ExpireDelivery(m) ==
  /\ ExpireMessage(m)
  /\ IF InHandler(m) THEN Delays ELSE UNCHANGED faults
  /\ UNCHANGED <<row, thread, life, slot, published>>

CrashApi(a) ==
  /\ Crashes
  /\ thread' = [t \in Threads |-> IF t[1] = a THEN IdleThread ELSE thread[t]]
  /\ life' = [life EXCEPT ![a] = @ + 1]
  /\ UNCHANGED <<row, queue, slot, published>>

CrashWorker(w) ==
  /\ Crashes
  /\ slot' = [s \in WorkerSlots |-> IF s[1] = w THEN IdleSlot ELSE slot[s]]
  /\ UNCHANGED <<row, queue, thread, life, published>>

-----------------------------------------------------------------------------
DispatchStep(t) ==
  \/ LeaseInline(t)
  \/ \E j \in Jobs : LeaseNext(t, j)
  \/ \E m \in Messages : Publish(t, m)
  \/ Record(t)
  \/ ReadDispatchFailure(t)
  \/ WriteDispatchFailure(t)

CancelStep(t) == CancelQueued(t) \/ CancelRunning(t) \/ Dequeue(t)

ThreadStep(t) ==
  \/ DispatchStep(t)
  \/ CancelStep(t)
  \/ \E j \in Jobs : CreateJob(t, j) \/ RequestCancel(t, j)
  \/ \E old, new \in Jobs : RetryJob(t, old, new)
  \/ PublishThrows(t)
  \/ \E m \in Messages : PublishAnswerLost(t, m)
  \/ RecordThrows(t)
  \/ Abandon(t)
  \/ AbandonAnswerLost(t)

ExecutionStep(s) ==
  \/ Claim(s)
  \/ Prepare(s)
  \/ Stage(s)
  \/ \E o \in Outcome \ {"none"} : RunSandbox(s, o)
  \/ Collect(s)
  \/ PublishResults(s)
  \/ FinalizeSuccess(s)
  \/ FinalizeFailure(s)
  \/ Settle(s)

SlotStep(s) ==
  \/ \E m \in Messages : Fetch(s, m)
  \/ ExecutionStep(s)
  \/ PrepareThrows(s)
  \/ StepThrows(s)
  \/ HandlerThrows(s)

Next ==
  \/ \E t \in Threads : ThreadStep(t)
  \/ \E s \in WorkerSlots : SlotStep(s)
  \/ \E j \in Jobs : ExpireLease(j) \/ ElapseBackoff(j)
  \/ \E m \in Messages : ExpireDelivery(m)
  \/ \E a \in Apis : CrashApi(a)
  \/ \E w \in Workers : CrashWorker(w)

Spec == Init /\ [][Next]_vars
-----------------------------------------------------------------------------
(* Safety *)

\* However often a message is sent or delivered, at most one slot executes a
\* job: only the claim of claimAgentJob starts an execution.
SingleExecution ==
  \A s1, s2 \in WorkerSlots :
    Executing(s1) /\ Executing(s2) /\ JobOf(s1) = JobOf(s2) => s1 = s2

\* The job a slot executes is running under that slot's worker id; once it has
\* moved on, the slot is in its catch block.  Cancellation, dispatch and
\* redelivery never take a running job out of its executor's hands.
ExecutionOwnsJob ==
  \A s \in WorkerSlots : Executing(s) =>
    /\ row[JobOf(s)].claimer = s[1]
    /\ \/ row[JobOf(s)].status = "running"
       \/ slot[s].pc = "recover" /\ row[JobOf(s)].status \in Terminal

\* A job whose cancellation was accepted never succeeds, and one that reads
\* as cancelled was cancelled by a user.
CancelExcludesSuccess ==
  \A j \in Jobs :
    /\ row[j].status = "succeeded" => row[j].cancel = "none"
    /\ row[j].status = "cancelled" => row[j].cancel = "requested"

\* Only a pending job is leased or backed off: every update that takes a job
\* out of dispatch also clears its dispatch columns.
LeaseOnlyWhilePending ==
  \A j \in Jobs :
    /\ row[j].lease # "none" \/ row[j].retry = "later" => row[j].status = "pending"
    /\ (row[j].lease = "none") = (row[j].owner = NoOwner)

\* The queue still owes a queued job a delivery, unless a message of it used
\* up all its deliveries.  A publish that was retried, a lost answer or a
\* cancellation never leaves a queued job without a message.
QueuedJobIsDeliverable ==
  \A j \in Jobs : row[j].status = "queued" =>
    \E m \in Messages :
      /\ queue[m].job = j
      /\ Deliverable(m) \/ (queue[m].state = "failed" /\ queue[m].tries > RetryLimit)

\* Only a message of a cancelled job is cancelled in the queue.
OnlyCancelledJobsAreDequeued ==
  \A m \in Messages : queue[m].state = "cancelled" => row[queue[m].job].status = "cancelled"

\* A job that waits for its next dispatch has attempts left: the failure of the
\* last one ends the job, even when a late dispatcher marks its own failure
\* while another one holds the lease.
WaitingJobHasAttemptsLeft ==
  \A j \in Jobs :
    row[j].status = "pending" /\ row[j].lease = "none"
    => row[j].attempts < MaxDispatchAttempts

\* A succeeded job has had its learnables or changeset written: success is
\* recorded last, and no throw skips the write.
SucceededJobHasResults ==
  \A j \in Jobs : row[j].status = "succeeded" => j \in published

\* The job is running and no slot is left to end it.
Orphaned(j) ==
  /\ row[j].status = "running"
  /\ ~ \E s \in WorkerSlots : Executing(s) /\ JobOf(s) = j

\* Without a crash, a call that throws or a cancellation, a running job has an
\* executor that will end it.
OrphanHasCause ==
  \A j \in Jobs :
    Orphaned(j) => row[j].cancel = "requested" \/ faults.crash > 0 \/ faults.error > 0

-----------------------------------------------------------------------------
(* Action properties *)

\* While a dispatcher works under a live lease nobody else frees the job for
\* dispatch: late results of dispatchers that lost their lease change nothing.
LeaseEndedByItsHolder ==
  [][\A j \in Jobs :
       /\ row[j].lease = "live"
       /\ LeaseHolders(j) # {}
       /\ row'[j].status = "pending"
       /\ row'[j].lease = "none"
       => \E t \in LeaseHolders(j) : thread'[t] # thread[t]]_vars

\* A cancel request that was not cut short leaves the job terminal or marked
\* for cancellation, whatever happened to the job after the request read it.
CancelReachesJob ==
  [][\A t \in Threads :
       /\ thread[t].pc \in {"cancelQueued", "cancelRunning"}
       /\ thread'[t].pc \notin {"cancelQueued", "cancelRunning"}
       /\ faults' = faults
       => LET r == row'[thread[t].job] IN r.cancel = "requested" \/ r.status \in Terminal]_vars

\* The job table keeps the promises of JobStatus.
Promise ==
  INSTANCE JobStatus WITH status <- [j \in Jobs |-> row[j].status],
                          asked  <- [j \in Jobs |-> row[j].cancel = "requested"],
                          runner <- [j \in Jobs |-> row[j].claimer]

KeepsPromise == Promise!Spec

-----------------------------------------------------------------------------
(* Statements of the documentation that the code does not keep *)

\* docs/issues/unified-agent-job-sandboxing.md: "If sandbox launch, timeout,
\* cancellation, result collection, or finalization fails, the durable job
\* fails through the controller."  Here: a controller that returns after
\* finalization leaves the job terminal.
ControllerEndsJob ==
  \A s \in WorkerSlots : slot[s].pc = "settled" => row[JobOf(s)].status \in Terminal

\* The same statement for a controller that throws: the job it executed does
\* not stay running.
ThrowingControllerEndsJob ==
  [][\A s \in WorkerSlots :
       Executing(s) /\ slot'[s].pc = "idle" /\ faults'.crash = faults.crash
       => row'[JobOf(s)].status \in Terminal]_vars

-----------------------------------------------------------------------------
(* Liveness *)

\* API and worker processes keep running what they have started, the dispatch
\* loop's timer and the queue's polling keep firing, and the clock advances.
\* Users and faults are not fair.
Fairness ==
  /\ \A t \in Threads : WF_vars(DispatchStep(t)) /\ WF_vars(CancelStep(t))
  /\ \A s \in WorkerSlots :
       WF_vars(\E m \in Messages : Fetch(s, m)) /\ WF_vars(ExecutionStep(s))
  /\ \A j \in Jobs :
       /\ WF_vars(LeaseHolders(j) = {} /\ ExpireLease(j))
       /\ WF_vars(ElapseBackoff(j))
  /\ \A m \in Messages : WF_vars(~ InHandler(m) /\ ExpireDelivery(m))

FairSpec == Spec /\ Fairness

\* The job is queued and each of its messages used up its deliveries.
Stranded(j) ==
  /\ row[j].status = "queued"
  /\ \A m \in Messages : queue[m].job = j => ~ Deliverable(m)

\* Every submitted job ends, or is one of the two kinds nothing picks up: a
\* running job without executor, a queued one whose deliveries are used up.
SubmittedJobSettles ==
  \A j \in Jobs :
    row[j].status = "pending" ~>
      row[j].status \in Terminal \/ Orphaned(j) \/ Stranded(j)
-----------------------------------------------------------------------------
(* The inductive invariant behind the safety properties: what a row, a message, *)
(* a thread and a slot know of each other.                                     *)

\* A claim was granted.
Started == {"running"} \union Terminal

RowOK(r) ==
  /\ r.status \notin Started => r.cancel = "none" /\ r.claimer = NoWorker
  /\ r.status = "succeeded" => r.cancel = "none"
  /\ r.status = "cancelled" => r.cancel = "requested"
  /\ r.lease # "none" \/ r.retry = "later" => r.status = "pending"
  /\ (r.lease = "none") = (r.owner = NoOwner)
  /\ r.status = "queued" => r.msg # NoMessage
  /\ r.status = "pending" /\ r.lease = "none" => r.attempts < MaxDispatchAttempts

RowInv(j) ==
  /\ RowOK(row[j])
  /\ row[j].status = "succeeded" => j \in published
  /\ row[j].msg # NoMessage => queue[row[j].msg].job = j

MessageInv(m) ==
  LET q == queue[m]
  IN /\ (q.state = "unsent") = (q.job = NoJob)
     /\ q.job # NoJob => row[q.job].status # "absent"
     /\ q.state = "completed" => row[q.job].status \in Started
     /\ q.state = "cancelled" => row[q.job].status = "cancelled"
     /\ q.state = "created" => q.tries <= RetryLimit
     /\ q.state = "failed" => q.tries > RetryLimit

ThreadInv(t) ==
  LET th == thread[t]
  IN /\ th.pc # "idle" => th.job \in Jobs /\ row[th.job].status # "absent"
     /\ th.pc \in {"record", "dequeue"} => th.msg # NoMessage
     /\ th.pc \in {"record", "cancelQueued", "dequeue"} /\ th.msg # NoMessage
          => queue[th.msg].job = th.job
     /\ th.pc = "dequeue" => row[th.job].status = "cancelled"

SlotInv(s) ==
  LET sl == slot[s]
  IN /\ sl.pc # "idle" => sl.msg \in Messages /\ JobOf(s) \in Jobs
     /\ sl.pc = "claim" => sl.outcome = "none"
     /\ sl.pc = "collect" => sl.outcome # "none"
     /\ sl.pc \notin {"idle", "claim"} => row[JobOf(s)].status \in Started
     /\ Executing(s) => /\ row[JobOf(s)].claimer = s[1]
                        /\ row[JobOf(s)].status # "running" => sl.pc = "recover"
     /\ Executing(s) /\ sl.outcome = "cancelled" => row[JobOf(s)].cancel = "requested"
     /\ sl.pc = "finalize" => sl.outcome \in {"failed", "cancelled"}
     /\ sl.pc = "succeed" => JobOf(s) \in published

IInv ==
  /\ TypeOK
  /\ \A j \in Jobs : RowInv(j)
  /\ \A m \in Messages : MessageInv(m)
  /\ \A t \in Threads : ThreadInv(t)
  /\ \A s \in WorkerSlots : SlotInv(s)
  /\ SingleExecution
  /\ OrphanHasCause
=============================================================================
