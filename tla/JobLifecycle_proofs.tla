------------------------ MODULE JobLifecycle_proofs -------------------------
(***************************************************************************)
(* Theorems about JobLifecycle, for every value of its constants.  All of  *)
(* them follow from the inductive invariant IInv.  Its proof has two parts:*)
(* what one update does to one row (ApiMoves, WorkerMoves), and what the   *)
(* rows, messages, threads and slots that a step does not touch keep       *)
(* (RowChange to WorkerStep).  With these, each action has a short lemma.  *)
(* From there on it is about steps: the job table implements JobStatus, a  *)
(* live lease is ended by its holder only, and a cancel request reaches its*)
(* job.  The last two also rest on what a thread that is about to write    *)
(* knows (ThreadKnows).                                                    *)
(***************************************************************************)
EXTENDS JobLifecycle, TLAPS

-----------------------------------------------------------------------------
(* One row, one update *)

\* Every update of the repository, applied to a row of the table, leaves a row of
\* the table: none writes a status or an owner outside the columns' ranges.
LEMMA RowTypes ==
  /\ CreatedRow \in JobRows
  /\ \A r \in JobRows :
       /\ \A d \in Dispatchers : LeasedRow(r, d) \in JobRows
       /\ \A m \in Messages \union {NoMessage} : QueuedRow(r, m) \in JobRows
       /\ \A n \in Nat : DispatchFailedRow(r, n) \in JobRows
       /\ CancelledRow(r) \in JobRows
       /\ FlaggedRow(r) \in JobRows
       /\ \A w \in Workers, m \in Messages \union {NoMessage} : ClaimedRow(r, w, m) \in JobRows
       /\ SucceededRow(r) \in JobRows
       /\ \A v \in {"failed", "cancelled"} : FailedRow(r, v) \in JobRows
<1> USE DEF JobRows, Rows, Status, Claimable, Terminal, Row
<1>1. CreatedRow \in JobRows
  BY DEF CreatedRow
<1>2. SUFFICES ASSUME NEW r \in JobRows
      PROVE  /\ \A d \in Dispatchers : LeasedRow(r, d) \in JobRows
             /\ \A m \in Messages \union {NoMessage} : QueuedRow(r, m) \in JobRows
             /\ \A n \in Nat : DispatchFailedRow(r, n) \in JobRows
             /\ CancelledRow(r) \in JobRows
             /\ FlaggedRow(r) \in JobRows
             /\ \A w \in Workers, m \in Messages \union {NoMessage} : ClaimedRow(r, w, m) \in JobRows
             /\ SucceededRow(r) \in JobRows
             /\ \A v \in {"failed", "cancelled"} : FailedRow(r, v) \in JobRows
  BY <1>1
<1>3. \A d \in Dispatchers : LeasedRow(r, d) \in JobRows
  BY DEF LeasedRow
<1>4. \A m \in Messages \union {NoMessage} : QueuedRow(r, m) \in JobRows
  BY DEF QueuedRow
<1>5. \A n \in Nat : DispatchFailedRow(r, n) \in JobRows
  BY DEF DispatchFailedRow
<1>6. CancelledRow(r) \in JobRows
  BY DEF CancelledRow
<1>7. FlaggedRow(r) \in JobRows
  BY DEF FlaggedRow
<1>8. \A w \in Workers, m \in Messages \union {NoMessage} : ClaimedRow(r, w, m) \in JobRows
  BY DEF ClaimedRow
<1>9. SucceededRow(r) \in JobRows
  BY DEF SucceededRow
<1>10. \A v \in {"failed", "cancelled"} : FailedRow(r, v) \in JobRows
  BY DEF FailedRow
<1> QED BY <1>3, <1>4, <1>5, <1>6, <1>7, <1>8, <1>9, <1>10

\* A row r may become q: a started job stays started and with its worker, a
\* final status is final, an accepted cancellation is kept.
Forward(r, q) ==
  /\ r.status # "absent" => q.status # "absent"
  /\ r.status \in Started => q.status \in Started /\ q.claimer = r.claimer
  /\ r.status \in Terminal => q.status = r.status
  /\ r.cancel = "requested" => q.cancel = "requested"

\* No step takes a job back.
RowsForward == \A k \in Jobs : Forward(row[k], row'[k])

\* A message keeps its payload.
JobsKept == \A m \in Messages : queue[m].job # NoJob => queue'[m].job = queue[m].job

\* An update that may, at most, record message m.
Move(r, q, m) == RowOK(q) /\ Forward(r, q) /\ q.msg \in {r.msg, m}

\* An update that neither starts nor ends an execution.
ApiMove(r, q, m) ==
  /\ Move(r, q, m)
  /\ (q.status = "running") = (r.status = "running")
  /\ (q.status = "succeeded") = (r.status = "succeeded")

\* Each update made by an API process, under the condition of its "where" clause,
\* is an ApiMove: it keeps RowOK, does not touch started jobs except to flag a
\* cancellation, and starts or succeeds none.
LEMMA ApiMoves ==
  ASSUME NEW r \in JobRows, RowOK(r)
  PROVE  /\ \A m \in Messages \union {NoMessage} : ApiMove(r, r, m)
         /\ r.status = "absent" => ApiMove(r, CreatedRow, NoMessage)
         /\ \A d \in Dispatchers : CanLease(r, d) \/ IsDispatchCandidate(r)
              => ApiMove(r, LeasedRow(r, d), NoMessage)
         /\ \A m \in Messages, d \in Dispatchers : CanSetQueueMessage(r, d)
              => ApiMove(r, QueuedRow(r, m), m)
         /\ \A n \in Nat, o \in Dispatchers \union {NoOwner} : CanMarkFailure(r, n, o)
              => ApiMove(r, DispatchFailedRow(r, n), NoMessage)
         /\ r.status \in Claimable => ApiMove(r, CancelledRow(r), NoMessage)
         /\ CanFlagCancellation(r) => ApiMove(r, FlaggedRow(r), NoMessage)
<1> USE ProcessAssumption, MaxDispatchAttemptsAssumption DEF ApiMove, Move, Forward, RowOK, Started, Claimable, Terminal, Row
<1>1. \A m \in Messages \union {NoMessage} : ApiMove(r, r, m)
  OBVIOUS
<1>2. r.status = "absent" => ApiMove(r, CreatedRow, NoMessage)
  BY DEF CreatedRow
<1>3. \A d \in Dispatchers : CanLease(r, d) \/ IsDispatchCandidate(r)
        => ApiMove(r, LeasedRow(r, d), NoMessage)
  BY DEF CanLease, IsDispatchCandidate, LeasedRow, Dispatchers
<1>4. \A m \in Messages, d \in Dispatchers : CanSetQueueMessage(r, d)
        => ApiMove(r, QueuedRow(r, m), m)
  BY DEF CanSetQueueMessage, QueuedRow
<1>5. \A n \in Nat, o \in Dispatchers \union {NoOwner} : CanMarkFailure(r, n, o)
        => ApiMove(r, DispatchFailedRow(r, n), NoMessage)
  BY DEF CanMarkFailure, DispatchFailedRow, ReachedLimit
<1>6. r.status \in Claimable => ApiMove(r, CancelledRow(r), NoMessage)
  BY DEF CancelledRow
<1>7. CanFlagCancellation(r) => ApiMove(r, FlaggedRow(r), NoMessage)
  BY DEF CanFlagCancellation, FlaggedRow, JobRows, Rows
<1> QED BY <1>1, <1>2, <1>3, <1>4, <1>5, <1>6, <1>7

\* Each update made by a worker, under the condition of its "where" clause, is a
\* Move: a claim leaves a running job of that worker, a finalization a final one.
LEMMA WorkerMoves ==
  ASSUME NEW r \in JobRows, RowOK(r)
  PROVE  /\ \A w \in Workers, m \in Messages : CanClaim(r)
              => /\ Move(r, ClaimedRow(r, w, m), m)
                 /\ r.cancel = "none"
                 /\ ClaimedRow(r, w, m).status = "running"
                 /\ ClaimedRow(r, w, m).claimer = w
         /\ CanSucceed(r) => /\ Move(r, SucceededRow(r), NoMessage)
                             /\ SucceededRow(r).status = "succeeded"
         /\ \A v \in {"failed", "cancelled"} :
              r.status = "running" /\ (v = "cancelled" => r.cancel = "requested")
              => Move(r, FailedRow(r, v), NoMessage) /\ FailedRow(r, v).status = v
<1> USE DEF Move, Forward, RowOK, Started, Claimable, Terminal, Row
<1>1. \A w \in Workers, m \in Messages : CanClaim(r)
        => /\ Move(r, ClaimedRow(r, w, m), m)
           /\ r.cancel = "none"
           /\ ClaimedRow(r, w, m).status = "running"
           /\ ClaimedRow(r, w, m).claimer = w
  BY ProcessAssumption DEF CanClaim, ClaimedRow
<1>2. CanSucceed(r) => Move(r, SucceededRow(r), NoMessage) /\ SucceededRow(r).status = "succeeded"
  BY DEF CanSucceed, SucceededRow, JobRows, Rows
<1>3. \A v \in {"failed", "cancelled"} :
        r.status = "running" /\ (v = "cancelled" => r.cancel = "requested")
        => Move(r, FailedRow(r, v), NoMessage) /\ FailedRow(r, v).status = v
  BY DEF FailedRow, JobRows, Rows
<1> QED BY <1>1, <1>2, <1>3

-----------------------------------------------------------------------------
(* What a step leaves alone *)

\* If one row makes a Move and every other row stays, all rows move forward and
\* keep their invariant.
LEMMA RowChange ==
  ASSUME IInv, JobsKept, published \subseteq published', NEW j \in Jobs,
         \A k \in Jobs \ {j} : row'[k] = row[k],
         NEW m \in Messages \union {NoMessage}, m # NoMessage => queue[m].job = j,
         Move(row[j], row'[j], m),
         row'[j].status = "succeeded" => j \in published'
  PROVE  RowsForward /\ \A k \in Jobs : RowInv(k)'
<1> USE DEF IInv
<1>1. ASSUME NEW k \in Jobs PROVE Forward(row[k], row'[k])
  BY DEF Forward, Move
<1>2. ASSUME NEW k \in Jobs PROVE RowInv(k)'
  <2>1. row'[k].msg # NoMessage => queue'[row'[k].msg].job = k
    <3>1. row[k].msg \in Messages \union {NoMessage} /\ NoJob \notin Jobs
      BY ProcessAssumption DEF TypeOK, JobRows, Rows
    <3> QED BY <3>1, m \in Messages \union {NoMessage} DEF JobsKept, RowInv, Move
  <2>2. RowOK(row'[k]) /\ (row'[k].status = "succeeded" => k \in published')
    BY DEF RowInv, Move
  <2> QED BY <2>1, <2>2 DEF RowInv, RowOK
<1> QED BY <1>1, <1>2 DEF RowsForward

\* Steps that leave the table alone keep the invariant of its rows.
LEMMA RowsKept ==
  ASSUME IInv, JobsKept, published \subseteq published', row' = row
  PROVE  RowsForward /\ \A k \in Jobs : RowInv(k)'
<1> USE DEF IInv
<1>1. RowsForward
  BY DEF RowsForward, Forward
<1>2. ASSUME NEW k \in Jobs PROVE RowInv(k)'
  <2>1. row[k].msg \in Messages \union {NoMessage} /\ NoJob \notin Jobs
    BY ProcessAssumption DEF TypeOK, JobRows, Rows
  <2> QED BY <2>1 DEF JobsKept, RowInv, RowOK
<1> QED BY <1>1, <1>2

\* Steps that leave the queue alone keep the invariant of its messages, because
\* a started job stays started and a cancelled one cancelled.
LEMMA MessagesKept ==
  ASSUME IInv, RowsForward, queue' = queue
  PROVE  JobsKept /\ \A m \in Messages : MessageInv(m)'
<1>1. JobsKept
  BY DEF JobsKept
<1>2. ASSUME NEW m \in Messages PROVE MessageInv(m)'
  <2>1. queue[m].job \in Jobs \union {NoJob}
    BY DEF IInv, TypeOK, QueueTypeOK
  <2> QED BY <2>1 DEF IInv, MessageInv, RowsForward, Forward, Terminal, Started
<1> QED BY <1>1, <1>2

\* A thread that does not move keeps its invariant while others do.
LEMMA ThreadsKept ==
  ASSUME IInv, JobsKept, RowsForward, NEW u \in Threads, thread'[u] = thread[u]
  PROVE  ThreadInv(u)'
<1>1. thread[u].msg \in Messages \union {NoMessage} /\ NoJob \notin Jobs
  BY ProcessAssumption DEF IInv, TypeOK, ThreadRecords
<1> QED BY <1>1 DEF IInv, ThreadInv, JobsKept, RowsForward, Forward, Terminal

\* A slot that does not move keeps its invariant while others do, as long as they
\* leave the status of the job it executes alone.
LEMMA SlotsKept ==
  ASSUME IInv, JobsKept, RowsForward, published \subseteq published',
         NEW z \in WorkerSlots, slot'[z] = slot[z],
         Executing(z) => row'[JobOf(z)].status = row[JobOf(z)].status
  PROVE  SlotInv(z)'
<1>1. slot[z].pc # "idle" => JobOf(z) \in Jobs /\ JobOf(z)' = JobOf(z)
  BY ProcessAssumption DEF IInv, SlotInv, JobOf, JobsKept
<1>2. CASE slot[z].pc = "idle"
  BY <1>2 DEF SlotInv, Executing, ExecutingPc
<1>3. CASE slot[z].pc # "idle"
  <2>1. Executing(z)' = Executing(z)
    BY DEF Executing
  <2> QED BY <1>1, <1>3, <2>1 DEF IInv, SlotInv, RowsForward, Forward, Started, Terminal
<1> QED BY <1>2, <1>3

FaultsGrow == faults.crash <= faults'.crash /\ faults.error <= faults'.error

\* The fault counters stay within their bounds and only grow.
LEMMA FaultSteps ==
  ASSUME faults \in FaultRecords, Crashes \/ Delays \/ Throws \/ UNCHANGED faults
  PROVE  /\ faults' \in FaultRecords
         /\ FaultsGrow
         /\ Crashes => faults'.crash > 0
         /\ Throws => faults'.error > 0
<1> USE BoundAssumption DEF FaultRecords, FaultsGrow
<1>1. CASE Crashes
  BY <1>1 DEF Crashes, Throws
<1>2. CASE Delays
  BY <1>2 DEF Delays, Crashes, Throws
<1>3. CASE Throws
  BY <1>3 DEF Crashes, Throws
<1>4. CASE UNCHANGED faults
  BY <1>4 DEF Crashes, Throws
<1> QED BY <1>1, <1>2, <1>3, <1>4

\* Steps of API processes, of the queue and of the clock, which move no slot and
\* start or end no execution, keep what is known of slots and orphans.
LEMMA NoSlotMoves ==
  ASSUME IInv, JobsKept, RowsForward, FaultsGrow, faults' \in FaultRecords, slot' = slot, published' = published,
         \A k \in Jobs : (row'[k].status = "running") = (row[k].status = "running")
  PROVE  (\A z \in WorkerSlots : SlotInv(z)') /\ SingleExecution' /\ OrphanHasCause'
<1>1. ASSUME NEW z \in WorkerSlots, slot[z].pc # "idle"
      PROVE  JobOf(z) \in Jobs /\ JobOf(z)' = JobOf(z)
  BY <1>1, ProcessAssumption DEF IInv, SlotInv, JobOf, JobsKept
<1>2. \A z \in WorkerSlots : Executing(z)' = Executing(z) /\ (Executing(z) => slot[z].pc # "idle")
  BY DEF Executing, ExecutingPc
<1>3. ASSUME NEW z \in WorkerSlots PROVE SlotInv(z)'
  <2>1. CASE Executing(z)
    <3>1. row'[JobOf(z)].status = row[JobOf(z)].status
      BY <1>1, <1>2, <2>1 DEF IInv, SlotInv, RowsForward, Forward, Started, Terminal
    <3> QED BY <3>1, SlotsKept
  <2>2. CASE ~ Executing(z)
    BY <2>2, SlotsKept
  <2> QED BY <2>1, <2>2
<1>4. SingleExecution'
  BY <1>1, <1>2 DEF IInv, SingleExecution
<1>5. OrphanHasCause'
  <2> SUFFICES ASSUME NEW k \in Jobs, Orphaned(k)'
               PROVE  (row[k].cancel = "requested" \/ faults.crash > 0 \/ faults.error > 0)'
    BY DEF OrphanHasCause
  <2>1. Orphaned(k)
    BY <1>1, <1>2 DEF Orphaned
  <2>2. row[k].cancel = "requested" \/ faults.crash > 0 \/ faults.error > 0
    BY <2>1 DEF IInv, OrphanHasCause
  <2>3. faults \in FaultRecords
    BY DEF IInv, TypeOK
  <2> QED BY <2>2, <2>3, BoundAssumption DEF RowsForward, Forward, FaultsGrow, FaultRecords
<1> QED BY <1>3, <1>4, <1>5

\* A step of one slot keeps the invariant of the other slots, single execution and
\* the cause of orphans, if it only writes the row of its own job, starts an
\* execution only by a claim, and leaves no running job behind without a cause.
LEMMA OneSlotMoves ==
  ASSUME IInv, JobsKept, RowsForward, FaultsGrow, faults' \in FaultRecords,
         published \subseteq published', NEW s \in WorkerSlots,
         \A z \in WorkerSlots \ {s} : slot'[z] = slot[z],
         slot[s].pc # "idle", 
         Executing(s)' => slot'[s].msg = slot[s].msg,
         \A k \in Jobs \ {JobOf(s)} : row'[k] = row[k],
         Executing(s) \/ row[JobOf(s)].status \notin Started \/ row' = row,
         Executing(s)' => Executing(s) \/ row[JobOf(s)].status \notin Started,
         \/ ~ Executing(s) /\ row' = row
         \/ Executing(s)'
         \/ row'[JobOf(s)].status # "running"
         \/ row'[JobOf(s)].cancel = "requested" \/ faults'.crash > 0 \/ faults'.error > 0
  PROVE  /\ \A z \in WorkerSlots \ {s} : SlotInv(z)'
         /\ SingleExecution'
         /\ OrphanHasCause'
<1>1. ASSUME NEW z \in WorkerSlots, slot[z].pc # "idle"
      PROVE  JobOf(z) \in Jobs /\ queue'[slot[z].msg].job = JobOf(z)
  BY <1>1, ProcessAssumption DEF IInv, SlotInv, JobOf, JobsKept
<1>2. ASSUME NEW z \in WorkerSlots, Executing(z)
      PROVE  JobOf(z) \in Jobs /\ queue'[slot[z].msg].job = JobOf(z) /\ row[JobOf(z)].status \in Started
  BY <1>1, <1>2 DEF IInv, SlotInv, Executing, ExecutingPc
<1>3. ASSUME NEW z \in WorkerSlots \ {s}
      PROVE  Executing(z)' = Executing(z) /\ (Executing(z) => JobOf(z)' = JobOf(z))
  BY <1>2, <1>3 DEF Executing, JobOf
<1>4. Executing(s)' => JobOf(s)' = JobOf(s)
  BY <1>1 DEF JobOf
<1>5. ASSUME NEW z \in WorkerSlots \ {s} PROVE SlotInv(z)'
  <2>1. CASE Executing(z)
    <3>1. JobOf(z) # JobOf(s) \/ row' = row
      BY <1>2, <2>1 DEF IInv, SingleExecution
    <3> QED BY <1>2, <2>1, <3>1, SlotsKept
  <2>2. CASE ~ Executing(z)
    BY <2>2, SlotsKept
  <2> QED BY <2>1, <2>2
<1>6. SingleExecution'
  <2> SUFFICES ASSUME NEW z1 \in WorkerSlots, NEW z2 \in WorkerSlots,
                      Executing(z1)', Executing(z2)', JobOf(z1)' = JobOf(z2)'
               PROVE  z1 = z2
    BY DEF SingleExecution
  <2>1. ASSUME NEW z \in WorkerSlots \ {s}, Executing(z), Executing(s)', JobOf(z) = JobOf(s)
        PROVE  FALSE
    BY <1>2, <2>1 DEF IInv, SingleExecution
  <2> QED BY <1>3, <1>4, <2>1 DEF IInv, SingleExecution
<1>7. OrphanHasCause'
  <2> SUFFICES ASSUME NEW k \in Jobs, Orphaned(k)'
               PROVE  (row[k].cancel = "requested" \/ faults.crash > 0 \/ faults.error > 0)'
    BY DEF OrphanHasCause
  <2>1. CASE Orphaned(k)
    <3>1. row[k].cancel = "requested" \/ faults.crash > 0 \/ faults.error > 0
      BY <2>1 DEF IInv, OrphanHasCause
    <3>2. faults \in FaultRecords
      BY DEF IInv, TypeOK
    <3> QED BY <3>1, <3>2, BoundAssumption DEF RowsForward, Forward, FaultsGrow, FaultRecords
  <2>2. CASE ~ Orphaned(k)
    <3>1. ASSUME k # JobOf(s) PROVE FALSE
      <4>1. row[k].status = "running"
        BY <3>1 DEF Orphaned
      <4>2. PICK z \in WorkerSlots : Executing(z) /\ JobOf(z) = k
        BY <2>2, <4>1 DEF Orphaned
      <4> QED BY <1>3, <3>1, <4>2 DEF Orphaned
    <3>2. ~ Executing(s)' /\ row'[k].status = "running"
      BY <1>4, <3>1 DEF Orphaned
    <3>3. ASSUME ~ Executing(s), row' = row PROVE FALSE
      <4>1. PICK z \in WorkerSlots : Executing(z) /\ JobOf(z) = k
        BY <2>2, <3>2, <3>3 DEF Orphaned
      <4> QED BY <1>3, <3>3, <4>1 DEF Orphaned
    <3> QED BY <3>1, <3>2, <3>3
  <2> QED BY <2>1, <2>2
<1> QED BY <1>5, <1>6, <1>7

\* The common part of all steps that change one row by an ApiMove.
LEMMA ApiStep ==
  ASSUME IInv, UNCHANGED <<queue, slot, published>>, FaultsGrow, faults' \in FaultRecords,
         NEW j \in Jobs, \A k \in Jobs \ {j} : row'[k] = row[k],
         NEW m \in Messages \union {NoMessage}, m # NoMessage => queue[m].job = j,
         ApiMove(row[j], row'[j], m)
  PROVE  /\ JobsKept /\ RowsForward
         /\ \A k \in Jobs : RowInv(k)'
         /\ \A n \in Messages : MessageInv(n)'
         /\ \A z \in WorkerSlots : SlotInv(z)'
         /\ SingleExecution' /\ OrphanHasCause'
<1>1. JobsKept
  BY DEF JobsKept
<1>2. RowsForward /\ \A k \in Jobs : RowInv(k)'
  BY <1>1, RowChange DEF ApiMove, IInv, RowInv
<1>3. \A n \in Messages : MessageInv(n)'
  BY <1>2, MessagesKept
<1>4. \A k \in Jobs : (row'[k].status = "running") = (row[k].status = "running")
  BY DEF ApiMove
<1> QED BY <1>1, <1>2, <1>3, <1>4, NoSlotMoves

\* The common part of all steps that change neither a row nor a slot.
LEMMA QueueStep ==
  ASSUME IInv, UNCHANGED <<row, slot, published>>, FaultsGrow, faults' \in FaultRecords, JobsKept
  PROVE  /\ RowsForward
         /\ \A k \in Jobs : RowInv(k)'
         /\ \A z \in WorkerSlots : SlotInv(z)'
         /\ SingleExecution' /\ OrphanHasCause'
<1>1. RowsForward /\ \A k \in Jobs : RowInv(k)'
  BY RowsKept
<1> QED BY <1>1, NoSlotMoves

\* The common part of all steps of a slot that leave the queue alone.
LEMMA WorkerStep ==
  ASSUME IInv, NEW s \in WorkerSlots, slot[s].pc # "idle", UNCHANGED <<queue, thread>>,
         FaultsGrow, faults' \in FaultRecords, published \subseteq published',
         \A z \in WorkerSlots \ {s} : slot'[z] = slot[z],
         \A k \in Jobs \ {JobOf(s)} : row'[k] = row[k],
         row' = row \/ Move(row[JobOf(s)], row'[JobOf(s)], slot[s].msg)
                       \/ Move(row[JobOf(s)], row'[JobOf(s)], NoMessage),
         row'[JobOf(s)].status = "succeeded" => JobOf(s) \in published',
         Executing(s)' => slot'[s].msg = slot[s].msg,
         Executing(s) \/ row[JobOf(s)].status \notin Started \/ row' = row,
         Executing(s)' => Executing(s) \/ row[JobOf(s)].status \notin Started,
         \/ ~ Executing(s) /\ row' = row
         \/ Executing(s)'
         \/ row'[JobOf(s)].status # "running"
         \/ row'[JobOf(s)].cancel = "requested" \/ faults'.crash > 0 \/ faults'.error > 0
  PROVE  /\ JobsKept /\ RowsForward
         /\ \A k \in Jobs : RowInv(k)'
         /\ \A n \in Messages : MessageInv(n)'
         /\ \A u \in Threads : ThreadInv(u)'
         /\ \A z \in WorkerSlots \ {s} : SlotInv(z)'
         /\ SingleExecution' /\ OrphanHasCause'
<1>1. JobsKept
  BY DEF JobsKept
<1>2. JobOf(s) \in Jobs /\ slot[s].msg \in Messages /\ queue[slot[s].msg].job = JobOf(s)
  BY DEF IInv, SlotInv, JobOf
<1>3. RowsForward /\ \A k \in Jobs : RowInv(k)'
  <2>1. CASE row' = row
    BY <1>1, <2>1, RowsKept
  <2>2. CASE Move(row[JobOf(s)], row'[JobOf(s)], slot[s].msg)
    BY <1>1, <1>2, <2>2, RowChange
  <2>3. CASE Move(row[JobOf(s)], row'[JobOf(s)], NoMessage)
    BY <1>1, <1>2, <2>3, RowChange
  <2> QED BY <2>1, <2>2, <2>3
<1>4. \A n \in Messages : MessageInv(n)'
  BY <1>3, MessagesKept
<1>5. \A u \in Threads : ThreadInv(u)'
  BY <1>1, <1>3, ThreadsKept
<1> QED BY <1>1, <1>3, <1>4, <1>5, OneSlotMoves

\* The lease owner of a thread is one of the dispatchers.
LEMMA DispatcherIdType ==
  ASSUME life \in [Apis -> Nat], NEW t \in Threads
  PROVE  DispatcherId(t) \in Dispatchers
BY DEF DispatcherId, Threads, Dispatchers

-----------------------------------------------------------------------------
(* Steps of API processes, of the queue and of the clock *)

\* The insert of a job, by a first request or by a retry.
LEMMA StartDispatchInv ==
  ASSUME IInv, NEW t \in Threads, NEW j \in Jobs, row[j].status = "absent", StartDispatch(t, j)
  PROVE  IInv'
<1> USE DEF StartDispatch
<1>1. j \in Jobs /\ row[j] \in JobRows /\ RowOK(row[j])
  BY DEF IInv, TypeOK, ThreadInv, RowInv
<1>2. DispatcherId(t) \in Dispatchers
  BY DispatcherIdType DEF IInv, TypeOK
<1>3. FaultsGrow /\ faults' \in FaultRecords
  BY FaultSteps DEF IInv, TypeOK
<1>4. TypeOK'
  <2>1. row' \in [Jobs -> JobRows]
    BY <1>1, <1>2, RowTypes DEF IInv, TypeOK, StartDispatch, ThreadRecords
  <2>2. thread' \in [Threads -> ThreadRecords]
    BY <1>1 DEF IInv, TypeOK, ThreadRecords, ThreadPc, Thread
  <2> QED BY <1>3, <2>1, <2>2 DEF IInv, TypeOK, QueueTypeOK
<1>5. /\ JobsKept /\ RowsForward
      /\ \A k \in Jobs : RowInv(k)'
      /\ \A n \in Messages : MessageInv(n)'
      /\ \A z \in WorkerSlots : SlotInv(z)'
      /\ SingleExecution' /\ OrphanHasCause'
  <2>1. ApiMove(row[j], row'[j], NoMessage) /\ \A k \in Jobs \ {j} : row'[k] = row[k]
    BY <1>1, <1>2, ApiMoves DEF IInv, TypeOK, StartDispatch, ThreadRecords, ThreadInv
  <2>2. NoMessage # NoMessage => NoMessage \in Messages /\ queue[NoMessage].job = j
    BY DEF IInv, TypeOK, ThreadRecords, ThreadInv
  <2> QED BY <1>1, <1>3, <2>1, <2>2, ApiStep
<1>6. ASSUME NEW u \in Threads PROVE ThreadInv(u)'
  <2>1. CASE u = t
    <3>1. row'[j].status # "absent"
      BY <1>1 DEF IInv, TypeOK, CreatedRow, Row
    <3> QED BY <1>1, <2>1, <3>1 DEF IInv, TypeOK, ThreadInv, ThreadRecords, Thread, StartDispatch, Row, RowInv
  <2>2. CASE u # t
    BY <1>5, <2>2, ThreadsKept DEF Thread
  <2> QED BY <2>1, <2>2
<1> QED BY <1>4, <1>5, <1>6 DEF IInv

\* leaseAnalysisJobForDispatch.
LEMMA LeaseInlineInv ==
  ASSUME IInv, NEW t \in Threads, LeaseInline(t)
  PROVE  IInv'
<1> DEFINE j == thread[t].job
<1> USE DEF LeaseInline, LeaseForDispatch
<1>1. j \in Jobs /\ row[j] \in JobRows /\ RowOK(row[j])
  BY DEF IInv, TypeOK, ThreadInv, RowInv
<1>2. DispatcherId(t) \in Dispatchers
  BY DispatcherIdType DEF IInv, TypeOK
<1>3. FaultsGrow /\ faults' \in FaultRecords
  BY FaultSteps DEF IInv, TypeOK
<1>4. TypeOK'
  <2>1. row' \in [Jobs -> JobRows]
    BY <1>1, <1>2, RowTypes DEF IInv, TypeOK, UpdateRow, ThreadRecords
  <2>2. thread' \in [Threads -> ThreadRecords]
    BY <1>1 DEF IInv, TypeOK, ThreadRecords, ThreadPc, Goto, Return, IdleThread, Thread
  <2> QED BY <1>3, <2>1, <2>2 DEF IInv, TypeOK, QueueTypeOK
<1>5. /\ JobsKept /\ RowsForward
      /\ \A k \in Jobs : RowInv(k)'
      /\ \A n \in Messages : MessageInv(n)'
      /\ \A z \in WorkerSlots : SlotInv(z)'
      /\ SingleExecution' /\ OrphanHasCause'
  <2>1. ApiMove(row[j], row'[j], NoMessage) /\ \A k \in Jobs \ {j} : row'[k] = row[k]
    BY <1>1, <1>2, ApiMoves DEF IInv, TypeOK, UpdateRow, ThreadRecords, ThreadInv
  <2>2. NoMessage # NoMessage => NoMessage \in Messages /\ queue[NoMessage].job = j
    BY DEF IInv, TypeOK, ThreadRecords, ThreadInv
  <2> QED BY <1>1, <1>3, <2>1, <2>2, ApiStep
<1>6. ASSUME NEW u \in Threads PROVE ThreadInv(u)'
  <2>1. CASE u = t
    <3>1. row'[j].status # "absent"
      BY <1>1, <1>5 DEF RowsForward, Forward, IInv, ThreadInv
    <3> QED BY <1>1, <2>1, <3>1 DEF IInv, TypeOK, ThreadInv, ThreadRecords, Goto, Return, IdleThread, Thread, UpdateRow, Row, RowInv
  <2>2. CASE u # t
    <3>1. thread'[u] = thread[u]
      BY <2>2 DEF IInv, TypeOK, Goto, Return
    <3> QED BY <1>5, <3>1, ThreadsKept
  <2> QED BY <2>1, <2>2
<1> QED BY <1>4, <1>5, <1>6 DEF IInv

\* leaseNextPendingAnalysisJobForDispatch.
LEMMA LeaseNextInv ==
  ASSUME IInv, NEW t \in Threads, NEW j \in Jobs, LeaseNext(t, j)
  PROVE  IInv'
<1> USE DEF LeaseNext, LeaseCandidate
<1>1. j \in Jobs /\ row[j] \in JobRows /\ RowOK(row[j])
  BY DEF IInv, TypeOK, ThreadInv, RowInv
<1>2. DispatcherId(t) \in Dispatchers
  BY DispatcherIdType DEF IInv, TypeOK
<1>3. FaultsGrow /\ faults' \in FaultRecords
  BY FaultSteps DEF IInv, TypeOK
<1>4. TypeOK'
  <2>1. row' \in [Jobs -> JobRows]
    BY <1>1, <1>2, RowTypes DEF IInv, TypeOK, LeaseNext, ThreadRecords
  <2>2. thread' \in [Threads -> ThreadRecords]
    BY <1>1 DEF IInv, TypeOK, ThreadRecords, ThreadPc, Thread
  <2> QED BY <1>3, <2>1, <2>2 DEF IInv, TypeOK, QueueTypeOK
<1>5. /\ JobsKept /\ RowsForward
      /\ \A k \in Jobs : RowInv(k)'
      /\ \A n \in Messages : MessageInv(n)'
      /\ \A z \in WorkerSlots : SlotInv(z)'
      /\ SingleExecution' /\ OrphanHasCause'
  <2>1. ApiMove(row[j], row'[j], NoMessage) /\ \A k \in Jobs \ {j} : row'[k] = row[k]
    BY <1>1, <1>2, ApiMoves DEF IInv, TypeOK, LeaseNext, ThreadRecords, ThreadInv
  <2>2. NoMessage # NoMessage => NoMessage \in Messages /\ queue[NoMessage].job = j
    BY DEF IInv, TypeOK, ThreadRecords, ThreadInv
  <2> QED BY <1>1, <1>3, <2>1, <2>2, ApiStep
<1>6. ASSUME NEW u \in Threads PROVE ThreadInv(u)'
  <2>1. CASE u = t
    <3>1. row'[j].status # "absent"
      BY <1>1, <1>5 DEF RowsForward, Forward, IsDispatchCandidate
    <3> QED BY <1>1, <2>1, <3>1 DEF IInv, TypeOK, ThreadInv, ThreadRecords, Thread, LeaseNext, Row, RowInv
  <2>2. CASE u # t
    BY <1>5, <2>2, ThreadsKept DEF Thread
  <2> QED BY <2>1, <2>2
<1> QED BY <1>4, <1>5, <1>6 DEF IInv

\* setAnalysisJobQueueMessage.
LEMMA RecordInv ==
  ASSUME IInv, NEW t \in Threads, Record(t)
  PROVE  IInv'
<1> DEFINE j == thread[t].job
<1> USE DEF Record
<1>1. j \in Jobs /\ row[j] \in JobRows /\ RowOK(row[j])
  BY DEF IInv, TypeOK, ThreadInv, RowInv
<1>2. DispatcherId(t) \in Dispatchers
  BY DispatcherIdType DEF IInv, TypeOK
<1>3. FaultsGrow /\ faults' \in FaultRecords
  BY FaultSteps DEF IInv, TypeOK
<1>4. TypeOK'
  <2>1. row' \in [Jobs -> JobRows]
    BY <1>1, <1>2, RowTypes DEF IInv, TypeOK, UpdateRow, RecordMessage, ThreadRecords
  <2>2. thread' \in [Threads -> ThreadRecords]
    BY <1>1 DEF IInv, TypeOK, ThreadRecords, ThreadPc, Return, IdleThread, Thread
  <2> QED BY <1>3, <2>1, <2>2 DEF IInv, TypeOK, QueueTypeOK
<1>5. /\ JobsKept /\ RowsForward
      /\ \A k \in Jobs : RowInv(k)'
      /\ \A n \in Messages : MessageInv(n)'
      /\ \A z \in WorkerSlots : SlotInv(z)'
      /\ SingleExecution' /\ OrphanHasCause'
  <2>1. ApiMove(row[j], row'[j], thread[t].msg) /\ \A k \in Jobs \ {j} : row'[k] = row[k]
    BY <1>1, <1>2, ApiMoves DEF IInv, TypeOK, UpdateRow, RecordMessage, ThreadRecords, ThreadInv
  <2>2. thread[t].msg # NoMessage => thread[t].msg \in Messages /\ queue[thread[t].msg].job = j
    BY DEF IInv, TypeOK, ThreadRecords, ThreadInv
  <2> QED BY <1>1, <1>3, <2>1, <2>2, ApiStep
<1>6. ASSUME NEW u \in Threads PROVE ThreadInv(u)'
  <2>1. CASE u = t
    <3>1. row'[j].status # "absent"
      BY <1>1, <1>5 DEF RowsForward, Forward, IInv, ThreadInv
    <3> QED BY <1>1, <2>1, <3>1 DEF IInv, TypeOK, ThreadInv, ThreadRecords, Return, IdleThread, Thread, UpdateRow, RecordMessage, Row, RowInv
  <2>2. CASE u # t
    BY <1>5, <2>2, ThreadsKept DEF Return, IdleThread, Thread
  <2> QED BY <2>1, <2>2
<1> QED BY <1>4, <1>5, <1>6 DEF IInv

\* setAnalysisJobQueueMessage, when it or the read after it throws.
LEMMA RecordThrowsInv ==
  ASSUME IInv, NEW t \in Threads, RecordThrows(t)
  PROVE  IInv'
<1> DEFINE j == thread[t].job
<1> USE DEF RecordThrows
<1>1. j \in Jobs /\ row[j] \in JobRows /\ RowOK(row[j])
  BY DEF IInv, TypeOK, ThreadInv, RowInv
<1>2. DispatcherId(t) \in Dispatchers
  BY DispatcherIdType DEF IInv, TypeOK
<1>3. FaultsGrow /\ faults' \in FaultRecords
  BY FaultSteps DEF IInv, TypeOK
<1>4. TypeOK'
  <2>1. row' \in [Jobs -> JobRows]
    <3>1. CASE UNCHANGED row
      BY <3>1 DEF IInv, TypeOK
    <3>2. CASE RecordMessage(t)
      BY <1>1, <3>2, RowTypes DEF IInv, TypeOK, UpdateRow, RecordMessage, ThreadRecords
    <3> QED BY <3>1, <3>2
  <2>2. thread' \in [Threads -> ThreadRecords]
    BY <1>1 DEF IInv, TypeOK, ThreadRecords, ThreadPc, Goto
  <2> QED BY <1>3, <2>1, <2>2 DEF IInv, TypeOK, QueueTypeOK
<1>5. /\ JobsKept /\ RowsForward
      /\ \A k \in Jobs : RowInv(k)'
      /\ \A n \in Messages : MessageInv(n)'
      /\ \A z \in WorkerSlots : SlotInv(z)'
      /\ SingleExecution' /\ OrphanHasCause'
  <2>1. ApiMove(row[j], row'[j], thread[t].msg) /\ \A k \in Jobs \ {j} : row'[k] = row[k]
    BY <1>1, <1>2, ApiMoves DEF IInv, TypeOK, UpdateRow, RecordMessage, ThreadRecords, ThreadInv
  <2>2. thread[t].msg # NoMessage => thread[t].msg \in Messages /\ queue[thread[t].msg].job = j
    BY DEF IInv, TypeOK, ThreadRecords, ThreadInv
  <2> QED BY <1>1, <1>3, <2>1, <2>2, ApiStep
<1>6. ASSUME NEW u \in Threads PROVE ThreadInv(u)'
  <2>1. CASE u = t
    <3>1. row'[j].status # "absent"
      BY <1>1, <1>5 DEF RowsForward, Forward, IInv, ThreadInv
    <3> QED BY <1>1, <2>1, <3>1 DEF IInv, TypeOK, ThreadInv, ThreadRecords, Goto, UpdateRow, RecordMessage, Row, RowInv
  <2>2. CASE u # t
    BY <1>5, <2>2, ThreadsKept DEF Goto
  <2> QED BY <2>1, <2>2
<1> QED BY <1>4, <1>5, <1>6 DEF IInv

\* markAnalysisJobDispatchFailure, its write.
LEMMA WriteDispatchFailureInv ==
  ASSUME IInv, NEW t \in Threads, WriteDispatchFailure(t)
  PROVE  IInv'
<1> DEFINE j == thread[t].job
<1> USE DEF WriteDispatchFailure, MarkFailure
<1>1. j \in Jobs /\ row[j] \in JobRows /\ RowOK(row[j])
  BY DEF IInv, TypeOK, ThreadInv, RowInv
<1>2. DispatcherId(t) \in Dispatchers
  BY DispatcherIdType DEF IInv, TypeOK
<1>3. FaultsGrow /\ faults' \in FaultRecords
  BY FaultSteps DEF IInv, TypeOK
<1>4. TypeOK'
  <2>1. row' \in [Jobs -> JobRows]
    BY <1>1, <1>2, RowTypes DEF IInv, TypeOK, UpdateRow, ThreadRecords
  <2>2. thread' \in [Threads -> ThreadRecords]
    BY <1>1 DEF IInv, TypeOK, ThreadRecords, ThreadPc, Return, IdleThread, Thread
  <2> QED BY <1>3, <2>1, <2>2 DEF IInv, TypeOK, QueueTypeOK
<1>5. /\ JobsKept /\ RowsForward
      /\ \A k \in Jobs : RowInv(k)'
      /\ \A n \in Messages : MessageInv(n)'
      /\ \A z \in WorkerSlots : SlotInv(z)'
      /\ SingleExecution' /\ OrphanHasCause'
  <2>1. ApiMove(row[j], row'[j], NoMessage) /\ \A k \in Jobs \ {j} : row'[k] = row[k]
    BY <1>1, <1>2, ApiMoves DEF IInv, TypeOK, UpdateRow, ThreadRecords, ThreadInv
  <2>2. NoMessage # NoMessage => NoMessage \in Messages /\ queue[NoMessage].job = j
    BY DEF IInv, TypeOK, ThreadRecords, ThreadInv
  <2> QED BY <1>1, <1>3, <2>1, <2>2, ApiStep
<1>6. ASSUME NEW u \in Threads PROVE ThreadInv(u)'
  <2>1. CASE u = t
    <3>1. row'[j].status # "absent"
      BY <1>1, <1>5 DEF RowsForward, Forward, IInv, ThreadInv
    <3> QED BY <1>1, <2>1, <3>1 DEF IInv, TypeOK, ThreadInv, ThreadRecords, Return, IdleThread, Thread, UpdateRow, Row, RowInv
  <2>2. CASE u # t
    BY <1>5, <2>2, ThreadsKept DEF Return, IdleThread, Thread
  <2> QED BY <2>1, <2>2
<1> QED BY <1>4, <1>5, <1>6 DEF IInv

\* requestJobCancellationForUser, for a job not claimed yet.
LEMMA CancelQueuedInv ==
  ASSUME IInv, NEW t \in Threads, CancelQueued(t)
  PROVE  IInv'
<1> DEFINE j == thread[t].job
<1> USE DEF CancelQueued, CancelBeforeClaim
<1>1. j \in Jobs /\ row[j] \in JobRows /\ RowOK(row[j])
  BY DEF IInv, TypeOK, ThreadInv, RowInv
<1>2. DispatcherId(t) \in Dispatchers
  BY DispatcherIdType DEF IInv, TypeOK
<1>3. FaultsGrow /\ faults' \in FaultRecords
  BY FaultSteps DEF IInv, TypeOK
<1>7. \/ /\ row[j].status \notin Claimable
         /\ thread' = [thread EXCEPT ![t].pc = "cancelRunning"]
      \/ /\ row[j].status \in Claimable
         /\ thread[t].msg # NoMessage
         /\ thread' = [thread EXCEPT ![t].pc = "dequeue"]
      \/ /\ row[j].status \in Claimable
         /\ thread' = [thread EXCEPT ![t] = IdleThread]
  BY DEF Goto, Return
<1>4. TypeOK'
  <2>1. row' \in [Jobs -> JobRows]
    BY <1>1, <1>2, RowTypes DEF IInv, TypeOK, UpdateRow, ThreadRecords
  <2>2. thread' \in [Threads -> ThreadRecords]
    BY <1>7 DEF IInv, TypeOK, ThreadRecords, ThreadPc, IdleThread, Thread
  <2> QED BY <1>3, <2>1, <2>2 DEF IInv, TypeOK, QueueTypeOK
<1>5. /\ JobsKept /\ RowsForward
      /\ \A k \in Jobs : RowInv(k)'
      /\ \A n \in Messages : MessageInv(n)'
      /\ \A z \in WorkerSlots : SlotInv(z)'
      /\ SingleExecution' /\ OrphanHasCause'
  <2>1. ApiMove(row[j], row'[j], NoMessage) /\ \A k \in Jobs \ {j} : row'[k] = row[k]
    BY <1>1, <1>2, ApiMoves DEF IInv, TypeOK, UpdateRow, ThreadRecords, ThreadInv
  <2>2. NoMessage # NoMessage => NoMessage \in Messages /\ queue[NoMessage].job = j
    BY DEF IInv, TypeOK, ThreadRecords, ThreadInv
  <2> QED BY <1>1, <1>3, <2>1, <2>2, ApiStep
<1>8. row'[j].status # "absent"
  BY <1>1, <1>5 DEF RowsForward, Forward, IInv, ThreadInv
<1>6. ASSUME NEW u \in Threads PROVE ThreadInv(u)'
  <2>1. CASE u = t
    <3>1. CASE row[j].status \in Claimable
      <4>1. row'[j].status = "cancelled"
        BY <1>1, <3>1 DEF IInv, TypeOK, UpdateRow, CancelledRow, Row
      <4> QED BY <1>1, <1>7, <1>8, <2>1, <3>1, <4>1 DEF IInv, TypeOK, ThreadInv, ThreadRecords, IdleThread, Thread
    <3>2. CASE row[j].status \notin Claimable
      BY <1>1, <1>7, <1>8, <2>1, <3>2 DEF IInv, TypeOK, ThreadInv, ThreadRecords
    <3> QED BY <3>1, <3>2
  <2>2. CASE u # t
    BY <1>5, <1>7, <2>2, ThreadsKept DEF IInv, TypeOK
  <2> QED BY <2>1, <2>2
<1> QED BY <1>4, <1>5, <1>6 DEF IInv

\* requestJobCancellationForUser, for a running job.
LEMMA CancelRunningInv ==
  ASSUME IInv, NEW t \in Threads, CancelRunning(t)
  PROVE  IInv'
<1> DEFINE j == thread[t].job
<1> USE DEF CancelRunning, FlagRunning
<1>1. j \in Jobs /\ row[j] \in JobRows /\ RowOK(row[j])
  BY DEF IInv, TypeOK, ThreadInv, RowInv
<1>2. DispatcherId(t) \in Dispatchers
  BY DispatcherIdType DEF IInv, TypeOK
<1>3. FaultsGrow /\ faults' \in FaultRecords
  BY FaultSteps DEF IInv, TypeOK
<1>4. TypeOK'
  <2>1. row' \in [Jobs -> JobRows]
    BY <1>1, <1>2, RowTypes DEF IInv, TypeOK, UpdateRow, ThreadRecords
  <2>2. thread' \in [Threads -> ThreadRecords]
    BY <1>1 DEF IInv, TypeOK, ThreadRecords, ThreadPc, Return, IdleThread, Thread
  <2> QED BY <1>3, <2>1, <2>2 DEF IInv, TypeOK, QueueTypeOK
<1>5. /\ JobsKept /\ RowsForward
      /\ \A k \in Jobs : RowInv(k)'
      /\ \A n \in Messages : MessageInv(n)'
      /\ \A z \in WorkerSlots : SlotInv(z)'
      /\ SingleExecution' /\ OrphanHasCause'
  <2>1. ApiMove(row[j], row'[j], NoMessage) /\ \A k \in Jobs \ {j} : row'[k] = row[k]
    BY <1>1, <1>2, ApiMoves DEF IInv, TypeOK, UpdateRow, ThreadRecords, ThreadInv
  <2>2. NoMessage # NoMessage => NoMessage \in Messages /\ queue[NoMessage].job = j
    BY DEF IInv, TypeOK, ThreadRecords, ThreadInv
  <2> QED BY <1>1, <1>3, <2>1, <2>2, ApiStep
<1>6. ASSUME NEW u \in Threads PROVE ThreadInv(u)'
  <2>1. CASE u = t
    <3>1. row'[j].status # "absent"
      BY <1>1, <1>5 DEF RowsForward, Forward, IInv, ThreadInv
    <3> QED BY <1>1, <2>1, <3>1 DEF IInv, TypeOK, ThreadInv, ThreadRecords, Return, IdleThread, Thread, UpdateRow, Row, RowInv
  <2>2. CASE u # t
    BY <1>5, <2>2, ThreadsKept DEF Return, IdleThread, Thread
  <2> QED BY <2>1, <2>2
<1> QED BY <1>4, <1>5, <1>6 DEF IInv

\* publishDispatchedJob sends the message, and its answer comes back or is lost.
LEMMA PublishInv ==
  ASSUME IInv, NEW t \in Threads, NEW m \in Messages,
         Publish(t, m) \/ PublishAnswerLost(t, m)
  PROVE  IInv'
<1>1. /\ UNCHANGED <<row, life, slot, published>>
      /\ SendMessage(m, thread[t].job)
      /\ thread[t].pc = "publish"
      /\ UNCHANGED faults \/ Throws
      /\ \/ thread' = [thread EXCEPT ![t] = Thread("record", @.job, m, 0, NoOwner)]
         \/ thread' = [thread EXCEPT ![t].pc = "fail"]
  BY DEF Publish, PublishAnswerLost, Goto
<1>2. FaultsGrow /\ faults' \in FaultRecords
  BY <1>1, FaultSteps DEF IInv, TypeOK
<1>3. thread[t].job \in Jobs
  BY <1>1 DEF IInv, ThreadInv
<1>4. TypeOK'
  <2>1. QueueTypeOK(Jobs, WorkerSlots)'
    BY <1>1, <1>3, RetryLimitAssumption
       DEF IInv, TypeOK, QueueTypeOK, SendMessage, Message, MessageState
  <2>2. thread' \in [Threads -> ThreadRecords]
    BY <1>1, <1>3 DEF IInv, TypeOK, ThreadRecords, ThreadPc, Thread
  <2> QED BY <1>1, <1>2, <2>1, <2>2 DEF IInv, TypeOK
<1>5. JobsKept
  BY <1>1 DEF IInv, TypeOK, QueueTypeOK, MessageInv, JobsKept, SendMessage
<1>6. ASSUME NEW n \in Messages PROVE MessageInv(n)'
  <2>1. row[thread[t].job].status # "absent"
    BY <1>1 DEF IInv, ThreadInv
  <2>2. CASE n = m
    <3>1. queue'[m] = Message(thread[t].job, "created", 0, NoSlot)
      BY <1>1 DEF IInv, TypeOK, QueueTypeOK, SendMessage
    <3> QED BY <1>1, <1>3, <2>1, <2>2, <3>1, ProcessAssumption, RetryLimitAssumption DEF MessageInv, Message
  <2>3. CASE n # m
    BY <1>1, <2>3 DEF IInv, TypeOK, QueueTypeOK, MessageInv, SendMessage
  <2> QED BY <2>2, <2>3
<1>7. ThreadInv(t)' /\ \A u \in Threads \ {t} : thread'[u] = thread[u]
  <2>1. CASE thread' = [thread EXCEPT ![t] = Thread("record", @.job, m, 0, NoOwner)]
    <3>1. queue'[m].job = thread[t].job /\ m # NoMessage /\ row[thread[t].job].status # "absent"
      BY <1>1, ProcessAssumption DEF IInv, TypeOK, QueueTypeOK, ThreadInv, SendMessage, Message
    <3> QED BY <1>1, <1>3, <2>1, <3>1 DEF IInv, TypeOK, ThreadInv, Thread
  <2>2. CASE thread' = [thread EXCEPT ![t].pc = "fail"]
    BY <1>1, <1>3, <2>2 DEF IInv, TypeOK, ThreadInv, ThreadRecords
  <2> QED BY <1>1, <2>1, <2>2
<1>8. RowsForward
  BY <1>1, <1>2, <1>5, QueueStep
<1>9. \A u \in Threads : ThreadInv(u)'
  BY <1>5, <1>7, <1>8, ThreadsKept
<1> QED BY <1>1, <1>2, <1>4, <1>5, <1>6, <1>9, QueueStep DEF IInv

\* Steps of a thread that only move the thread.
LEMMA ThreadOnlyInv ==
  ASSUME IInv, NEW t \in Threads,
         \/ PublishThrows(t)
         \/ ReadDispatchFailure(t)
         \/ \E j \in Jobs : RequestCancel(t, j)
         \/ Abandon(t)
  PROVE  IInv'
<1>1. UNCHANGED <<row, queue, life, slot, published>> /\ (UNCHANGED faults \/ Throws)
  BY DEF PublishThrows, ReadDispatchFailure, RequestCancel, Abandon
<1>2. FaultsGrow /\ faults' \in FaultRecords
  BY <1>1, FaultSteps DEF IInv, TypeOK
<1>3. JobsKept
  BY <1>1 DEF JobsKept
<1>4. RowsForward
  BY <1>1, <1>2, <1>3, QueueStep
<1>5. /\ thread' \in [Threads -> ThreadRecords]
      /\ ThreadInv(t)'
      /\ \A u \in Threads \ {t} : thread'[u] = thread[u]
  <2>1. /\ thread \in [Threads -> ThreadRecords] /\ row \in [Jobs -> JobRows]
        /\ ThreadInv(t) /\ \A j \in Jobs : RowInv(j)
    BY DEF IInv, TypeOK
  <2>2. CASE PublishThrows(t)
    BY <1>1, <2>1, <2>2 DEF PublishThrows, Goto, ThreadRecords, ThreadPc, ThreadInv
  <2>3. CASE ReadDispatchFailure(t)
    <3> DEFINE j == thread[t].job
    <3>1. /\ j \in Jobs /\ row[j].status # "absent"
          /\ row[j].attempts \in Nat /\ row[j].owner \in Dispatchers \union {NoOwner}
      BY <2>1, <2>3 DEF ReadDispatchFailure, ThreadInv, JobRows, Rows
    <3>2. \/ thread' = [thread EXCEPT ![t] =
                          Thread("failWrite", j, NoMessage, row[j].attempts, row[j].owner)]
          \/ thread' = [thread EXCEPT ![t] = Thread("idle", NoJob, NoMessage, 0, NoOwner)]
      BY <2>3 DEF ReadDispatchFailure, Return, IdleThread
    <3>3. thread' \in [Threads -> ThreadRecords]
      BY <2>1, <3>1, <3>2 DEF ThreadRecords, ThreadPc, Thread
    <3>4. ThreadInv(t)'
      BY <1>1, <2>1, <3>1, <3>2 DEF Thread, ThreadInv
    <3> QED BY <2>1, <3>2, <3>3, <3>4
  <2>4. ASSUME NEW j \in Jobs, RequestCancel(t, j)
        PROVE  /\ thread' \in [Threads -> ThreadRecords]
               /\ ThreadInv(t)'
               /\ \A u \in Threads \ {t} : thread'[u] = thread[u]
    <3>1. /\ row[j].msg \in Messages \union {NoMessage} /\ row[j].status # "absent"
          /\ row[j].msg # NoMessage => queue[row[j].msg].job = j
      BY <2>1, <2>4 DEF RequestCancel, Claimable, JobRows, Rows, RowInv
    <3>2. \/ thread' = [thread EXCEPT ![t] = Thread("cancelRunning", j, NoMessage, 0, NoOwner)]
          \/ thread' = [thread EXCEPT ![t] = Thread("cancelQueued", j, row[j].msg, 0, NoOwner)]
      BY <2>4 DEF RequestCancel
    <3>3. thread' \in [Threads -> ThreadRecords]
      BY <2>1, <3>1, <3>2 DEF ThreadRecords, ThreadPc, Thread
    <3>4. ThreadInv(t)'
      BY <1>1, <2>1, <3>1, <3>2 DEF Thread, ThreadInv
    <3> QED BY <2>1, <3>2, <3>3, <3>4
  <2>5. CASE Abandon(t)
    BY <1>1, <2>1, <2>5 DEF Abandon, Return, IdleThread, Thread, ThreadRecords, ThreadPc, ThreadInv
  <2> QED BY <2>2, <2>3, <2>4, <2>5
<1>6. ASSUME NEW u \in Threads PROVE ThreadInv(u)'
  BY <1>3, <1>4, <1>5, ThreadsKept
<1>7. TypeOK'
  BY <1>1, <1>2, <1>5 DEF IInv, TypeOK, QueueTypeOK
<1> QED BY <1>1, <1>2, <1>3, <1>4, <1>6, <1>7, QueueStep, MessagesKept DEF IInv

\* cancelAgentJob: the cancelled message belongs to a cancelled job.
LEMMA DequeueInv ==
  ASSUME IInv, NEW t \in Threads, thread[t].pc = "dequeue",
         CancelMessage(thread[t].msg), Return(t),
         UNCHANGED <<row, life, slot, published>>, UNCHANGED faults \/ Throws
  PROVE  IInv'
<1> DEFINE m == thread[t].msg
<1> USE DEF Return
<1>1. /\ m \in Messages
      /\ queue[m].job = thread[t].job
      /\ thread[t].job \in Jobs
      /\ row[thread[t].job].status = "cancelled"
  BY DEF IInv, TypeOK, ThreadRecords, ThreadInv
<1>2. FaultsGrow /\ faults' \in FaultRecords
  BY FaultSteps DEF IInv, TypeOK
<1>3. \A n \in Messages :
        /\ queue'[n].job = queue[n].job /\ queue'[n].tries = queue[n].tries
        /\ \/ queue'[n].state = queue[n].state
           \/ n = m /\ queue[n].state \in {"created", "active"} /\ queue'[n].state = "cancelled"
  BY DEF IInv, TypeOK, QueueTypeOK, CancelMessage, Deliverable
<1>4. JobsKept
  BY <1>3 DEF JobsKept
<1>5. TypeOK'
  <2>1. QueueTypeOK(Jobs, WorkerSlots)'
    <3>1. CASE Deliverable(m)
      BY <3>1 DEF IInv, TypeOK, QueueTypeOK, CancelMessage, MessageState
    <3>2. CASE ~ Deliverable(m)
      BY <3>2 DEF IInv, TypeOK, QueueTypeOK, CancelMessage, MessageState
    <3> QED BY <3>1, <3>2
  <2>2. thread' \in [Threads -> ThreadRecords]
    BY DEF IInv, TypeOK, ThreadRecords, ThreadPc, IdleThread, Thread
  <2> QED BY <1>2, <2>1, <2>2 DEF IInv, TypeOK
<1>6. ASSUME NEW n \in Messages PROVE MessageInv(n)'
  BY <1>1, <1>3, ProcessAssumption DEF IInv, MessageInv
<1>7. ASSUME NEW u \in Threads PROVE ThreadInv(u)'
  <2>1. CASE u = t
    BY <2>1 DEF IInv, TypeOK, ThreadInv, IdleThread, Thread
  <2>2. CASE u # t
    BY <1>2, <1>4, <2>2, QueueStep, ThreadsKept
  <2> QED BY <2>1, <2>2
<1> QED BY <1>2, <1>4, <1>5, <1>6, <1>7, QueueStep DEF IInv

\* A thread whose call took effect and whose answer is lost.
LEMMA AbandonAnswerLostInv ==
  ASSUME IInv, NEW t \in Threads, AbandonAnswerLost(t)
  PROVE  IInv'
<1>1. CASE thread[t].pc = "dequeue" /\ CancelMessage(thread[t].msg) /\ UNCHANGED row
  BY <1>1, DequeueInv DEF AbandonAnswerLost
<1>2. ASSUME UNCHANGED queue, NEW j \in Jobs, \A k \in Jobs \ {j} : row'[k] = row[k],
             row' \in [Jobs -> JobRows], ApiMove(row[j], row'[j], NoMessage)
      PROVE  IInv'
  <2>1. UNCHANGED <<life, slot, published>> /\ Throws /\ thread' = [thread EXCEPT ![t] = IdleThread]
    BY DEF AbandonAnswerLost, Return
  <2>2. FaultsGrow /\ faults' \in FaultRecords
    BY <2>1, FaultSteps DEF IInv, TypeOK
  <2>3. /\ JobsKept /\ RowsForward
        /\ \A k \in Jobs : RowInv(k)'
        /\ \A n \in Messages : MessageInv(n)'
        /\ \A z \in WorkerSlots : SlotInv(z)'
        /\ SingleExecution' /\ OrphanHasCause'
    BY <1>2, <2>1, <2>2, ApiStep
  <2>4. ASSUME NEW u \in Threads PROVE ThreadInv(u)'
    <3>1. CASE u = t
      BY <2>1, <3>1 DEF IInv, TypeOK, ThreadInv, IdleThread, Thread
    <3>2. CASE u # t
      BY <2>1, <2>3, <3>2, ThreadsKept
    <3> QED BY <3>1, <3>2
  <2>5. TypeOK'
    BY <1>2, <2>1, <2>2 DEF IInv, TypeOK, QueueTypeOK, ThreadRecords, ThreadPc, IdleThread, Thread
  <2> QED BY <2>3, <2>4, <2>5 DEF IInv
<1>3. ASSUME UNCHANGED queue, NEW j \in Jobs, NEW r \in JobRows, NEW where \in BOOLEAN,
             UpdateRow(j, where, r), where => ApiMove(row[j], r, NoMessage)
      PROVE  IInv'
  <2>1. row \in [Jobs -> JobRows] /\ ApiMove(row[j], row[j], NoMessage)
    BY ApiMoves DEF IInv, TypeOK, RowInv
  <2> QED BY <1>2, <1>3, <2>1 DEF UpdateRow
<1>4. DispatcherId(t) \in Dispatchers
  BY DispatcherIdType DEF IInv, TypeOK
<1>5. ASSUME NEW j \in Jobs, LeaseCandidate(t, j), UNCHANGED queue
      PROVE  IInv'
  <2>1. /\ row \in [Jobs -> JobRows] /\ RowOK(row[j])
        /\ row' = [row EXCEPT ![j] = LeasedRow(row[j], DispatcherId(t))]
        /\ IsDispatchCandidate(row[j])
    BY <1>5 DEF IInv, TypeOK, RowInv, LeaseCandidate
  <2>2. ApiMove(row[j], LeasedRow(row[j], DispatcherId(t)), NoMessage)
        /\ LeasedRow(row[j], DispatcherId(t)) \in JobRows
    BY <1>4, <2>1, ApiMoves, RowTypes
  <2> QED BY <1>2, <1>5, <2>1, <2>2
<1>6. ASSUME thread[t].pc # "idle"
      PROVE  thread[t].job \in Jobs /\ row[thread[t].job] \in JobRows /\ RowOK(row[thread[t].job])
  BY <1>6 DEF IInv, TypeOK, ThreadInv, RowInv
<1>7. CASE thread[t].pc = "lease" /\ LeaseForDispatch(t) /\ UNCHANGED queue
  <2> DEFINE r == row[thread[t].job]
  <2>1. /\ LeasedRow(r, DispatcherId(t)) \in JobRows
        /\ CanLease(r, DispatcherId(t)) => ApiMove(r, LeasedRow(r, DispatcherId(t)), NoMessage)
    BY <1>4, <1>6, <1>7, ApiMoves, RowTypes
  <2> QED BY <1>3, <1>6, <1>7, <2>1 DEF LeaseForDispatch, CanLease
<1>8. CASE thread[t].pc = "failWrite" /\ MarkFailure(t) /\ UNCHANGED queue
  <2> DEFINE th == thread[t]
             r  == row[th.job]
  <2>1. th.attempts \in Nat /\ th.owner \in Dispatchers \union {NoOwner}
    BY DEF IInv, TypeOK, ThreadRecords
  <2>2. /\ DispatchFailedRow(r, th.attempts) \in JobRows
        /\ CanMarkFailure(r, th.attempts, th.owner)
             => ApiMove(r, DispatchFailedRow(r, th.attempts), NoMessage)
    BY <1>6, <1>8, <2>1, ApiMoves, RowTypes
  <2> QED BY <1>3, <1>6, <1>8, <2>2 DEF MarkFailure, CanMarkFailure
<1>9. CASE thread[t].pc = "cancelQueued" /\ CancelBeforeClaim(t) /\ UNCHANGED queue
  <2> DEFINE r == row[thread[t].job]
  <2>1. CancelledRow(r) \in JobRows /\ (r.status \in Claimable => ApiMove(r, CancelledRow(r), NoMessage))
    BY <1>6, <1>9, ApiMoves, RowTypes
  <2>2. UpdateRow(thread[t].job, r.status \in Claimable, CancelledRow(r))
    BY <1>9 DEF CancelBeforeClaim
  <2>3. (r.status \in Claimable) \in BOOLEAN
    OBVIOUS
  <2> QED BY <1>3, <1>6, <1>9, <2>1, <2>2, <2>3
<1>10. CASE thread[t].pc = "cancelRunning" /\ FlagRunning(t) /\ UNCHANGED queue
  <2> DEFINE r == row[thread[t].job]
  <2>1. FlaggedRow(r) \in JobRows /\ (CanFlagCancellation(r) => ApiMove(r, FlaggedRow(r), NoMessage))
    BY <1>6, <1>10, ApiMoves, RowTypes
  <2> QED BY <1>3, <1>6, <1>10, <2>1 DEF FlagRunning, CanFlagCancellation
<1> QED BY <1>1, <1>5, <1>7, <1>8, <1>9, <1>10 DEF AbandonAnswerLost

\* A lease expires, or a backoff elapses.
LEMMA ClockInv ==
  ASSUME IInv, NEW j \in Jobs, ExpireLease(j) \/ ElapseBackoff(j)
  PROVE  IInv'
<1>1. /\ UNCHANGED <<queue, thread, life, slot, published>>
      /\ UNCHANGED faults \/ Delays
      /\ \/ row[j].lease = "live" /\ row' = [row EXCEPT ![j].lease = "expired"]
         \/ row' = [row EXCEPT ![j].retry = "due"]
  BY DEF ExpireLease, ElapseBackoff
<1>2. FaultsGrow /\ faults' \in FaultRecords
  BY <1>1, FaultSteps DEF IInv, TypeOK
<1>3. row' \in [Jobs -> JobRows]
  BY <1>1 DEF IInv, TypeOK, JobRows, Rows
<1>4. ApiMove(row[j], row'[j], NoMessage) /\ \A k \in Jobs \ {j} : row'[k] = row[k]
  BY <1>1 DEF IInv, TypeOK, JobRows, Rows, RowInv, RowOK, ApiMove, Move, Forward, Started, Terminal
<1>5. /\ JobsKept /\ RowsForward
      /\ \A k \in Jobs : RowInv(k)'
      /\ \A n \in Messages : MessageInv(n)'
      /\ \A z \in WorkerSlots : SlotInv(z)'
      /\ SingleExecution' /\ OrphanHasCause'
  BY <1>1, <1>2, <1>4, ApiStep
<1>6. ASSUME NEW u \in Threads PROVE ThreadInv(u)'
  BY <1>1, <1>5, ThreadsKept
<1>7. TypeOK'
  BY <1>1, <1>2, <1>3 DEF IInv, TypeOK, QueueTypeOK
<1> QED BY <1>5, <1>6, <1>7 DEF IInv

\* A delivery expires.
LEMMA ExpireDeliveryInv ==
  ASSUME IInv, NEW m \in Messages, ExpireDelivery(m)
  PROVE  IInv'
<1>1. /\ UNCHANGED <<row, thread, life, slot, published>>
      /\ UNCHANGED faults \/ Delays
      /\ queue[m].state = "active"
      /\ queue' = [queue EXCEPT ![m] = Returned(@)]
  BY DEF ExpireDelivery, ExpireMessage
<1>2. FaultsGrow /\ faults' \in FaultRecords
  BY <1>1, FaultSteps DEF IInv, TypeOK
<1>3. JobsKept
  BY <1>1 DEF IInv, TypeOK, QueueTypeOK, JobsKept, Returned, Message
<1>4. RowsForward
  BY <1>1, <1>2, <1>3, QueueStep
<1>5. QueueTypeOK(Jobs, WorkerSlots)'
  BY <1>1, RetryLimitAssumption DEF IInv, TypeOK, QueueTypeOK, Returned, Message, MessageState
<1>6. ASSUME NEW n \in Messages PROVE MessageInv(n)'
  BY <1>1, RetryLimitAssumption DEF IInv, TypeOK, QueueTypeOK, MessageInv, Returned, Message
<1>7. ASSUME NEW u \in Threads PROVE ThreadInv(u)'
  BY <1>1, <1>3, <1>4, ThreadsKept
<1>8. TypeOK'
  BY <1>1, <1>2, <1>5 DEF IInv, TypeOK
<1> QED BY <1>1, <1>2, <1>3, <1>6, <1>7, <1>8, QueueStep DEF IInv

\* An API process crashes and restarts.
LEMMA CrashApiInv ==
  ASSUME IInv, NEW a \in Apis, CrashApi(a)
  PROVE  IInv'
<1> USE DEF CrashApi
<1>1. FaultsGrow /\ faults' \in FaultRecords
  BY FaultSteps DEF IInv, TypeOK
<1>2. JobsKept
  BY DEF JobsKept
<1>3. RowsForward
  BY <1>1, <1>2, QueueStep
<1>4. thread' \in [Threads -> ThreadRecords] /\ life' \in [Apis -> Nat]
  BY DEF IInv, TypeOK, ThreadRecords, ThreadPc, IdleThread, Thread
<1>5. ASSUME NEW u \in Threads PROVE ThreadInv(u)'
  <2>1. CASE u[1] = a
    BY <2>1 DEF IInv, TypeOK, ThreadInv, IdleThread, Thread
  <2>2. CASE u[1] # a
    BY <1>2, <1>3, <2>2, ThreadsKept
  <2> QED BY <2>1, <2>2
<1>6. TypeOK'
  BY <1>1, <1>4 DEF IInv, TypeOK, QueueTypeOK
<1> QED BY <1>1, <1>2, <1>3, <1>5, <1>6, QueueStep, MessagesKept DEF IInv

-----------------------------------------------------------------------------
(* Steps of workers *)

\* What a slot that handles a message knows of its job.
LEMMA SlotFacts ==
  ASSUME IInv, NEW s \in WorkerSlots, slot[s].pc # "idle"
  PROVE  /\ s[1] \in Workers
         /\ slot[s] \in SlotRecords
         /\ slot[s].msg \in Messages
         /\ JobOf(s) \in Jobs
         /\ row[JobOf(s)] \in JobRows
         /\ RowOK(row[JobOf(s)])
         /\ RowInv(JobOf(s))
         /\ queue[slot[s].msg].job = JobOf(s)
         /\ Executing(s) => /\ row[JobOf(s)].status \in Started
                            /\ row[JobOf(s)].status \notin Claimable
BY DEF IInv, TypeOK, SlotInv, RowInv, WorkerSlots, JobOf, Executing, ExecutingPc,
       Started, Claimable, Terminal

\* Steps of an execution that do not write the job row.
LEMMA ExecutionStepInv ==
  ASSUME IInv, NEW s \in WorkerSlots,
         \/ Prepare(s) \/ Stage(s) \/ Collect(s) \/ PublishResults(s)
         \/ \E o \in Outcome \ {"none"} : RunSandbox(s, o)
  PROVE  IInv'
<1>1. /\ UNCHANGED <<row, queue, thread, life, faults>>
      /\ slot[s].pc \in {"prepare", "stage", "sandbox", "collect", "publish"}
      /\ published' = published \/ (PublishResults(s) /\ published' = published \union {JobOf(s)})
  BY DEF Prepare, Stage, Collect, PublishResults, RunSandbox
<1>2. /\ slot' \in [WorkerSlots -> SlotRecords]
      /\ \A z \in WorkerSlots \ {s} : slot'[z] = slot[z]
      /\ slot'[s].pc \in ExecutingPc \ {"recover"}
      /\ slot'[s].msg = slot[s].msg
      /\ slot'[s].pc = "finalize" => slot'[s].outcome \in {"failed", "cancelled"}
      /\ slot'[s].outcome = "cancelled" => row[JobOf(s)].cancel = "requested"
      /\ slot'[s].pc = "succeed" => JobOf(s) \in published'
      /\ slot'[s].pc = "collect" => slot'[s].outcome # "none"
  <2>1. /\ slot \in [WorkerSlots -> SlotRecords]
        /\ slot[s].outcome = "cancelled" => row[JobOf(s)].cancel = "requested"
    BY <1>1 DEF IInv, TypeOK, SlotInv, Executing, ExecutingPc
  <2> USE DEF SlotRecords, ExecutingPc, SlotPc, Outcome, Slot
  <2>2. CASE Prepare(s)
    BY <2>1, <2>2 DEF Prepare, GotoSlot
  <2>3. CASE Stage(s)
    BY <2>1, <2>3 DEF Stage, GotoSlot
  <2>4. CASE Collect(s)
    <3>1. \/ slot' = [slot EXCEPT ![s] = Slot("finalize", @.msg, "cancelled")]
             /\ row[JobOf(s)].cancel = "requested"
          \/ slot' = [slot EXCEPT ![s] = Slot("publish", @.msg, "ok")]
          \/ slot' = [slot EXCEPT ![s] = Slot("finalize", @.msg, @.outcome)]
             /\ slot[s].outcome # "ok"
      BY <2>1, <2>4 DEF Collect
    <3>2. slot[s].outcome # "none"
      BY <2>4 DEF Collect, IInv, SlotInv, Executing, ExecutingPc
    <3> QED BY <2>1, <3>1, <3>2
  <2>5. CASE PublishResults(s)
    BY <2>1, <2>5 DEF PublishResults, GotoSlot
  <2>6. CASE \E o \in Outcome \ {"none"} : RunSandbox(s, o)
    BY <2>1, <2>6 DEF RunSandbox
  <2> QED BY <2>2, <2>3, <2>4, <2>5, <2>6
<1>3. Executing(s) /\ Executing(s)' /\ slot[s].pc # "idle" /\ slot[s].pc # "recover"
  BY <1>1, <1>2 DEF Executing, ExecutingPc
<1>4. /\ JobOf(s) \in Jobs /\ JobOf(s)' = JobOf(s)
      /\ row[JobOf(s)].status = "running" /\ row[JobOf(s)].claimer = s[1]
      /\ RowInv(JobOf(s)) /\ RowOK(row[JobOf(s)])
  BY <1>1, <1>2, <1>3 DEF IInv, SlotInv, RowInv, JobOf
<1>5. TypeOK'
  BY <1>1, <1>2, <1>4 DEF IInv, TypeOK, QueueTypeOK
<1>6. FaultsGrow /\ faults' \in FaultRecords
  BY <1>1, FaultSteps DEF IInv, TypeOK
<1>7. SlotInv(s)'
  <2>1. slot'[s].msg \in Messages
    BY <1>2, <1>3, SlotFacts
  <2> QED BY <1>1, <1>2, <1>3, <1>4, <2>1 DEF SlotInv, Started, ExecutingPc
<1>8. /\ \A k \in Jobs : RowInv(k)'
      /\ \A n \in Messages : MessageInv(n)'
      /\ \A u \in Threads : ThreadInv(u)'
      /\ \A z \in WorkerSlots \ {s} : SlotInv(z)'
      /\ SingleExecution' /\ OrphanHasCause'
  BY <1>1, <1>2, <1>3, <1>4, <1>6, WorkerStep
<1> QED BY <1>5, <1>7, <1>8 DEF IInv

\* Steps of an execution that end the job, or that throw into the catch block.
LEMMA JobEndsInv ==
  ASSUME IInv, NEW s \in WorkerSlots,
         \/ PrepareThrows(s) \/ FinalizeSuccess(s) \/ FinalizeFailure(s) \/ StepThrows(s)
  PROVE  IInv'
<1> DEFINE j == JobOf(s)
<1>1. /\ UNCHANGED <<queue, thread, life>>
      /\ UNCHANGED faults \/ Throws
      /\ published' \in {published, published \union {j}}
      /\ Executing(s) /\ slot[s].pc # "idle"
  BY DEF PrepareThrows, FinalizeSuccess, FinalizeFailure, StepThrows, Executing, ExecutingPc
<1>2. FaultsGrow /\ faults' \in FaultRecords /\ (Throws => faults'.error > 0)
  BY <1>1, FaultSteps DEF IInv, TypeOK
<1>3. /\ j \in Jobs /\ row[j] \in JobRows /\ RowInv(j) /\ RowOK(row[j])
      /\ row[j].status \in Started /\ row[j].status \notin Claimable /\ row[j].claimer = s[1]
      /\ row[j].status = "running" \/ slot[s].pc = "recover"
      /\ slot[s] \in SlotRecords /\ slot[s].msg \in Messages
  BY <1>1, SlotFacts DEF IInv, SlotInv
<1>4. /\ slot' \in [WorkerSlots -> SlotRecords]
      /\ \A z \in WorkerSlots \ {s} : slot'[z] = slot[z]
      /\ slot'[s].msg = slot[s].msg
      /\ slot'[s].outcome = slot[s].outcome
      /\ \/ slot'[s].pc \in {"dropped", "settled"}
         \/ Throws /\ slot'[s].pc = "recover"
  BY DEF IInv, TypeOK, SlotRecords, SlotPc, ExecutingPc, PrepareThrows, FinalizeSuccess, FinalizeFailure, StepThrows, GotoSlot
<1>5. \/ UNCHANGED row
      \/ /\ CanSucceed(row[j]) /\ j \in published
         /\ row' = [row EXCEPT ![j] = SucceededRow(row[j])]
      \/ \E v \in {"failed", "cancelled"} :
           /\ row[j].status = "running"
           /\ v = "cancelled" => row[j].cancel = "requested"
           /\ row' = [row EXCEPT ![j] = FailedRow(row[j], v)]
  <2> USE DEF UpdateRow
  <2>1. CASE PrepareThrows(s)
    BY <1>3, <2>1 DEF IInv, TypeOK, PrepareThrows, FailClaim, CanFailClaim
  <2>2. CASE FinalizeSuccess(s)
    BY <1>1, <1>3, <2>2 DEF IInv, TypeOK, SlotInv, FinalizeSuccess
  <2>3. CASE FinalizeFailure(s)
    BY <1>1, <1>3, <2>3 DEF IInv, TypeOK, SlotInv, FinalizeFailure, CanFail
  <2>4. CASE StepThrows(s)
    BY <1>1, <1>3, <2>4 DEF IInv, TypeOK, SlotInv, StepThrows, CanFail
  <2> QED BY <2>1, <2>2, <2>3, <2>4
<1>6. UNCHANGED row => Throws \/ row[j].status # "running" \/ row[j].cancel = "requested"
  <2> USE DEF UpdateRow
  <2>1. CASE PrepareThrows(s)
    BY <2>1 DEF PrepareThrows
  <2>2. CASE FinalizeSuccess(s)
    <3>1. CanSucceed(row[j]) /\ UNCHANGED row => row[j].status = "succeeded"
      BY <1>3, <2>2 DEF FinalizeSuccess, IInv, TypeOK, SucceededRow, JobRows, Rows
    <3> QED BY <1>3, <3>1 DEF CanSucceed, JobRows, Rows
  <2>3. CASE FinalizeFailure(s)
    <3>1. CanFail(row[j]) /\ UNCHANGED row => row[j].status # "running"
      BY <1>3, <2>3 DEF FinalizeFailure, IInv, TypeOK, SlotInv, Executing, ExecutingPc, FailedRow, JobRows, Rows
    <3> QED BY <3>1 DEF CanFail
  <2>4. CASE StepThrows(s)
    BY <2>4 DEF StepThrows
  <2> QED BY <2>1, <2>2, <2>3, <2>4
<1>7. /\ row' \in [Jobs -> JobRows]
      /\ \A k \in Jobs \ {j} : row'[k] = row[k]
      /\ \/ row' = row
         \/ Move(row[j], row'[j], NoMessage) /\ row'[j].status \in Terminal
      /\ row'[j].status = "succeeded" => j \in published'
  <2>1. row \in [Jobs -> JobRows]
    BY DEF IInv, TypeOK
  <2>2. CASE UNCHANGED row
    <3>1. row[j].status = "succeeded" => j \in published
      BY <1>3 DEF RowInv
    <3> QED BY <1>1, <2>1, <2>2, <3>1
  <2>3. CASE CanSucceed(row[j]) /\ j \in published /\ row' = [row EXCEPT ![j] = SucceededRow(row[j])]
    BY <1>1, <1>3, <2>1, <2>3, RowTypes, WorkerMoves DEF Terminal
  <2>4. ASSUME NEW v \in {"failed", "cancelled"},
               row[j].status = "running", v = "cancelled" => row[j].cancel = "requested",
               row' = [row EXCEPT ![j] = FailedRow(row[j], v)]
        PROVE  /\ row' \in [Jobs -> JobRows]
               /\ \A k \in Jobs \ {j} : row'[k] = row[k]
               /\ Move(row[j], row'[j], NoMessage) /\ row'[j].status \in Terminal
               /\ row'[j].status # "succeeded"
    BY <1>3, <2>1, <2>4, RowTypes, WorkerMoves DEF Terminal
  <2> QED BY <1>5, <2>2, <2>3, <2>4
<1>8. /\ JobsKept /\ RowsForward
      /\ \A k \in Jobs : RowInv(k)'
      /\ \A n \in Messages : MessageInv(n)'
      /\ \A u \in Threads : ThreadInv(u)'
      /\ \A z \in WorkerSlots \ {s} : SlotInv(z)'
      /\ SingleExecution' /\ OrphanHasCause'
  <2>1. \/ Executing(s)' \/ row'[j].status # "running" \/ row'[j].cancel = "requested" \/ faults'.error > 0
    BY <1>2, <1>6, <1>7 DEF Terminal
  <2> QED BY <1>1, <1>2, <1>3, <1>4, <1>7, <2>1, WorkerStep
<1>9. SlotInv(s)'
  <2>1. JobOf(s)' = j /\ slot[s].msg \in Messages /\ j \in Jobs
    BY <1>1, <1>3, <1>4 DEF JobOf
  <2>2. Forward(row[j], row'[j])
    BY <1>3, <1>8 DEF RowsForward
  <2>3. slot[s].outcome = "cancelled" => row[j].cancel = "requested"
    BY <1>1 DEF IInv, SlotInv
  <2> QED BY <1>3, <1>4, <2>1, <2>2, <2>3 DEF SlotInv, Executing, ExecutingPc, Forward
<1>10. TypeOK'
  BY <1>1, <1>2, <1>3, <1>4, <1>7 DEF IInv, TypeOK, QueueTypeOK
<1> QED BY <1>8, <1>9, <1>10 DEF IInv

\* claimAgentJob: a claim starts the only execution of its job.
LEMMA ClaimInv ==
  ASSUME IInv, NEW s \in WorkerSlots, Claim(s)
  PROVE  IInv'
<1> DEFINE j == JobOf(s)
           r == ClaimedRow(row[j], s[1], slot[s].msg)
<1>1. /\ UNCHANGED <<queue, thread, life, published, faults>>
      /\ slot[s].pc = "claim"
      /\ ~ Executing(s)
  BY DEF Claim, Executing, ExecutingPc
<1>2. FaultsGrow /\ faults' \in FaultRecords
  BY <1>1, FaultSteps DEF IInv, TypeOK
<1>3. /\ j \in Jobs /\ row[j] \in JobRows /\ RowInv(j) /\ RowOK(row[j])
      /\ slot[s] \in SlotRecords /\ slot[s].msg \in Messages /\ s[1] \in Workers
      /\ queue[slot[s].msg].job = j
  BY <1>1, SlotFacts
<1>4. CASE CanClaim(row[j])
  <2>1. /\ Move(row[j], r, slot[s].msg)
        /\ r.status = "running" /\ r.claimer = s[1]
        /\ r \in JobRows /\ ClaimSucceeds(row[j]) /\ row[j].status \notin Started
    <3>1. Move(row[j], r, slot[s].msg) /\ row[j].cancel = "none" /\ r.status = "running" /\ r.claimer = s[1]
      BY <1>3, <1>4, WorkerMoves
    <3>2. r \in JobRows
      BY <1>3, RowTypes
    <3> QED BY <1>4, <3>1, <3>2 DEF CanClaim, ClaimSucceeds, Started, Claimable, Terminal
  <2>2. /\ row' = [row EXCEPT ![j] = r] /\ row' \in [Jobs -> JobRows]
        /\ row'[j] = r /\ \A k \in Jobs \ {j} : row'[k] = row[k]
    BY <1>3, <1>4, <2>1 DEF Claim, ClaimRow, UpdateRow, IInv, TypeOK
  <2>3. /\ slot' \in [WorkerSlots -> SlotRecords]
        /\ \A z \in WorkerSlots \ {s} : slot'[z] = slot[z]
        /\ slot'[s].pc = "prepare" /\ slot'[s].msg = slot[s].msg
        /\ slot'[s].outcome = slot[s].outcome
    BY <2>1 DEF Claim, GotoSlot, IInv, TypeOK, SlotRecords, SlotPc, ExecutingPc
  <2>4. Executing(s)' /\ JobOf(s)' = j
    BY <1>1, <2>3 DEF Executing, ExecutingPc, JobOf
  <2>5. SlotInv(s)'
    BY <1>1, <1>3, <2>1, <2>2, <2>3, <2>4 DEF SlotInv, Started, IInv
  <2>6. /\ \A k \in Jobs : RowInv(k)'
        /\ \A n \in Messages : MessageInv(n)'
        /\ \A u \in Threads : ThreadInv(u)'
        /\ \A z \in WorkerSlots \ {s} : SlotInv(z)'
        /\ SingleExecution' /\ OrphanHasCause'
    BY <1>1, <1>2, <1>3, <2>1, <2>2, <2>3, <2>4, WorkerStep
  <2>7. TypeOK'
    BY <1>1, <1>2, <2>2, <2>3 DEF IInv, TypeOK, QueueTypeOK
  <2> QED BY <2>5, <2>6, <2>7 DEF IInv
<1>5. CASE ~ CanClaim(row[j])
  <2>1. row' = row
    BY <1>3, <1>5 DEF Claim, ClaimRow, UpdateRow, IInv, TypeOK
  <2>2. /\ slot' \in [WorkerSlots -> SlotRecords]
        /\ \A z \in WorkerSlots \ {s} : slot'[z] = slot[z]
        /\ slot'[s].pc = "dropped" /\ slot'[s].msg = slot[s].msg
    BY <1>5 DEF Claim, ClaimSucceeds, GotoSlot, IInv, TypeOK, SlotRecords, SlotPc, ExecutingPc
  <2>3. ~ Executing(s)' /\ JobOf(s)' = j
    BY <1>1, <2>2 DEF Executing, ExecutingPc, JobOf
  <2>4. row[j].status \in Started
    <3>1. row[j].status # "absent"
      BY <1>3, ProcessAssumption DEF IInv, MessageInv
    <3> QED BY <1>3, <1>5, <3>1 DEF CanClaim, JobRows, Rows, Status, Started
  <2>5. SlotInv(s)'
    BY <1>1, <1>3, <2>1, <2>2, <2>3, <2>4 DEF SlotInv
  <2>6. /\ \A k \in Jobs : RowInv(k)'
        /\ \A n \in Messages : MessageInv(n)'
        /\ \A u \in Threads : ThreadInv(u)'
        /\ \A z \in WorkerSlots \ {s} : SlotInv(z)'
        /\ SingleExecution' /\ OrphanHasCause'
    BY <1>1, <1>2, <1>3, <2>1, <2>2, <2>3, WorkerStep DEF RowInv
  <2>7. TypeOK'
    BY <1>1, <1>2, <2>1, <2>2 DEF IInv, TypeOK, QueueTypeOK
  <2> QED BY <2>5, <2>6, <2>7 DEF IInv
<1> QED BY <1>4, <1>5

\* The queue hands a message to an idle slot.
LEMMA FetchInv ==
  ASSUME IInv, NEW s \in WorkerSlots, NEW m \in Messages, Fetch(s, m)
  PROVE  IInv'
<1>1. /\ UNCHANGED <<row, thread, life, published, faults>>
      /\ slot[s].pc = "idle" /\ queue[m].state = "created"
      /\ queue' = [queue EXCEPT ![m] = Message(@.job, "active", @.tries + 1, s)]
      /\ slot' = [slot EXCEPT ![s] = Slot("claim", m, "none")]
  BY DEF Fetch, FetchMessage
<1>2. /\ FaultsGrow /\ faults' \in FaultRecords
      /\ queue[m].job \in Jobs /\ row[queue[m].job].status # "absent"
      /\ queue[m].tries \in 0 .. RetryLimit
  BY <1>1, FaultSteps, RetryLimitAssumption DEF IInv, TypeOK, QueueTypeOK, MessageInv
<1>3. /\ QueueTypeOK(Jobs, WorkerSlots)'
      /\ \A n \in Messages : queue'[n].job = queue[n].job
      /\ \A n \in Messages \ {m} : queue'[n] = queue[n]
      /\ queue'[m].state = "active"
  BY <1>1, <1>2, RetryLimitAssumption DEF IInv, TypeOK, QueueTypeOK, Message, MessageState
<1>4. /\ slot' \in [WorkerSlots -> SlotRecords]
      /\ \A z \in WorkerSlots \ {s} : slot'[z] = slot[z]
      /\ slot'[s].pc = "claim" /\ slot'[s].msg = m /\ slot'[s].outcome = "none"
  BY <1>1 DEF IInv, TypeOK, SlotRecords, SlotPc, Outcome, Slot
<1>5. JobsKept /\ RowsForward
  <2>1. JobsKept
    BY <1>3 DEF JobsKept
  <2> QED BY <1>1, <2>1, RowsKept
<1>6. \A n \in Messages : MessageInv(n)'
  BY <1>1, <1>2, <1>3 DEF IInv, MessageInv
<1>7. \A u \in Threads : ThreadInv(u)'
  BY <1>1, <1>5, ThreadsKept
<1>8. ASSUME NEW z \in WorkerSlots PROVE SlotInv(z)'
  <2>1. CASE z = s
    BY <1>2, <1>3, <1>4, <2>1 DEF SlotInv, JobOf, Executing, ExecutingPc
  <2>2. CASE z # s
    BY <1>1, <1>4, <1>5, <2>2, SlotsKept
  <2> QED BY <2>1, <2>2
<1>9. \A z \in WorkerSlots :
        Executing(z)' = Executing(z) /\ (Executing(z) => JobOf(z)' = JobOf(z))
  <2>1. ~ Executing(s) /\ ~ Executing(s)'
    BY <1>1, <1>4 DEF Executing, ExecutingPc
  <2>2. ASSUME NEW z \in WorkerSlots \ {s}, Executing(z)
        PROVE  slot[z].msg \in Messages
    BY <2>2, SlotFacts DEF Executing, ExecutingPc
  <2> QED BY <1>3, <1>4, <2>1, <2>2 DEF Executing, JobOf
<1>10. SingleExecution' /\ OrphanHasCause'
  BY <1>1, <1>9 DEF IInv, SingleExecution, OrphanHasCause, Orphaned
<1>11. TypeOK'
  BY <1>1, <1>2, <1>3, <1>4 DEF IInv, TypeOK
<1> QED BY <1>1, <1>5, <1>6, <1>7, <1>8, <1>10, <1>11, RowsKept DEF IInv

\* The handler returns or throws, and the queue completes the message or takes it
\* back.
LEMMA HandlerEndsInv ==
  ASSUME IInv, NEW s \in WorkerSlots, HandlerThrows(s) \/ Settle(s)
  PROVE  IInv'
<1> DEFINE j == JobOf(s)
           m == slot[s].msg
<1>1. /\ UNCHANGED <<thread, life, published>>
      /\ slot[s].pc # "idle"
      /\ UNCHANGED faults \/ Throws
      /\ Settle(s) => ~ Executing(s) /\ row' = row
      /\ HandlerThrows(s) => Throws
      /\ slot' = [slot EXCEPT ![s] = IdleSlot]
  BY DEF HandlerThrows, Settle, Executing, ExecutingPc
<1>2. FaultsGrow /\ faults' \in FaultRecords /\ (Throws => faults'.error > 0)
  BY <1>1, FaultSteps DEF IInv, TypeOK
<1>3. /\ j \in Jobs /\ row[j] \in JobRows /\ RowInv(j) /\ RowOK(row[j])
      /\ m \in Messages /\ queue[m].job = j
  BY <1>1, SlotFacts
<1>4. \/ queue' = queue
      \/ /\ queue[m].state = "active" /\ queue' = [queue EXCEPT ![m] = Returned(@)]
      \/ /\ row[j].status \in Started
         /\ queue[m].state = "active" /\ queue' = [queue EXCEPT ![m].state = "completed"]
  <2>1. CASE HandlerThrows(s)
    BY <1>3, <2>1 DEF HandlerThrows, FailMessage, IsHeldBy, IInv, TypeOK, QueueTypeOK
  <2>2. CASE Settle(s)
    <3>1. row[j].status \in Started
      BY <2>2 DEF Settle, IInv, SlotInv
    <3>2. CASE IsHeldBy(m, s)
      BY <2>2, <3>1, <3>2 DEF Settle, CompleteMessage, IsHeldBy
    <3>3. CASE ~ IsHeldBy(m, s)
      BY <2>2, <3>3 DEF Settle, CompleteMessage, IInv, TypeOK, QueueTypeOK
    <3> QED BY <3>2, <3>3
  <2> QED BY <2>1, <2>2
<1>5. /\ QueueTypeOK(Jobs, WorkerSlots)'
      /\ \A n \in Messages : queue'[n].job = queue[n].job
  <2>1. CASE queue' = queue
    BY <2>1 DEF IInv, TypeOK, QueueTypeOK
  <2>2. CASE queue' = [queue EXCEPT ![m] = Returned(@)]
    BY <1>3, <2>2, RetryLimitAssumption DEF IInv, TypeOK, QueueTypeOK, Returned, Message, MessageState
  <2>3. CASE queue' = [queue EXCEPT ![m].state = "completed"]
    BY <2>3 DEF IInv, TypeOK, QueueTypeOK, MessageState
  <2> QED BY <1>4, <2>1, <2>2, <2>3
<1>6. /\ slot' \in [WorkerSlots -> SlotRecords]
      /\ \A z \in WorkerSlots \ {s} : slot'[z] = slot[z]
      /\ slot'[s].pc = "idle" /\ ~ Executing(s)'
  BY <1>1 DEF IInv, TypeOK, SlotRecords, SlotPc, Outcome, IdleSlot, Slot, Executing, ExecutingPc
<1>7. /\ row' \in [Jobs -> JobRows]
      /\ \A k \in Jobs \ {j} : row'[k] = row[k]
      /\ \/ row' = row
         \/ Move(row[j], row'[j], NoMessage) /\ row'[j].status = "failed" /\ Executing(s)
         \/ /\ Move(row[j], row'[j], m) /\ row'[j].status = "running"
            /\ row[j].status \notin Started /\ Throws
  <2>1. row \in [Jobs -> JobRows] /\ s[1] \in Workers
    BY <1>1, SlotFacts DEF IInv, TypeOK
  <2>2. CASE row' = row
    BY <2>1, <2>2
  <2>3. CASE slot[s].pc \in {"prepare", "recover"} /\ row' # row
    <3>1. /\ CanFail(row[j])
          /\ row' = [row EXCEPT ![j] = FailedRow(row[j], "failed")]
      BY <1>1, <1>3, <2>1, <2>3 DEF HandlerThrows, UpdateRow, FailClaim, CanFail, CanFailClaim
    <3>2. Executing(s) /\ row[j].status = "running"
      BY <1>1, <2>3, <3>1, SlotFacts DEF Executing, ExecutingPc, CanFail
    <3> QED BY <1>3, <2>1, <3>1, <3>2, RowTypes, WorkerMoves
  <2>4. CASE slot[s].pc = "claim" /\ row' # row
    <3> DEFINE r == ClaimedRow(row[j], s[1], m)
    <3>1. CanClaim(row[j]) /\ row' = [row EXCEPT ![j] = r] /\ Throws
      BY <1>1, <1>3, <2>1, <2>4 DEF HandlerThrows, ClaimRow, UpdateRow
    <3>2. Move(row[j], r, m) /\ r.status = "running" /\ r \in JobRows
      BY <1>3, <2>1, <3>1, RowTypes, WorkerMoves
    <3>3. row[j].status \notin Started
      BY <3>1 DEF CanClaim, Claimable, Started, Terminal
    <3> QED BY <1>3, <2>1, <3>1, <3>2, <3>3
  <2>5. row' = row \/ slot[s].pc \in {"claim", "prepare", "recover"}
    BY <1>1 DEF HandlerThrows
  <2> QED BY <2>2, <2>3, <2>4, <2>5
<1>8. JobsKept
  BY <1>5 DEF JobsKept
<1>9. RowsForward /\ \A k \in Jobs : RowInv(k)'
  <2>1. CASE row' = row
    BY <1>1, <1>8, <2>1, RowsKept
  <2>2. CASE Move(row[j], row'[j], NoMessage) /\ row'[j].status = "failed"
    BY <1>1, <1>3, <1>7, <1>8, <2>2, RowChange
  <2>3. CASE Move(row[j], row'[j], m) /\ row'[j].status = "running"
    BY <1>1, <1>3, <1>7, <1>8, <2>3, RowChange
  <2> QED BY <1>7, <2>1, <2>2, <2>3
<1>10. ASSUME NEW n \in Messages PROVE MessageInv(n)'
  <2>1. queue[n].job \in Jobs \union {NoJob} /\ NoJob \notin Jobs /\ queue[n] \in [job : Jobs \union {NoJob}, state : MessageState, tries : 0 .. RetryLimit + 1, holder : WorkerSlots \union {NoSlot}]
    BY ProcessAssumption DEF IInv, TypeOK, QueueTypeOK
  <2>2. /\ MessageInv(n)
        /\ queue[n].job \in Jobs => Forward(row[queue[n].job], row'[queue[n].job])
    BY <1>9 DEF IInv, RowsForward
  <2> USE DEF MessageInv, Forward, Started, Terminal
  <2>3. CASE queue' = queue
    BY <2>1, <2>2, <2>3
  <2>4. CASE queue[m].state = "active" /\ queue' = [queue EXCEPT ![m] = Returned(@)]
    BY <1>3, <2>1, <2>2, <2>4, RetryLimitAssumption DEF Returned, Message, IInv, TypeOK, QueueTypeOK
  <2>5. CASE /\ row[j].status \in Started
             /\ queue[m].state = "active" /\ queue' = [queue EXCEPT ![m].state = "completed"]
    BY <1>3, <2>1, <2>2, <2>5 DEF IInv, TypeOK, QueueTypeOK
  <2> QED BY <1>4, <2>3, <2>4, <2>5
<1>11. \A u \in Threads : ThreadInv(u)'
  BY <1>1, <1>8, <1>9, ThreadsKept
<1>12. SlotInv(s)'
  BY <1>6 DEF SlotInv
<1>13. /\ \A z \in WorkerSlots \ {s} : SlotInv(z)'
       /\ SingleExecution' /\ OrphanHasCause'
  BY <1>1, <1>2, <1>6, <1>7, <1>8, <1>9, OneSlotMoves
<1>14. TypeOK'
  BY <1>1, <1>2, <1>5, <1>6, <1>7 DEF IInv, TypeOK
<1> QED BY <1>9, <1>10, <1>11, <1>12, <1>13, <1>14 DEF IInv

\* A worker process crashes and restarts.
LEMMA CrashWorkerInv ==
  ASSUME IInv, NEW w \in Workers, CrashWorker(w)
  PROVE  IInv'
<1> USE DEF CrashWorker
<1>1. FaultsGrow /\ faults' \in FaultRecords /\ faults'.crash > 0
  BY FaultSteps DEF IInv, TypeOK
<1>2. JobsKept
  BY DEF JobsKept
<1>3. RowsForward /\ \A k \in Jobs : RowInv(k)'
  BY <1>2, RowsKept
<1>4. slot' \in [WorkerSlots -> SlotRecords]
  BY DEF IInv, TypeOK, SlotRecords, SlotPc, Outcome, IdleSlot, Slot
<1>5. ASSUME NEW z \in WorkerSlots
      PROVE  SlotInv(z)' /\ (Executing(z)' => slot'[z] = slot[z])
  <2>1. CASE z[1] = w
    <3>1. slot'[z].pc = "idle" /\ ~ Executing(z)'
      BY <2>1 DEF IdleSlot, Slot, Executing, ExecutingPc
    <3> QED BY <3>1 DEF SlotInv
  <2>2. CASE z[1] # w
    <3>1. slot'[z] = slot[z]
      BY <2>2
    <3> QED BY <1>2, <1>3, <3>1, SlotsKept
  <2> QED BY <2>1, <2>2
<1>6. SingleExecution'
  BY <1>5 DEF IInv, SingleExecution, Executing, JobOf
<1>7. OrphanHasCause'
  BY <1>1 DEF OrphanHasCause
<1>8. TypeOK'
  BY <1>1, <1>4 DEF IInv, TypeOK, QueueTypeOK
<1> QED BY <1>1, <1>2, <1>3, <1>5, <1>6, <1>7, <1>8, MessagesKept, ThreadsKept DEF IInv

\* The invariant holds of the empty table and queue.
LEMMA InitIInv == Init => IInv
<1> SUFFICES ASSUME Init PROVE IInv
  OBVIOUS
<1> USE DEF Init, QueueInit, AbsentRow, Row, Unsent, Message, IdleThread, Thread, IdleSlot, Slot
<1>1. TypeOK
  <2>1. row \in [Jobs -> JobRows]
    BY DEF JobRows, Rows, Status
  <2>2. QueueTypeOK(Jobs, WorkerSlots)
    BY RetryLimitAssumption DEF QueueTypeOK, MessageState
  <2>3. thread \in [Threads -> ThreadRecords]
    BY DEF ThreadRecords, ThreadPc
  <2>4. slot \in [WorkerSlots -> SlotRecords]
    BY DEF SlotRecords, SlotPc, Outcome
  <2>5. faults \in FaultRecords /\ life \in [Apis -> Nat] /\ published \in SUBSET Jobs
    BY BoundAssumption DEF FaultRecords
  <2> QED BY <2>1, <2>2, <2>3, <2>4, <2>5 DEF TypeOK
<1>2. \A j \in Jobs : RowInv(j)
  BY DEF RowInv, RowOK, Started, Terminal
<1>3. \A m \in Messages : MessageInv(m)
  BY DEF MessageInv
<1>4. \A t \in Threads : ThreadInv(t)
  BY DEF ThreadInv
<1>5. \A s \in WorkerSlots : SlotInv(s) /\ ~ Executing(s)
  BY DEF SlotInv, Executing, ExecutingPc
<1>6. SingleExecution
  BY <1>5 DEF SingleExecution
<1>7. OrphanHasCause
  BY DEF OrphanHasCause, Orphaned
<1> QED BY <1>1, <1>2, <1>3, <1>4, <1>5, <1>6, <1>7 DEF IInv

\* Every step keeps the invariant.
LEMMA NextIInv == IInv /\ [Next]_vars => IInv'
<1> SUFFICES ASSUME IInv, [Next]_vars PROVE IInv'
  OBVIOUS
<1>1. ASSUME NEW t \in Threads, ThreadStep(t) PROVE IInv'
  <2>1. CASE DispatchStep(t)
    BY <2>1, LeaseInlineInv, LeaseNextInv, PublishInv, RecordInv, ThreadOnlyInv,
       WriteDispatchFailureInv DEF DispatchStep
  <2>2. CASE CancelStep(t)
    BY <2>2, CancelQueuedInv, CancelRunningInv, DequeueInv DEF CancelStep, Dequeue
  <2>3. ASSUME NEW j \in Jobs, CreateJob(t, j) PROVE IInv'
    BY <2>3, StartDispatchInv DEF CreateJob
  <2>4. ASSUME NEW old \in Jobs, NEW new \in Jobs, RetryJob(t, old, new) PROVE IInv'
    BY <2>4, StartDispatchInv DEF RetryJob
  <2>5. CASE \/ PublishThrows(t) \/ Abandon(t) \/ RecordThrows(t)
             \/ \E j \in Jobs : RequestCancel(t, j)
             \/ \E m \in Messages : PublishAnswerLost(t, m)
    BY <2>5, ThreadOnlyInv, RecordThrowsInv, PublishInv
  <2>6. CASE AbandonAnswerLost(t)
    BY <2>6, AbandonAnswerLostInv
  <2> QED BY <1>1, <2>1, <2>2, <2>3, <2>4, <2>5, <2>6 DEF ThreadStep
<1>2. ASSUME NEW s \in WorkerSlots, SlotStep(s) PROVE IInv'
  BY <1>2, FetchInv, ClaimInv, ExecutionStepInv, JobEndsInv, HandlerEndsInv DEF SlotStep, ExecutionStep
<1>3. ASSUME NEW j \in Jobs, ExpireLease(j) \/ ElapseBackoff(j) PROVE IInv'
  BY <1>3, ClockInv
<1>4. ASSUME NEW m \in Messages, ExpireDelivery(m) PROVE IInv'
  BY <1>4, ExpireDeliveryInv
<1>5. ASSUME NEW a \in Apis, CrashApi(a) PROVE IInv'
  BY <1>5, CrashApiInv
<1>6. ASSUME NEW w \in Workers, CrashWorker(w) PROVE IInv'
  BY <1>6, CrashWorkerInv
<1>7. CASE UNCHANGED vars
  BY <1>7 DEF vars, IInv, TypeOK, QueueTypeOK, RowInv, MessageInv, ThreadInv, SlotInv,
     SingleExecution, OrphanHasCause, Orphaned, Executing, JobOf
<1> QED BY <1>1, <1>2, <1>3, <1>4, <1>5, <1>6, <1>7 DEF Next

-----------------------------------------------------------------------------
(* The theorems *)

\* The inductive invariant holds of every instance: any number of jobs, API
\* processes, workers, slots, messages and faults.
THEOREM Invariance == Spec => []IInv
BY InitIInv, NextIInv, PTL DEF Spec

\* Type correctness.
THEOREM TypeCorrect == Spec => []TypeOK
<1>1. IInv => TypeOK
  BY DEF IInv
<1> QED BY <1>1, Invariance, PTL

\* At most one slot executes a job, however often its message is published or
\* delivered (claimAgentJob).
THEOREM OneExecutor == Spec => []SingleExecution
<1>1. IInv => SingleExecution
  BY DEF IInv
<1> QED BY <1>1, Invariance, PTL

\* A job being executed is running under its executor's worker id until the
\* executor ends it.
THEOREM ExecutorOwnsJob == Spec => []ExecutionOwnsJob
<1>1. IInv => ExecutionOwnsJob
  BY DEF IInv, SlotInv, ExecutionOwnsJob, Executing, ExecutingPc, Started
<1> QED BY <1>1, Invariance, PTL

\* A job whose cancellation was accepted does not succeed, and only such a job is
\* cancelled (requestJobCancellationForUser against the finalizers).
THEOREM CancelledNeverSucceeds == Spec => []CancelExcludesSuccess
<1>1. IInv => CancelExcludesSuccess
  BY DEF IInv, RowInv, RowOK, CancelExcludesSuccess
<1> QED BY <1>1, Invariance, PTL

\* A job out of dispatch holds no lease and waits for no backoff.
THEOREM LeasesEndWithDispatch == Spec => []LeaseOnlyWhilePending
<1>1. IInv => LeaseOnlyWhilePending
  BY DEF IInv, RowInv, RowOK, LeaseOnlyWhilePending
<1> QED BY <1>1, Invariance, PTL

\* A job that waits for dispatch has attempts left: the compare-and-set of
\* markAnalysisJobDispatchFailure counts the attempt it read.
THEOREM WaitingJobsHaveAttempts == Spec => []WaitingJobHasAttemptsLeft
<1>1. IInv => WaitingJobHasAttemptsLeft
  BY DEF IInv, RowInv, RowOK, WaitingJobHasAttemptsLeft
<1> QED BY <1>1, Invariance, PTL

\* cancelAgentJob never removes the message of a job that still wants to run.
THEOREM DequeuedOnlyIfCancelled == Spec => []OnlyCancelledJobsAreDequeued
<1>1. IInv => OnlyCancelledJobsAreDequeued
  BY DEF IInv, MessageInv, OnlyCancelledJobsAreDequeued
<1> QED BY <1>1, Invariance, PTL

\* A job succeeds only after its learnables or changeset were written.
THEOREM SuccessHasResults == Spec => []SucceededJobHasResults
<1>1. IInv => SucceededJobHasResults
  BY DEF IInv, RowInv, SucceededJobHasResults
<1> QED BY <1>1, Invariance, PTL

\* A queued job has a message that will still be delivered, or one the queue gave
\* up after all its deliveries: the message recorded by setAnalysisJobQueueMessage
\* cannot have been completed, because only a claim completes it, nor dequeued.
THEOREM QueuedJobsAreDelivered == Spec => []QueuedJobIsDeliverable
<1>1. IInv => QueuedJobIsDeliverable
  <2> SUFFICES ASSUME IInv, NEW j \in Jobs, row[j].status = "queued"
               PROVE  \E m \in Messages :
                        /\ queue[m].job = j
                        /\ Deliverable(m) \/ (queue[m].state = "failed" /\ queue[m].tries > RetryLimit)
    BY DEF QueuedJobIsDeliverable
  <2> DEFINE m == row[j].msg
  <2>1. m \in Messages /\ queue[m].job = j /\ queue[m].state \in MessageState
    BY DEF IInv, TypeOK, JobRows, Rows, QueueTypeOK, RowInv, RowOK
  <2>2. queue[m].state \notin {"unsent", "completed", "cancelled"}
    BY <2>1, ProcessAssumption DEF IInv, MessageInv, Started, Terminal
  <2> QED BY <2>1, <2>2 DEF IInv, MessageInv, MessageState, Deliverable
<1> QED BY <1>1, Invariance, PTL

\* A running job without executor was asked to cancel, or something failed.
THEOREM OrphansHaveCause == Spec => []OrphanHasCause
<1>1. IInv => OrphanHasCause
  BY DEF IInv
<1> QED BY <1>1, Invariance, PTL

-----------------------------------------------------------------------------
(* One update of one row, seen as JobStatus sees it *)

\* What JobStatus allows a job whose row r becomes q.
Promised(r, q) ==
  \/ /\ q.cancel = r.cancel /\ q.claimer = r.claimer
     /\ \/ q.status = r.status
        \/ <<r.status, q.status>> \in {<<"absent", "pending">>, <<"pending", "queued">>,
                                       <<"pending", "failed">>, <<"running", "failed">>}
        \/ r.status = "running" /\ q.status = "succeeded" /\ r.cancel = "none"
        \/ r.status = "running" /\ q.status = "cancelled" /\ r.cancel = "requested"
  \/ /\ q.cancel = "requested" /\ q.claimer = r.claimer
     /\ \/ r.status = "running" /\ q.status = "running"
        \/ r.status \in Claimable /\ q.status = "cancelled"
  \/ /\ r.status \in Claimable /\ q.status = "running"
     /\ r.cancel = "none" /\ q.cancel = "none"
     /\ r.claimer = NoWorker /\ q.claimer \in Workers

\* The updates of API processes, under their "where" clauses, are Promised.
LEMMA ApiUpdates ==
  ASSUME NEW r \in JobRows, RowOK(r)
  PROVE  /\ r.status = "absent" => Promised(r, CreatedRow)
         /\ \A d \in Dispatchers : CanLease(r, d) \/ IsDispatchCandidate(r)
              => Promised(r, LeasedRow(r, d))
         /\ \A m \in Messages, d \in Dispatchers : CanSetQueueMessage(r, d)
              => Promised(r, QueuedRow(r, m))
         /\ \A n \in Nat, o \in Dispatchers \union {NoOwner} : CanMarkFailure(r, n, o)
              => Promised(r, DispatchFailedRow(r, n))
         /\ r.status \in Claimable => Promised(r, CancelledRow(r))
         /\ CanFlagCancellation(r) => Promised(r, FlaggedRow(r))
<1> USE DEF Promised, RowOK, Started, Claimable, Terminal, Row
<1>1. r.status = "absent" => Promised(r, CreatedRow)
  BY DEF CreatedRow
<1>2. \A d \in Dispatchers : CanLease(r, d) \/ IsDispatchCandidate(r)
        => Promised(r, LeasedRow(r, d))
  BY DEF LeasedRow
<1>3. \A m \in Messages, d \in Dispatchers : CanSetQueueMessage(r, d)
        => Promised(r, QueuedRow(r, m))
  BY DEF CanSetQueueMessage, QueuedRow
<1>4. \A n \in Nat, o \in Dispatchers \union {NoOwner} : CanMarkFailure(r, n, o)
        => Promised(r, DispatchFailedRow(r, n))
  BY DEF CanMarkFailure, DispatchFailedRow
<1>5. r.status \in Claimable => Promised(r, CancelledRow(r))
  BY DEF CancelledRow
<1>6. CanFlagCancellation(r) => Promised(r, FlaggedRow(r))
  BY DEF CanFlagCancellation, FlaggedRow, JobRows, Rows
<1> QED BY <1>1, <1>2, <1>3, <1>4, <1>5, <1>6

\* The updates of workers, under their "where" clauses, are Promised: a claim by
\* the invariant finds no earlier claimer, and a finalizer that does not find its
\* job running finds it ended and writes nothing.
LEMMA WorkerUpdates ==
  ASSUME NEW r \in JobRows, RowOK(r)
  PROVE  /\ \A w \in Workers, m \in Messages : CanClaim(r) => Promised(r, ClaimedRow(r, w, m))
         /\ CanSucceed(r) => Promised(r, SucceededRow(r))
         /\ \A v \in {"failed", "cancelled"} :
              r.status = "running" /\ (v = "cancelled" => r.cancel = "requested")
              => Promised(r, FailedRow(r, v))
<1> USE DEF Promised, RowOK, Started, Claimable, Terminal, Row, JobRows, Rows
<1>1. \A w \in Workers, m \in Messages : CanClaim(r) => Promised(r, ClaimedRow(r, w, m))
  BY DEF CanClaim, ClaimedRow
<1>2. CanSucceed(r) => Promised(r, SucceededRow(r))
  BY DEF CanSucceed, SucceededRow
<1>3. \A v \in {"failed", "cancelled"} :
        r.status = "running" /\ (v = "cancelled" => r.cancel = "requested")
        => Promised(r, FailedRow(r, v))
  BY DEF FailedRow
<1> QED BY <1>1, <1>2, <1>3

-----------------------------------------------------------------------------
(* Every step makes at most one such update *)

\* The table is left alone, or one row is updated as promised.
RowStep ==
  \/ UNCHANGED row
  \/ \E j \in Jobs : \E q \in JobRows : row' = [row EXCEPT ![j] = q] /\ Promised(row[j], q)

\* updateMany under its "where" clause.
LEMMA UpdateIsRowStep ==
  ASSUME row \in [Jobs -> JobRows], NEW j \in Jobs, NEW where, NEW data,
         UpdateRow(j, where, data), where => data \in JobRows /\ Promised(row[j], data)
  PROVE  RowStep
<1>1. CASE where
  BY <1>1 DEF UpdateRow, RowStep
<1>2. CASE ~ where
  <2>1. row' = row
    BY <1>2 DEF UpdateRow
  <2> QED BY <2>1 DEF RowStep
<1> QED BY <1>1, <1>2

\* What the invariant says of the row a thread works on.
LEMMA ThreadFacts ==
  ASSUME IInv, NEW t \in Threads, thread[t].pc # "idle"
  PROVE  /\ thread[t].job \in Jobs /\ row[thread[t].job] \in JobRows
         /\ RowOK(row[thread[t].job])
         /\ thread[t].attempts \in Nat /\ thread[t].owner \in Dispatchers \union {NoOwner}
BY DEF IInv, TypeOK, ThreadRecords, ThreadInv, RowInv

\* The transactions of a thread, whether or not their answer arrives.
LEMMA ThreadTransactions ==
  ASSUME IInv, NEW t \in Threads
  PROVE  /\ thread[t].pc = "lease" /\ LeaseForDispatch(t) => RowStep
         /\ \A j \in Jobs : LeaseCandidate(t, j) => RowStep
         /\ thread[t].pc = "record" /\ RecordMessage(t) => RowStep
         /\ thread[t].pc = "failWrite" /\ MarkFailure(t) => RowStep
         /\ thread[t].pc = "cancelQueued" /\ CancelBeforeClaim(t) => RowStep
         /\ thread[t].pc = "cancelRunning" /\ FlagRunning(t) => RowStep
<1> DEFINE j == thread[t].job
           r == row[j]
<1>1. row \in [Jobs -> JobRows] /\ DispatcherId(t) \in Dispatchers
  BY DispatcherIdType DEF IInv, TypeOK
<1>2. ASSUME thread[t].pc = "lease", LeaseForDispatch(t) PROVE RowStep
  <2>1. CanLease(r, DispatcherId(t)) => LeasedRow(r, DispatcherId(t)) \in JobRows /\ Promised(r, LeasedRow(r, DispatcherId(t)))
    BY <1>1, <1>2, ThreadFacts, ApiUpdates, RowTypes
  <2> QED BY <1>1, <1>2, <2>1, ThreadFacts, UpdateIsRowStep DEF LeaseForDispatch, CanLease
<1>3. ASSUME NEW k \in Jobs, LeaseCandidate(t, k) PROVE RowStep
  <2>1. RowOK(row[k]) /\ row[k] \in JobRows
    BY DEF IInv, TypeOK, RowInv
  <2>2. LeasedRow(row[k], DispatcherId(t)) \in JobRows /\ Promised(row[k], LeasedRow(row[k], DispatcherId(t)))
    BY <1>1, <1>3, <2>1, ApiUpdates, RowTypes DEF LeaseCandidate
  <2> QED BY <1>3, <2>2 DEF LeaseCandidate, RowStep
<1>4. ASSUME thread[t].pc = "record", RecordMessage(t) PROVE RowStep
  <2>1. thread[t].msg \in Messages
    BY <1>4 DEF IInv, TypeOK, ThreadRecords, ThreadInv
  <2>2. CanSetQueueMessage(r, DispatcherId(t)) => QueuedRow(r, thread[t].msg) \in JobRows /\ Promised(r, QueuedRow(r, thread[t].msg))
    BY <1>1, <1>4, <2>1, ThreadFacts, ApiUpdates, RowTypes
  <2> QED BY <1>1, <1>4, <2>2, ThreadFacts, UpdateIsRowStep DEF RecordMessage, CanSetQueueMessage
<1>5. ASSUME thread[t].pc = "failWrite", MarkFailure(t) PROVE RowStep
  <2> DEFINE n == thread[t].attempts
             o == thread[t].owner
  <2>1. CanMarkFailure(r, n, o) => DispatchFailedRow(r, n) \in JobRows /\ Promised(r, DispatchFailedRow(r, n))
    BY <1>5, ThreadFacts, ApiUpdates, RowTypes
  <2> QED BY <1>1, <1>5, <2>1, ThreadFacts, UpdateIsRowStep DEF MarkFailure, CanMarkFailure
<1>6. ASSUME thread[t].pc = "cancelQueued", CancelBeforeClaim(t) PROVE RowStep
  <2>1. r.status \in Claimable => CancelledRow(r) \in JobRows /\ Promised(r, CancelledRow(r))
    BY <1>6, ThreadFacts, ApiUpdates, RowTypes
  <2> QED BY <1>1, <1>6, <2>1, ThreadFacts, UpdateIsRowStep DEF CancelBeforeClaim
<1>7. ASSUME thread[t].pc = "cancelRunning", FlagRunning(t) PROVE RowStep
  <2>1. CanFlagCancellation(r) => FlaggedRow(r) \in JobRows /\ Promised(r, FlaggedRow(r))
    BY <1>7, ThreadFacts, ApiUpdates, RowTypes
  <2> QED BY <1>1, <1>7, <2>1, ThreadFacts, UpdateIsRowStep DEF FlagRunning, CanFlagCancellation
<1> QED BY <1>2, <1>3, <1>4, <1>5, <1>6, <1>7

\* Steps of threads.
LEMMA ThreadRows ==
  ASSUME IInv, NEW t \in Threads, ThreadStep(t)
  PROVE  RowStep
<1>1. ASSUME NEW j \in Jobs, StartDispatch(t, j), row[j].status = "absent" PROVE RowStep
  <2>1. CreatedRow \in JobRows /\ Promised(row[j], CreatedRow)
    BY <1>1, RowTypes, ApiUpdates DEF IInv, TypeOK, RowInv
  <2> QED BY <1>1, <2>1 DEF StartDispatch, RowStep
<1>2. CASE \E j \in Jobs : CreateJob(t, j)
  BY <1>1, <1>2 DEF CreateJob
<1>3. CASE \E old, new \in Jobs : RetryJob(t, old, new)
  BY <1>1, <1>3 DEF RetryJob
<1>4. CASE LeaseInline(t) \/ \E j \in Jobs : LeaseNext(t, j)
  BY <1>4, ThreadTransactions DEF LeaseInline, LeaseNext
<1>5. CASE Record(t) \/ WriteDispatchFailure(t)
  BY <1>5, ThreadTransactions DEF Record, WriteDispatchFailure
<1>6. CASE RecordThrows(t)
  <2>1. CASE RecordMessage(t)
    BY <1>6, <2>1, ThreadTransactions DEF RecordThrows
  <2>2. CASE UNCHANGED row
    BY <2>2 DEF RowStep
  <2> QED BY <1>6, <2>1, <2>2 DEF RecordThrows
<1>7. CASE CancelQueued(t) \/ CancelRunning(t)
  BY <1>7, ThreadTransactions DEF CancelQueued, CancelRunning
<1>8. CASE AbandonAnswerLost(t)
  <2>1. CASE UNCHANGED row
    BY <2>1 DEF RowStep
  <2> QED BY <1>8, <2>1, ThreadTransactions DEF AbandonAnswerLost
<1>9. CASE \/ \E m \in Messages : Publish(t, m) \/ PublishAnswerLost(t, m)
           \/ ReadDispatchFailure(t) \/ Dequeue(t) \/ PublishThrows(t) \/ Abandon(t)
           \/ \E j \in Jobs : RequestCancel(t, j)
  BY <1>9 DEF RowStep, Publish, PublishAnswerLost, ReadDispatchFailure, Dequeue, PublishThrows,
     Abandon, RequestCancel
<1> QED BY <1>2, <1>3, <1>4, <1>5, <1>6, <1>7, <1>8, <1>9 DEF ThreadStep, DispatchStep, CancelStep

\* The transactions of a slot, whether or not their answer arrives.
LEMMA SlotTransactions ==
  ASSUME IInv, NEW s \in WorkerSlots, slot[s].pc # "idle"
  PROVE  /\ ClaimRow(s) => RowStep
         /\ FailClaim(s) => RowStep
         /\ UpdateRow(JobOf(s), CanSucceed(row[JobOf(s)]), SucceededRow(row[JobOf(s)])) => RowStep
         /\ \A v \in {"failed", "cancelled"} :
              /\ Executing(s)
              /\ v = "cancelled" => row[JobOf(s)].cancel = "requested"
              /\ UpdateRow(JobOf(s), CanFail(row[JobOf(s)]), FailedRow(row[JobOf(s)], v))
              => RowStep
<1> DEFINE j == JobOf(s)
           r == row[j]
<1>1. /\ row \in [Jobs -> JobRows] /\ j \in Jobs /\ r \in JobRows /\ RowOK(r)
      /\ s[1] \in Workers /\ slot[s].msg \in Messages
  BY SlotFacts DEF IInv, TypeOK
<1>2. ASSUME ClaimRow(s) PROVE RowStep
  <2> DEFINE q == ClaimedRow(r, s[1], slot[s].msg)
  <2>1. CanClaim(r) => q \in JobRows /\ Promised(r, q)
    BY <1>1, WorkerUpdates, RowTypes
  <2>2. UpdateRow(j, CanClaim(r), q)
    BY <1>2 DEF ClaimRow
  <2> QED BY <1>1, <2>1, <2>2, UpdateIsRowStep
<1>3. ASSUME FailClaim(s) PROVE RowStep
  <2> DEFINE q == FailedRow(r, "failed")
  <2>1. CanFailClaim(r, s[1]) => q \in JobRows /\ Promised(r, q)
    BY <1>1, WorkerUpdates, RowTypes DEF CanFailClaim
  <2>2. UpdateRow(j, CanFailClaim(r, s[1]), q)
    BY <1>3 DEF FailClaim
  <2> QED BY <1>1, <2>1, <2>2, UpdateIsRowStep
<1>4. ASSUME UpdateRow(j, CanSucceed(r), SucceededRow(r)) PROVE RowStep
  <2>1. CanSucceed(r) => SucceededRow(r) \in JobRows /\ Promised(r, SucceededRow(r))
    BY <1>1, WorkerUpdates, RowTypes
  <2> QED BY <1>1, <1>4, <2>1, UpdateIsRowStep
<1>5. ASSUME NEW v \in {"failed", "cancelled"}, Executing(s), v = "cancelled" => r.cancel = "requested",
             UpdateRow(j, CanFail(r), FailedRow(r, v))
      PROVE  RowStep
  <2>1. CanFail(r) => r.status = "running"
    BY <1>5, SlotFacts DEF CanFail
  <2>2. CanFail(r) => FailedRow(r, v) \in JobRows /\ Promised(r, FailedRow(r, v))
    BY <1>1, <1>5, <2>1, WorkerUpdates, RowTypes
  <2> QED BY <1>1, <1>5, <2>2, UpdateIsRowStep
<1> QED BY <1>2, <1>3, <1>4, <1>5

\* Steps of slots.
LEMMA SlotRows ==
  ASSUME IInv, NEW s \in WorkerSlots, SlotStep(s)
  PROVE  RowStep
<1> USE DEF Executing, ExecutingPc
<1>1. CASE Claim(s)
  BY <1>1, SlotTransactions DEF Claim
<1>2. CASE PrepareThrows(s)
  BY <1>2, SlotTransactions DEF PrepareThrows
<1>3. CASE FinalizeSuccess(s)
  BY <1>3, SlotTransactions DEF FinalizeSuccess
<1>4. slot[s].pc = "finalize" => /\ slot[s].outcome \in {"failed", "cancelled"}
                                 /\ slot[s].outcome = "cancelled" => row[JobOf(s)].cancel = "requested"
  BY DEF IInv, SlotInv
<1>5. CASE FinalizeFailure(s)
  BY <1>4, <1>5, SlotTransactions DEF FinalizeFailure
<1>6. CASE StepThrows(s)
  <2>1. CASE UNCHANGED row
    BY <2>1 DEF RowStep
  <2> QED BY <1>4, <1>6, <2>1, SlotTransactions DEF StepThrows
<1>7. CASE HandlerThrows(s)
  <2>1. CASE UNCHANGED row
    BY <2>1 DEF RowStep
  <2> QED BY <1>7, <2>1, SlotTransactions DEF HandlerThrows
<1>8. CASE \/ \E m \in Messages : Fetch(s, m)
           \/ Prepare(s) \/ Stage(s) \/ Collect(s) \/ PublishResults(s) \/ Settle(s)
           \/ \E o \in Outcome \ {"none"} : RunSandbox(s, o)
  BY <1>8 DEF RowStep, Fetch, Prepare, Stage, Collect, PublishResults, Settle, RunSandbox
<1> QED BY <1>1, <1>2, <1>3, <1>5, <1>6, <1>7, <1>8 DEF SlotStep, ExecutionStep

\* The lease and the backoff are not in JobStatus: the clock changes nothing there.
LEMMA ClockRows ==
  ASSUME IInv, NEW j \in Jobs, ExpireLease(j) \/ ElapseBackoff(j)
  PROVE  RowStep
<1>1. row \in [Jobs -> JobRows]
  BY DEF IInv, TypeOK
<1>2. CASE ExpireLease(j)
  <2> DEFINE q == [row[j] EXCEPT !.lease = "expired"]
  <2>1. row' = [row EXCEPT ![j] = q] /\ q \in JobRows /\ Promised(row[j], q)
    BY <1>1, <1>2 DEF ExpireLease, Promised, JobRows, Rows
  <2> QED BY <2>1 DEF RowStep
<1>3. CASE ElapseBackoff(j)
  <2> DEFINE q == [row[j] EXCEPT !.retry = "due"]
  <2>1. row' = [row EXCEPT ![j] = q] /\ q \in JobRows /\ Promised(row[j], q)
    BY <1>1, <1>3 DEF ElapseBackoff, Promised, JobRows, Rows
  <2> QED BY <2>1 DEF RowStep
<1> QED BY <1>2, <1>3

\* Every step of the system.
LEMMA NextRows == IInv /\ [Next]_vars => RowStep
<1> SUFFICES ASSUME IInv, [Next]_vars PROVE RowStep
  OBVIOUS
<1>1. CASE \/ UNCHANGED vars
           \/ \E m \in Messages : ExpireDelivery(m)
           \/ \E a \in Apis : CrashApi(a)
           \/ \E w \in Workers : CrashWorker(w)
  BY <1>1 DEF vars, RowStep, ExpireDelivery, CrashApi, CrashWorker
<1> QED BY <1>1, ThreadRows, SlotRows, ClockRows DEF Next

\* An update that is Promised is a step of JobStatus, or leaves what it tells as it
\* was.
LEMMA RowStepRefines == IInv /\ RowStep => [Promise!Next]_(Promise!vars)
<1> SUFFICES ASSUME IInv, RowStep PROVE [Promise!Next]_(Promise!vars)
  OBVIOUS
<1> USE DEF Promise!vars, Promise!Move
<1>1. CASE UNCHANGED row
  BY <1>1
<1>2. ASSUME NEW j \in Jobs, NEW q \in JobRows, row' = [row EXCEPT ![j] = q], Promised(row[j], q)
      PROVE  [Promise!Next]_(Promise!vars)
  <2> DEFINE r == row[j]
  <2>0. row \in [Jobs -> JobRows]
    BY DEF IInv, TypeOK
  <2>1. /\ [k \in Jobs |-> row'[k].status] = [[k \in Jobs |-> row[k].status] EXCEPT ![j] = q.status]
        /\ [k \in Jobs |-> row'[k].cancel = "requested"]
           = [[k \in Jobs |-> row[k].cancel = "requested"] EXCEPT ![j] = (q.cancel = "requested")]
        /\ [k \in Jobs |-> row'[k].claimer] = [[k \in Jobs |-> row[k].claimer] EXCEPT ![j] = q.claimer]
    BY <1>2, <2>0
  <2>2. /\ q.cancel = r.cancel => /\ [k \in Jobs |-> row'[k].cancel = "requested"]
                                     = [k \in Jobs |-> row[k].cancel = "requested"]
        /\ q.claimer = r.claimer => [k \in Jobs |-> row'[k].claimer] = [k \in Jobs |-> row[k].claimer]
        /\ q.status = r.status => [k \in Jobs |-> row'[k].status] = [k \in Jobs |-> row[k].status]
    BY <1>2, <2>0
  <2>3. CASE q.cancel = r.cancel /\ q.claimer = r.claimer /\ q.status = r.status
    BY <2>2, <2>3
  <2>4. CASE /\ q.cancel = r.cancel /\ q.claimer = r.claimer
             /\ \/ <<r.status, q.status>> \in {<<"absent", "pending">>, <<"pending", "queued">>,
                                               <<"pending", "failed">>, <<"running", "failed">>}
                \/ r.status = "running" /\ q.status = "succeeded" /\ r.cancel = "none"
                \/ r.status = "running" /\ q.status = "cancelled" /\ r.cancel = "requested"
    <3>1. \/ Promise!Create(j) \/ Promise!Enqueue(j) \/ Promise!GiveUp(j) \/ Promise!Fail(j)
          \/ Promise!Succeed(j) \/ Promise!Stop(j)
      BY <2>1, <2>2, <2>4
      DEF Promise!Create, Promise!Enqueue, Promise!GiveUp, Promise!Fail, Promise!Succeed, Promise!Stop
    <3> QED BY <3>1 DEF Promise!Next
  <2>5. CASE /\ q.cancel = "requested" /\ q.claimer = r.claimer
             /\ \/ r.status = "running" /\ q.status = "running"
                \/ r.status \in Claimable /\ q.status = "cancelled"
    <3>1. Promise!AskToStop(j) \/ Promise!Withdraw(j)
      BY <2>1, <2>2, <2>5 DEF Promise!AskToStop, Promise!Withdraw, Claimable
    <3> QED BY <3>1 DEF Promise!Next
  <2>6. CASE /\ r.status \in Claimable /\ q.status = "running"
             /\ r.cancel = "none" /\ q.cancel = "none"
             /\ r.claimer = NoWorker /\ q.claimer \in Workers
    <3>1. Promise!Start(j, q.claimer)
      BY <2>1, <2>2, <2>6 DEF Promise!Start, Claimable
    <3> QED BY <2>6, <3>1 DEF Promise!Next
  <2> QED BY <1>2, <2>3, <2>4, <2>5, <2>6 DEF Promised
<1> QED BY <1>1, <1>2 DEF RowStep

\* The job table implements JobStatus: whatever the interleaving of requests, loops,
\* deliveries, workers and faults, a reader of a job's status sees it created once,
\* claimed by at most one worker, and ended once.
THEOREM JobTableKeepsPromise == Spec => KeepsPromise
<1>1. Init => Promise!Init
  <2> SUFFICES ASSUME Init PROVE Promise!Init
    OBVIOUS
  <2>1. \A j \in Jobs : /\ row[j].status = "absent"
                        /\ (row[j].cancel = "requested") = FALSE
                        /\ row[j].claimer = NoWorker
    BY DEF Init, AbsentRow, Row
  <2> QED BY <2>1 DEF Promise!Init
<1>2. IInv /\ [Next]_vars => [Promise!Next]_(Promise!vars)
  BY NextRows, RowStepRefines
<1> QED BY <1>1, <1>2, Invariance, PTL DEF Spec, KeepsPromise, Promise!Spec

-----------------------------------------------------------------------------
(* What a thread knows before it writes *)

\* A thread about to mark a dispatch failure read the job as free or as leased by
\* itself; one about to flag a cancellation saw that the job was claimed.
ThreadKnows(t) ==
  /\ thread[t].pc = "failWrite" => thread[t].owner \in {NoOwner, DispatcherId(t)}
  /\ thread[t].pc = "cancelRunning" => row[thread[t].job].status \in Started

ThreadsKnow == \A t \in Threads : ThreadKnows(t)

\* A started job stays started: read off the update that was made.
LEMMA StartedStaysStarted ==
  ASSUME IInv, RowStep, NEW j \in Jobs, row[j].status \in Started
  PROVE  row'[j].status \in Started
<1>1. row \in [Jobs -> JobRows]
  BY DEF IInv, TypeOK
<1>2. CASE UNCHANGED row
  BY <1>2
<1>3. ASSUME NEW k \in Jobs, NEW q \in JobRows, row' = [row EXCEPT ![k] = q], Promised(row[k], q)
      PROVE  row'[j].status \in Started
  BY <1>1, <1>3 DEF Promised, Started, Terminal, Claimable
<1> QED BY <1>2, <1>3 DEF RowStep

\* A thread's record changes by its own steps and by a crash of its process only.
LEMMA OthersKeepThread ==
  ASSUME NEW t \in Threads, [Next]_vars, IInv
  PROVE  \/ thread'[t] = thread[t] /\ DispatcherId(t)' = DispatcherId(t)
         \/ ThreadStep(t) /\ life' = life
         \/ thread'[t] = IdleThread /\ \E a \in Apis : CrashApi(a)
<1> DEFINE Goal == \/ thread'[t] = thread[t] /\ DispatcherId(t)' = DispatcherId(t)
                   \/ ThreadStep(t) /\ life' = life
                   \/ thread'[t] = IdleThread /\ \E a \in Apis : CrashApi(a)
<1>1. thread \in [Threads -> ThreadRecords] /\ life \in [Apis -> Nat]
  BY DEF IInv, TypeOK
<1>2. ASSUME NEW u \in Threads, ThreadStep(u) PROVE Goal
  <2>1. /\ life' = life
        /\ \E rec : thread' = [thread EXCEPT ![u] = rec]
    BY <1>1, <1>2 DEF ThreadStep, DispatchStep, CancelStep, LeaseInline, LeaseNext, Publish, Record,
       ReadDispatchFailure, WriteDispatchFailure, CancelQueued, CancelRunning, Dequeue, CreateJob,
       RequestCancel, RetryJob, StartDispatch, PublishThrows, PublishAnswerLost, RecordThrows,
       Abandon, AbandonAnswerLost, Goto, Return
  <2> QED BY <1>1, <1>2, <2>1 DEF DispatcherId
<1>3. ASSUME NEW a \in Apis, CrashApi(a) PROVE Goal
  BY <1>1, <1>3 DEF CrashApi, DispatcherId, Threads
<1>4. CASE UNCHANGED <<thread, life>>
  BY <1>4 DEF DispatcherId
<1>5. ASSUME NEW s \in WorkerSlots, SlotStep(s) PROVE UNCHANGED <<thread, life>>
  BY <1>5 DEF SlotStep, ExecutionStep, Fetch, Claim, Prepare, Stage, RunSandbox, Collect,
     PublishResults, FinalizeSuccess, FinalizeFailure, Settle, PrepareThrows, StepThrows, HandlerThrows
<1>6. CASE \/ UNCHANGED vars
           \/ \E j \in Jobs : ExpireLease(j) \/ ElapseBackoff(j)
           \/ \E m \in Messages : ExpireDelivery(m)
           \/ \E w \in Workers : CrashWorker(w)
  <2>1. UNCHANGED <<thread, life>>
    BY <1>6 DEF vars, ExpireLease, ElapseBackoff, ExpireDelivery, CrashWorker
  <2> QED BY <1>4, <2>1
<1> QED BY <1>2, <1>3, <1>4, <1>5, <1>6 DEF Next

\* The outcomes of the read and of the update that lead a cancel request on.
LEMMA CancelQueuedGoes ==
  ASSUME IInv, NEW t \in Threads, CancelQueued(t)
  PROVE  \/ /\ row[thread[t].job].status \in Started
            /\ thread' = [thread EXCEPT ![t].pc = "cancelRunning"]
         \/ /\ row[thread[t].job].status \in Claimable
            /\ \/ thread' = [thread EXCEPT ![t].pc = "dequeue"]
               \/ thread' = [thread EXCEPT ![t] = IdleThread]
<1> DEFINE r == row[thread[t].job]
<1>1. r.status \in Status \ {"absent"}
  BY ThreadFacts DEF CancelQueued, IInv, ThreadInv, JobRows, Rows
<1>2. r.status \notin Claimable => r.status \in Started
  BY <1>1 DEF Status, Claimable, Started
<1>3. \/ r.status \notin Claimable /\ thread' = [thread EXCEPT ![t].pc = "cancelRunning"]
      \/ r.status \in Claimable /\ thread' = [thread EXCEPT ![t].pc = "dequeue"]
      \/ r.status \in Claimable /\ thread' = [thread EXCEPT ![t] = IdleThread]
  BY DEF CancelQueued, Goto, Return
<1> QED BY <1>2, <1>3

\* Only these three steps take a thread to a write that relies on an earlier read.
LEMMA OtherStepsPrepareNoWrite ==
  ASSUME IInv, NEW t \in Threads, ThreadStep(t),
         ~ (ReadDispatchFailure(t) \/ CancelQueued(t) \/ \E j \in Jobs : RequestCancel(t, j))
  PROVE  thread'[t].pc \notin {"failWrite", "cancelRunning"}
<1>1. thread \in [Threads -> ThreadRecords]
  BY DEF IInv, TypeOK
<1>2. CASE Return(t)
  BY <1>1, <1>2 DEF Return, IdleThread, Thread
<1>3. CASE \E pc \in {"publish", "fail", "dequeue"} : Goto(t, pc)
  BY <1>1, <1>3 DEF Goto, ThreadRecords
<1>4. CASE (\E j \in Jobs : LeaseNext(t, j) \/ StartDispatch(t, j)) \/ \E m \in Messages : Publish(t, m)
  BY <1>1, <1>4 DEF LeaseNext, StartDispatch, Publish, Thread
<1>5. CASE LeaseInline(t) \/ Record(t) \/ WriteDispatchFailure(t)
  BY <1>2, <1>3, <1>5 DEF LeaseInline, Record, WriteDispatchFailure
<1>6. CASE \/ \E m \in Messages : PublishAnswerLost(t, m)
           \/ PublishThrows(t) \/ RecordThrows(t)
  BY <1>3, <1>6 DEF PublishAnswerLost, PublishThrows, RecordThrows
<1>7. CASE CancelRunning(t) \/ Dequeue(t) \/ Abandon(t) \/ AbandonAnswerLost(t)
  BY <1>2, <1>7 DEF CancelRunning, Dequeue, Abandon, AbandonAnswerLost
<1> QED BY <1>4, <1>5, <1>6, <1>7 DEF ThreadStep, DispatchStep, CancelStep, CreateJob, RetryJob

\* Every step keeps what the threads know.
LEMMA NextThreadsKnow == IInv /\ ThreadsKnow /\ [Next]_vars => ThreadsKnow'
<1> SUFFICES ASSUME IInv, ThreadsKnow, [Next]_vars, NEW t \in Threads PROVE ThreadKnows(t)'
  BY DEF ThreadsKnow
<1>1. RowStep
  BY NextRows
<1>2. CASE thread'[t] = thread[t] /\ DispatcherId(t)' = DispatcherId(t)
  <2>1. thread[t].pc = "cancelRunning" => thread[t].job \in Jobs
    BY DEF IInv, ThreadInv
  <2> QED BY <1>1, <1>2, <2>1, StartedStaysStarted DEF ThreadKnows, ThreadsKnow
<1>3. CASE thread'[t] = IdleThread
  BY <1>3 DEF ThreadKnows, IdleThread, Thread
<1>4. CASE ThreadStep(t) /\ life' = life
  <2>1. thread \in [Threads -> ThreadRecords]
    BY DEF IInv, TypeOK
  <2>2. CASE ReadDispatchFailure(t)
    BY <1>4, <2>1, <2>2 DEF ReadDispatchFailure, MayMarkFailure, Return, IdleThread, Thread, ThreadKnows, DispatcherId
  <2>3. CASE CancelQueued(t)
    <3>1. thread[t].job \in Jobs
      BY <2>3, ThreadFacts DEF CancelQueued
    <3>2. CASE /\ row[thread[t].job].status \in Started
               /\ thread' = [thread EXCEPT ![t].pc = "cancelRunning"]
      <4>1. row'[thread[t].job].status \in Started
        BY <1>1, <3>1, <3>2, StartedStaysStarted
      <4> QED BY <2>1, <3>2, <4>1 DEF ThreadKnows, ThreadRecords
    <3>3. CASE \/ thread' = [thread EXCEPT ![t].pc = "dequeue"]
               \/ thread' = [thread EXCEPT ![t] = IdleThread]
      <4>1. thread'[t].pc \in {"dequeue", "idle"}
        BY <2>1, <3>3 DEF IdleThread, Thread, ThreadRecords
      <4> QED BY <4>1 DEF ThreadKnows
    <3> QED BY <2>3, <3>2, <3>3, CancelQueuedGoes
  <2>4. ASSUME NEW j \in Jobs, RequestCancel(t, j) PROVE ThreadKnows(t)'
    <3>1. \/ row[j].status = "running" /\ thread'[t] = Thread("cancelRunning", j, NoMessage, 0, NoOwner)
          \/ thread'[t] = Thread("cancelQueued", j, row[j].msg, 0, NoOwner)
      BY <2>1, <2>4 DEF RequestCancel
    <3> QED BY <1>1, <3>1, StartedStaysStarted DEF Thread, ThreadKnows, Started
  <2> QED BY <1>4, <2>2, <2>3, <2>4, OtherStepsPrepareNoWrite DEF ThreadKnows
<1> QED BY <1>2, <1>3, <1>4, OthersKeepThread

\* A thread acts on what it knows until its own write: neither a crash of another
\* process nor an update of the row in between makes it stale.
THEOREM ThreadsKnowTheirJobs == Spec => []ThreadsKnow
<1>1. Init => ThreadsKnow
  BY DEF Init, ThreadsKnow, ThreadKnows, IdleThread, Thread
<1> QED BY <1>1, NextThreadsKnow, Invariance, PTL DEF Spec

-----------------------------------------------------------------------------
(* Action properties *)

\* Only the write of a dispatcher that marks its failure takes the lease of a job
\* that stays pending.
LEMMA LeaseTakenByWriter ==
  ASSUME IInv, [Next]_vars, NEW j \in Jobs, row[j].lease # "none",
         row'[j].status = "pending", row'[j].lease = "none"
  PROVE  \E t \in Threads : /\ thread[t].pc = "failWrite" /\ thread[t].job = j
                            /\ row[j].owner = thread[t].owner
                            /\ thread'[t] = IdleThread
<1>1. /\ row \in [Jobs -> JobRows] /\ thread \in [Threads -> ThreadRecords]
      /\ RowOK(row[j]) /\ row[j].status = "pending"
  BY DEF IInv, TypeOK, RowInv, RowOK
<1> USE DEF UpdateRow
<1>2. ASSUME NEW t \in Threads, MarkFailure(t), thread[t].pc = "failWrite", Return(t)
      PROVE  /\ thread[t].job = j
             /\ row[j].owner = thread[t].owner
             /\ thread'[t] = IdleThread
  BY <1>1, <1>2, ThreadFacts DEF MarkFailure, CanMarkFailure, Return
<1>3. ASSUME NEW t \in Threads PROVE
        /\ ~ (LeaseForDispatch(t) /\ thread[t].pc = "lease")
        /\ ~ (thread[t].pc = "record" /\ RecordMessage(t))
        /\ ~ (thread[t].pc = "cancelQueued" /\ CancelBeforeClaim(t))
        /\ ~ (thread[t].pc = "cancelRunning" /\ FlagRunning(t))
        /\ \A k \in Jobs : ~ LeaseCandidate(t, k)
        /\ \A k \in Jobs : ~ (row[k].status = "absent" /\ StartDispatch(t, k))
  BY <1>1, ThreadFacts DEF LeaseForDispatch, RecordMessage, CancelBeforeClaim, FlagRunning, LeaseCandidate,
     StartDispatch, LeasedRow, QueuedRow, CancelledRow, FlaggedRow, CreatedRow, Row, JobRows, Rows
<1>4. ASSUME NEW t \in Threads, ThreadStep(t)
      PROVE  MarkFailure(t) /\ thread[t].pc = "failWrite" /\ Return(t)
  BY <1>1, <1>3, <1>4 DEF ThreadStep, DispatchStep, CancelStep, LeaseInline, LeaseNext, Publish, Record,
       ReadDispatchFailure, WriteDispatchFailure, CancelQueued, CancelRunning, Dequeue, CreateJob,
       RequestCancel, RetryJob, PublishThrows, PublishAnswerLost, RecordThrows,
       Abandon, AbandonAnswerLost
<1>5. ASSUME NEW s \in WorkerSlots, SlotStep(s) PROVE FALSE
  <2>1. slot[s].pc = "claim" => ~ ClaimRow(s)
    BY <1>1, SlotFacts DEF ClaimRow, CanClaim, ClaimedRow, Row
  <2>2. ASSUME Executing(s), NEW where, NEW data, UpdateRow(JobOf(s), where, data) PROVE FALSE
    <3>1. JobOf(s) \in Jobs /\ row[JobOf(s)].status \in Started
      BY <2>2, SlotFacts DEF Executing, ExecutingPc
    <3>2. JobOf(s) = j
      BY <1>1, <2>2, <3>1
    <3> QED BY <1>1, <3>1, <3>2 DEF Started, Terminal
  <2>3. CASE Claim(s) \/ PrepareThrows(s) \/ FinalizeSuccess(s) \/ FinalizeFailure(s)
    BY <2>1, <2>2, <2>3 DEF Claim, PrepareThrows, FailClaim, FinalizeSuccess, FinalizeFailure,
       Executing, ExecutingPc
  <2>4. CASE StepThrows(s) \/ HandlerThrows(s)
    BY <1>1, <2>1, <2>2, <2>4 DEF StepThrows, HandlerThrows, FailClaim, Executing, ExecutingPc
  <2>5. CASE \/ \E m \in Messages : Fetch(s, m)
             \/ Prepare(s) \/ Stage(s) \/ Collect(s) \/ PublishResults(s) \/ Settle(s)
             \/ \E o \in Outcome \ {"none"} : RunSandbox(s, o)
    BY <1>1, <2>5 DEF Fetch, Prepare, Stage, Collect, PublishResults, Settle, RunSandbox
  <2> QED BY <1>5, <2>3, <2>4, <2>5 DEF SlotStep, ExecutionStep
<1>6. ASSUME NEW k \in Jobs, ExpireLease(k) \/ ElapseBackoff(k) PROVE FALSE
  BY <1>1, <1>6 DEF ExpireLease, ElapseBackoff, JobRows, Rows
<1>7. ~ UNCHANGED row
  OBVIOUS
<1> QED BY <1>2, <1>4, <1>5, <1>6, <1>7 DEF Next, vars, ExpireDelivery, CrashApi, CrashWorker

\* A lease is freed for another dispatch by its holder only: markAnalysisJobDispatchFailure
\* compares the owner it read, and a dispatcher only goes on to that write when it
\* read itself or nobody.  However late a dispatcher that lost its lease wakes up,
\* the job stays with the dispatcher that holds it.
THEOREM OnlyHolderEndsLease == Spec => LeaseEndedByItsHolder
<1>1. IInv /\ ThreadsKnow /\ [Next]_vars =>
        [\A j \in Jobs :
           /\ row[j].lease = "live"
           /\ LeaseHolders(j) # {}
           /\ row'[j].status = "pending"
           /\ row'[j].lease = "none"
           => \E t \in LeaseHolders(j) : thread'[t] # thread[t]]_vars
  <2> SUFFICES ASSUME IInv, ThreadsKnow, [Next]_vars, NEW j \in Jobs, row[j].lease = "live",
                      row'[j].status = "pending", row'[j].lease = "none"
               PROVE  \E t \in LeaseHolders(j) : thread'[t] # thread[t]
    OBVIOUS
  <2>1. PICK t \in Threads : /\ thread[t].pc = "failWrite" /\ thread[t].job = j
                             /\ row[j].owner = thread[t].owner
                             /\ thread'[t] = IdleThread
    BY LeaseTakenByWriter
  <2>2. row[j].owner # NoOwner
    BY DEF IInv, RowInv, RowOK
  <2>3. DispatcherId(t) = row[j].owner
    BY <2>1, <2>2 DEF ThreadsKnow, ThreadKnows
  <2>4. thread'[t] # thread[t]
    BY <2>1 DEF IdleThread, Thread
  <2> QED BY <2>1, <2>3, <2>4 DEF LeaseHolders, Dispatching
<1> QED BY <1>1, Invariance, ThreadsKnowTheirJobs, PTL DEF Spec, LeaseEndedByItsHolder

\* A cancel request that returns without a fault leaves its job ended or marked: the
\* update before the claim and the one after it leave no gap, although the job may
\* have been claimed, cancelled or finalized since the request read it.
THEOREM CancelAlwaysReachesJob == Spec => CancelReachesJob
<1>1. IInv /\ ThreadsKnow /\ [Next]_vars =>
        [\A t \in Threads :
           /\ thread[t].pc \in {"cancelQueued", "cancelRunning"}
           /\ thread'[t].pc \notin {"cancelQueued", "cancelRunning"}
           /\ faults' = faults
           => LET r == row'[thread[t].job] IN r.cancel = "requested" \/ r.status \in Terminal]_vars
  <2> SUFFICES ASSUME IInv, ThreadsKnow, [Next]_vars, NEW t \in Threads,
                      thread[t].pc \in {"cancelQueued", "cancelRunning"},
                      thread'[t].pc \notin {"cancelQueued", "cancelRunning"},
                      faults' = faults
               PROVE  row'[thread[t].job].cancel = "requested" \/ row'[thread[t].job].status \in Terminal
    OBVIOUS
  <2> DEFINE j == thread[t].job
  <2>1. /\ row \in [Jobs -> JobRows] /\ thread \in [Threads -> ThreadRecords]
        /\ j \in Jobs /\ row[j] \in JobRows
    BY ThreadFacts DEF IInv, TypeOK
  <2>2. ~ Crashes /\ ~ Throws
    BY DEF Crashes, Throws, IInv, TypeOK, FaultRecords
  <2>3. CancelQueued(t) \/ CancelRunning(t)
    <3>1. ThreadStep(t)
      BY <2>2, OthersKeepThread DEF CrashApi
    <3> QED BY <2>2, <3>1 DEF ThreadStep, DispatchStep, CancelStep, LeaseInline, LeaseNext, LeaseCandidate, Publish, Record,
       ReadDispatchFailure, WriteDispatchFailure, Dequeue, CreateJob,
       RequestCancel, RetryJob, PublishThrows, PublishAnswerLost, RecordThrows,
       Abandon, AbandonAnswerLost
  <2>4. CASE CancelQueued(t)
    <3>1. thread'[t].pc # "cancelRunning"
      OBVIOUS
    <3>2. row[j].status \in Claimable
      BY <2>1, <2>4, <3>1, CancelQueuedGoes DEF ThreadRecords
    <3> QED BY <2>1, <2>4, <3>2 DEF CancelQueued, CancelBeforeClaim, UpdateRow, CancelledRow, Row
  <2>5. CASE CancelRunning(t)
    <3>1. row[j].status \in Started
      BY <2>5 DEF CancelRunning, ThreadsKnow, ThreadKnows
    <3>2. CASE CanFlagCancellation(row[j])
      BY <2>1, <2>5, <3>2 DEF CancelRunning, FlagRunning, UpdateRow, FlaggedRow, JobRows, Rows
    <3>3. CASE ~ CanFlagCancellation(row[j])
      <4>1. row' = row
        BY <2>1, <2>5, <3>3 DEF CancelRunning, FlagRunning, UpdateRow
      <4> QED BY <2>1, <3>1, <3>3, <4>1 DEF CanFlagCancellation, Started, JobRows, Rows
    <3> QED BY <3>2, <3>3
  <2> QED BY <2>3, <2>4, <2>5
<1> QED BY <1>1, Invariance, ThreadsKnowTheirJobs, PTL DEF Spec, CancelReachesJob
=============================================================================
