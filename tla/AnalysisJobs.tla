---------------------------- MODULE AnalysisJobs ----------------------------
(***************************************************************************)
(* One row of the AnalysisJob table and the conditional updates that       *)
(* packages/db/src/repositories.ts makes to it.  Each update is written as *)
(* the pair the code passes to updateMany: a predicate on the row (its     *)
(* "where") and the row it leaves (its "data").  A row is a record:        *)
(*                                                                         *)
(*   status    "absent" before the insert, then the job status             *)
(*   cancel    "none", or "requested" once cancelRequestedAt is set        *)
(*   attempts  dispatchAttempts                                            *)
(*   owner     dispatchLeaseOwner                                          *)
(*   lease     dispatchLeaseExpiresAt against the clock: no lease, one that*)
(*             has not expired, one that has                               *)
(*   retry     "later" while dispatchNextAttemptAt lies in the future, else*)
(*             "due"                                                       *)
(*   msg       queueMessageId                                              *)
(*   claimer   claimedRunnerId                                             *)
(***************************************************************************)
EXTENDS Naturals

CONSTANTS
  MaxDispatchAttempts,  \* getMaxDispatchAttempts(), 12 unless configured
  NoOwner,              \* a null dispatchLeaseOwner
  NoMessage,            \* a null queueMessageId
  NoWorker              \* a null claimedRunnerId

ASSUME MaxDispatchAttemptsAssumption == MaxDispatchAttempts \in Nat \ {0}

Claimable == {"pending", "queued"}
Terminal  == {"succeeded", "failed", "cancelled"}
Status    == {"absent", "running"} \union Claimable \union Terminal

\* The set of rows over given dispatchers, messages and workers.
Rows(owners, msgs, workers) ==
  [status   : Status,
   cancel   : {"none", "requested"},
   attempts : Nat,
   owner    : owners \union {NoOwner},
   lease    : {"none", "live", "expired"},
   retry    : {"due", "later"},
   msg      : msgs \union {NoMessage},
   claimer  : workers \union {NoWorker}]

Row(status, cancel, attempts, owner, lease, retry, msg, claimer) ==
  [status |-> status, cancel |-> cancel, attempts |-> attempts, owner |-> owner,
   lease |-> lease, retry |-> retry, msg |-> msg, claimer |-> claimer]

AbsentRow == Row("absent", "none", 0, NoOwner, "none", "due", NoMessage, NoWorker)

\* createAnalysisJobForUser, createRemediationJobForUser: the inserted row.
CreatedRow == Row("pending", "none", 0, NoOwner, "none", "due", NoMessage, NoWorker)

-----------------------------------------------------------------------------
(* Dispatch *)

\* Mutant: the loop's query passes over leases that have expired.
NeverLeased(r) ==
  /\ r.status = "pending"
  /\ r.retry = "due"
  /\ r.lease = "none"

\* leaseNextPendingAnalysisJobForDispatch: the rows the loop's query returns.
IsDispatchCandidate(r) ==
  /\ r.status = "pending"
  /\ r.retry = "due"
  /\ r.lease # "live"

\* leaseAnalysisJobForDispatch, where: the lease may also be d's own.
CanLease(r, d) ==
  /\ r.status = "pending"
  /\ r.retry = "due"
  /\ r.lease # "live" \/ r.owner = d

LeasedRow(r, d) ==
  Row(r.status, r.cancel, r.attempts + 1, d, "live", r.retry, r.msg, r.claimer)

\* Mutant: the message is recorded whatever became of the job.
OwnsOrFree(r, d) == r.owner \in {NoOwner, d}

\* setAnalysisJobQueueMessage
CanSetQueueMessage(r, d) ==
  /\ r.status \in Claimable
  /\ r.owner \in {NoOwner, d}

\* Mutant: the lease is not cleared.
LeasedQueuedRow(r, m) ==
  Row("queued", r.cancel, r.attempts, r.owner, r.lease, "due", m, r.claimer)

QueuedRow(r, m) ==
  Row("queued", r.cancel, r.attempts, NoOwner, "none", "due", m, r.claimer)

\* markAnalysisJobDispatchFailure: the early returns after its read ...
MayMarkFailure(r, d) ==
  /\ r.status = "pending"
  /\ r.owner \in {NoOwner, d}

\* Mutant: the write trusts what was read.
IsStillPending(r, attempts, owner) == r.status = "pending"

\* ... and the compare-and-set against what was read.
CanMarkFailure(r, attempts, owner) ==
  /\ r.status = "pending"
  /\ r.attempts = attempts
  /\ r.owner = owner

\* Mutant: one attempt too many.
PassedLimit(attempts) == attempts > MaxDispatchAttempts

ReachedLimit(attempts) == attempts >= MaxDispatchAttempts

DispatchFailedRow(r, attempts) ==
  LET limit == ReachedLimit(attempts)
  IN Row(IF limit THEN "failed" ELSE "pending", r.cancel, r.attempts,
         NoOwner, "none", IF limit THEN "due" ELSE "later", r.msg, r.claimer)

-----------------------------------------------------------------------------
(* Cancellation *)

\* Mutant: cancelRequestedAt is not set.
UnmarkedCancelledRow(r) ==
  Row("cancelled", r.cancel, r.attempts, NoOwner, "none", "due", r.msg, r.claimer)

\* requestJobCancellationForUser, the update made before a claim.
CancelledRow(r) ==
  Row("cancelled", "requested", r.attempts, NoOwner, "none", "due", r.msg, r.claimer)

\* requestJobCancellationForUser, the update made while the job runs.
CanFlagCancellation(r) == r.status = "running" /\ r.cancel = "none"

FlaggedRow(r) == [r EXCEPT !.cancel = "requested"]

-----------------------------------------------------------------------------
(* Execution *)

\* Mutant: a redelivered message claims the running job again.
CanReclaim(r) == r.status \in Claimable \union {"running"}

\* claimAgentJob: its two updates, first the cancelled job, then the claim.
CanClaim(r) == r.status \in Claimable

ClaimSucceeds(r) == CanClaim(r) /\ r.cancel = "none"

ClaimedRow(r, w, m) ==
  IF r.cancel = "requested"
  THEN Row("cancelled", r.cancel, r.attempts, NoOwner, "none", "due", r.msg, r.claimer)
  ELSE Row("running", r.cancel, r.attempts, NoOwner, "none", "due", m, w)

\* claimAgentJob, the update made when the execution record cannot be read.
CanFailClaim(r, w) == r.status = "running" /\ r.claimer = w

\* Mutant: cancelRequestedAt is not checked.
IsRunning(r) == r.status = "running"

\* finalizeAnalysisJobSuccess
CanSucceed(r) == r.status = "running" /\ r.cancel = "none"

SucceededRow(r) == [r EXCEPT !.status = "succeeded"]

\* Mutant: a final status is overwritten.
CanFailAny(r) == r.status # "absent"

\* Mutant: only a job that never ran is failed.
CanFailUnclaimed(r) == r.status \in Claimable

\* finalizeAnalysisJobFailure, with its two possible statuses.
CanFail(r) == r.status \in Claimable \union {"running"}

FailedRow(r, verdict) == [r EXCEPT !.status = verdict]
=============================================================================
