----------------------------- MODULE JobStatus ------------------------------
(***************************************************************************)
(* What the job table promises a reader of a job's status, whatever the    *)
(* number of API processes, dispatch loops, queue deliveries and workers:  *)
(* a job is created once and moves forward only, one worker runs it, a     *)
(* cancellation excludes success, and a terminal status is final.          *)
(* The diagram of docs/architecture/job-execution.md is this one without   *)
(* the two moves from "pending" to "running" and to "cancelled".           *)
(***************************************************************************)
CONSTANTS Jobs, Workers, NoWorker

VARIABLES
  status,  \* status of each job
  asked,   \* a cancellation of the job was accepted
  runner   \* the worker that claimed the job

vars == <<status, asked, runner>>

Init ==
  /\ status = [j \in Jobs |-> "absent"]
  /\ asked  = [j \in Jobs |-> FALSE]
  /\ runner = [j \in Jobs |-> NoWorker]

Move(j, from, to) ==
  /\ status[j] \in from
  /\ status' = [status EXCEPT ![j] = to]

Create(j)  == Move(j, {"absent"}, "pending") /\ UNCHANGED <<asked, runner>>
Enqueue(j) == Move(j, {"pending"}, "queued") /\ UNCHANGED <<asked, runner>>

\* Dispatch gave the job up.
GiveUp(j) == Move(j, {"pending"}, "failed") /\ UNCHANGED <<asked, runner>>

\* A worker takes the job, for the first and only time.
Start(j, w) ==
  /\ Move(j, {"pending", "queued"}, "running")
  /\ ~ asked[j]
  /\ runner[j] = NoWorker
  /\ runner' = [runner EXCEPT ![j] = w]
  /\ UNCHANGED asked

\* A cancellation that comes before the start ends the job at once ...
Withdraw(j) ==
  /\ Move(j, {"pending", "queued"}, "cancelled")
  /\ asked' = [asked EXCEPT ![j] = TRUE]
  /\ UNCHANGED runner

\* ... and one that comes later is noted.
AskToStop(j) ==
  /\ status[j] = "running"
  /\ asked' = [asked EXCEPT ![j] = TRUE]
  /\ UNCHANGED <<status, runner>>

Succeed(j) ==
  /\ Move(j, {"running"}, "succeeded")
  /\ ~ asked[j]
  /\ UNCHANGED <<asked, runner>>

Fail(j) == Move(j, {"running"}, "failed") /\ UNCHANGED <<asked, runner>>

Stop(j) ==
  /\ Move(j, {"running"}, "cancelled")
  /\ asked[j]
  /\ UNCHANGED <<asked, runner>>

Next ==
  \E j \in Jobs :
    \/ Create(j) \/ Enqueue(j) \/ GiveUp(j)
    \/ \E w \in Workers : Start(j, w)
    \/ Withdraw(j) \/ AskToStop(j)
    \/ Succeed(j) \/ Fail(j) \/ Stop(j)

Spec == Init /\ [][Next]_vars
=============================================================================
