------------------------------ MODULE DogfoodCycle ------------------------------
(***************************************************************************)
(* run-cycle.mjs, with which the team has the product audit its own        *)
(* repository: `analyze` uploads a snapshot, queues an audit and waits for *)
(* it, `collect` takes up a job that somebody lost, and `remediate` queues *)
(* a fix from the summary.json one of them left.  Two of them may run at a *)
(* time against one API, whose answers get lost.                           *)
(***************************************************************************)
EXTENDS Naturals, FiniteSets, Sequences

CONSTANTS
  MaxCycles,  \* bound on the commands
  MaxLosses,  \* bound on requests that fail
  GetRetries  \* repetitions of a GET that does not reach the API (5 in the code)

ASSUME CycleAssumption == {MaxCycles, MaxLosses, GetRetries} \subseteq Nat

VARIABLES
  cycle,       \* the commands, in the order they were given
  dogfoodJobs, \* what the API queued for them
  files,       \* summary.json in the directory of each job
  proSpaces,   \* workspaces of the loop's name, and whether each is pro
  losses

cycleVars == <<cycle, dogfoodJobs, files, proSpaces, losses>>

Modes    == {"analyze", "collect", "remediate"}
Ended    == {"ok", "broken"}
Reading  == {"workspace", "access", "wait", "envelope", "evidence"}  \* GET
Writing  == {"create", "upgrade", "upload", "queue"}                 \* POST
Steps    == Reading \union Writing \union Ended \union {"prepare", "archive", "directory", "save", "judge"}
Final    == {"succeeded", "failed", "cancelled"}
Unread  == [status |-> "none", trail |-> {}, report |-> FALSE]
NoFile   == [by |-> 0, mode |-> "none", status |-> "none", report |-> FALSE]

CycleType ==
  /\ \A i \in DOMAIN cycle :
       cycle[i].mode \in Modes /\ cycle[i].at \in Steps /\ cycle[i].job \in 0 .. Len(dogfoodJobs)
       /\ cycle[i].tries \in 0 .. GetRetries + 1
  /\ \A j \in DOMAIN dogfoodJobs : dogfoodJobs[j].status \in Final \union {"queued", "running"}
  /\ DOMAIN files = DOMAIN dogfoodJobs
  /\ proSpaces \in Seq(BOOLEAN)
  /\ losses \in 0 .. MaxLosses

CyclesInit ==
  /\ cycle = <<>> /\ dogfoodJobs = <<>> /\ files = <<>>
  /\ proSpaces = <<>>
  /\ losses = 0

\* Command i goes on to a step; the next request is tried from the start.
Go(i, step) == cycle' = [cycle EXCEPT ![i].at = step, ![i].tries = 0]

\* The snapshot's directory goes when an audit's try block ends, not before it was entered,
\* which is after the job's own directory was made.
InTry == {"wait", "envelope", "evidence", "save", "judge"}
End(i, how) ==
  cycle' = [cycle EXCEPT ![i].at = how,
              ![i].leftover = cycle[i].leftover /\ cycle[i].at \notin InTry]

-----------------------------------------------------------------------------
(* ApiClient.request *)

\* Mutant: a request is repeated whatever its method.
RepeatsAny(i) == cycle[i].tries < GetRetries

\* Whether a request without an answer is sent again
Repeats(i) == cycle[i].at \in Reading /\ cycle[i].tries < GetRetries

\* The request does not reach the API, or answers 401, upon which another login gets a new
\* token, once, unless curl is what uploads.
LoseRequest(i) ==
  /\ cycle[i].at \in Reading \union Writing /\ losses < MaxLosses
  /\ losses' = losses + 1
  /\ \/ /\ Repeats(i) \/ (cycle[i].tries = 0 /\ cycle[i].at # "upload")
        /\ cycle' = [cycle EXCEPT ![i].tries = @ + 1]
     \/ End(i, "broken")
  /\ UNCHANGED <<dogfoodJobs, files, proSpaces>>

\* A POST that was served may still have its answer lost.
AnsweredOrLost(i, next) ==
  \/ Go(i, next) /\ UNCHANGED losses
  \/ /\ losses < MaxLosses /\ losses' = losses + 1
     /\ IF Repeats(i) THEN cycle' = [cycle EXCEPT ![i].tries = @ + 1] ELSE End(i, "broken")

-----------------------------------------------------------------------------
(* The commands *)

MayStart == Cardinality({i \in DOMAIN cycle : cycle[i].at \notin Ended}) < 2

\* collect and remediate are told of a job, or of the summary of it.
StartCycle(mode, job, waits) ==
  /\ MayStart /\ Len(cycle) < MaxCycles
  /\ mode = "analyze" <=> job = 0
  /\ cycle' = Append(cycle, [mode |-> mode, at |-> "prepare", tries |-> 0, job |-> job,
                            space |-> 0, waits |-> waits, seen |-> Unread, leftover |-> FALSE])
  /\ UNCHANGED <<dogfoodJobs, files, proSpaces, losses>>

\* A summary names the report, or does not, and only that of analyze has the workspace,
\* which the check of the Codex auth asks for.
CanRemediate(job) == files[job].report /\ files[job].mode = "analyze"

\* The preflight of the sandbox, the login, and the reading of the summary
Prepare(i) ==
  /\ cycle[i].at = "prepare"
  /\ \/ /\ cycle[i].mode = "remediate" => CanRemediate(cycle[i].job)
        /\ Go(i, CASE cycle[i].mode = "analyze" -> "workspace"
                   [] cycle[i].mode = "remediate" -> "access"
                   [] OTHER -> IF cycle[i].waits THEN "wait" ELSE "envelope")
     \/ End(i, "broken")
  /\ UNCHANGED <<dogfoodJobs, files, proSpaces, losses>>

\* ensureWorkspace: found by its name, or made
FindWorkspace(i) ==
  /\ cycle[i].at = "workspace"
  /\ \/ /\ proSpaces = <<>>
        /\ Go(i, "create")
     \/ \E s \in DOMAIN proSpaces :
          cycle' = [cycle EXCEPT ![i].at = IF proSpaces[s] THEN "access" ELSE "upgrade",
                                 ![i].tries = 0, ![i].space = s]
  /\ UNCHANGED <<dogfoodJobs, files, proSpaces, losses>>

CreateWorkspace(i) ==
  /\ cycle[i].at = "create"
  /\ proSpaces' = Append(proSpaces, FALSE)
  /\ \/ /\ cycle' = [cycle EXCEPT ![i].at = "upgrade", ![i].tries = 0, ![i].space = Len(proSpaces) + 1]
        /\ UNCHANGED losses
     \/ /\ losses < MaxLosses /\ losses' = losses + 1
        /\ End(i, "broken")
  /\ UNCHANGED <<dogfoodJobs, files>>

\* ensureProWorkspace: it sends the webhook of its checkout itself.
Upgrade(i) ==
  /\ cycle[i].at = "upgrade"
  /\ proSpaces' = [proSpaces EXCEPT ![cycle[i].space] = TRUE]
  /\ AnsweredOrLost(i, "access")
  /\ UNCHANGED <<dogfoodJobs, files>>

\* ensureScopedCodexAuth
CheckAccess(i) ==
  /\ cycle[i].at = "access"
  /\ \/ Go(i, IF cycle[i].mode = "analyze" THEN "archive" ELSE "queue")
     \/ End(i, "broken")
  /\ UNCHANGED <<dogfoodJobs, files, proSpaces, losses>>

\* createGitArchive makes its directory first.
Archive(i) ==
  /\ cycle[i].at = "archive"
  /\ \E step \in {"upload", "broken"} :
       cycle' = [cycle EXCEPT ![i].at = step, ![i].leftover = TRUE]
  /\ UNCHANGED <<dogfoodJobs, files, proSpaces, losses>>

Upload(i) ==
  /\ cycle[i].at = "upload"
  /\ AnsweredOrLost(i, "queue")
  /\ UNCHANGED <<dogfoodJobs, files, proSpaces>>

\* The job of an audit, or of a remediation of the report that the summary named
Queue(i) ==
  LET new == Len(dogfoodJobs) + 1
  IN  /\ cycle[i].at = "queue"
      /\ dogfoodJobs' = Append(dogfoodJobs, [by |-> i, of |-> cycle[i].job, space |-> cycle[i].space,
                                             status |-> "queued", trail |-> {}])
      /\ files' = Append(files, NoFile)
      /\ \/ /\ cycle' = [cycle EXCEPT ![i].at = "directory", ![i].tries = 0, ![i].job = new]
            /\ UNCHANGED losses
         \/ /\ losses < MaxLosses /\ losses' = losses + 1
            /\ IF Repeats(i) THEN cycle' = [cycle EXCEPT ![i].tries = @ + 1] ELSE End(i, "broken")
      /\ UNCHANGED proSpaces

\* The directory of the job, for its summary and what else is collected
MakeDirectory(i) ==
  /\ cycle[i].at = "directory"
  /\ Go(i, IF cycle[i].waits THEN "wait" ELSE "save")
  /\ UNCHANGED <<dogfoodJobs, files, proSpaces, losses>>

\* The disk refuses the directory, or a file of the evidence, or cuts the summary short.
DiskFails(i) ==
  /\ cycle[i].at \in {"directory", "envelope", "evidence", "save"}
  /\ End(i, "broken")
  /\ \/ UNCHANGED files
     \/ cycle[i].at = "save" /\ files' = [files EXCEPT ![cycle[i].job] = NoFile]
  /\ UNCHANGED <<dogfoodJobs, proSpaces, losses>>

\* waitForJob: until the job has ended ...
PollEnded(i) ==
  /\ cycle[i].at = "wait"
  /\ dogfoodJobs[cycle[i].job].status \in Final
  /\ Go(i, "envelope")
  /\ UNCHANGED <<dogfoodJobs, files, proSpaces, losses>>

\* ... or the time is over, and the job is left to itself
TimeOut(i) ==
  /\ cycle[i].at = "wait"
  /\ dogfoodJobs[cycle[i].job].status \notin Final
  /\ End(i, "broken")
  /\ UNCHANGED <<dogfoodJobs, files, proSpaces, losses>>

\* collectJobEvidence reads the envelope, then the logs and the artifacts.
ReadEnvelope(i) ==
  LET job == dogfoodJobs[cycle[i].job]
  IN  /\ cycle[i].at = "envelope"
      /\ cycle' = [cycle EXCEPT ![i].at = "evidence", ![i].tries = 0,
           ![i].seen = [status |-> job.status, trail |-> job.trail,
                        report |-> job.status = "succeeded" /\ job.of = 0]]
      /\ UNCHANGED <<dogfoodJobs, files, proSpaces, losses>>

ReadEvidence(i) ==
  /\ cycle[i].at = "evidence"
  /\ cycle' = [cycle EXCEPT ![i].at = "save", ![i].tries = 0,
                 ![i].seen.trail = @ \union dogfoodJobs[cycle[i].job].trail]
  /\ UNCHANGED <<dogfoodJobs, files, proSpaces, losses>>

\* summary.json; without waiting it is all there is to do, except for collect.
Save(i) ==
  /\ cycle[i].at = "save"
  /\ files' = [files EXCEPT ![cycle[i].job] =
       [by |-> i, mode |-> cycle[i].mode, status |-> cycle[i].seen.status, report |-> cycle[i].seen.report]]
  /\ IF cycle[i].waits \/ cycle[i].mode = "collect" THEN Go(i, "judge") ELSE End(i, "ok")
  /\ UNCHANGED <<dogfoodJobs, proSpaces, losses>>

\* assertHostedSandboxEvidence
Complete(seen) ==
  /\ {"launch", "stdout"} \subseteq seen.trail
  /\ seen.status = "succeeded" => "collect" \in seen.trail

JudgeCycle(i) ==
  /\ cycle[i].at = "judge"
  /\ End(i, IF Complete(cycle[i].seen) /\ (cycle[i].waits => cycle[i].seen.status = "succeeded")
            THEN "ok" ELSE "broken")
  /\ UNCHANGED <<dogfoodJobs, files, proSpaces, losses>>

-----------------------------------------------------------------------------
(* The product: a job's log tells of its launch, of its output, if it has  *)
(* any, and of the collection of its result.                               *)

Run(j, next, lines) ==
  /\ dogfoodJobs' = [dogfoodJobs EXCEPT ![j].status = next, ![j].trail = @ \union lines]
  /\ UNCHANGED <<cycle, files, proSpaces, losses>>

ProductStep(j) ==
  \/ dogfoodJobs[j].status = "queued" /\ Run(j, "running", {"launch"})
  \/ /\ dogfoodJobs[j].status = "running"
     /\ \/ "stdout" \notin dogfoodJobs[j].trail /\ Run(j, "running", {"stdout"})
        \/ Run(j, "succeeded", {"collect"})
  \/ dogfoodJobs[j].status \in {"queued", "running"} /\ \E s \in {"failed", "cancelled"} : Run(j, s, {})

CyclesNext ==
  \/ \E mode \in Modes, job \in 0 .. Len(dogfoodJobs), waits \in BOOLEAN : StartCycle(mode, job, waits)
  \/ \E i \in DOMAIN cycle :
       \/ LoseRequest(i) \/ Prepare(i) \/ FindWorkspace(i) \/ CreateWorkspace(i) \/ Upgrade(i)
       \/ CheckAccess(i) \/ Archive(i) \/ Upload(i) \/ Queue(i) \/ MakeDirectory(i)
       \/ DiskFails(i) \/ PollEnded(i) \/ TimeOut(i) \/ ReadEnvelope(i) \/ ReadEvidence(i)
       \/ Save(i) \/ JudgeCycle(i)
  \/ \E j \in DOMAIN dogfoodJobs : ProductStep(j)

-----------------------------------------------------------------------------
(* Properties *)

JobsOf(i) == {j \in DOMAIN dogfoodJobs : dogfoodJobs[j].by = i}

\* What the loop's commands say can be relied on.  Whatever answers were lost, a command
\* has queued one job at most, of the workspace it made sure is pro.  One that waited and
\* reported success leaves a job that succeeded, and a summary of it, unless another
\* command wrote the same file later.  A fix is queued for an audit that has a report.
\* The snapshot stays on the disk only when an audit failed before it had read anything of
\* its job, or written its summary.
CycleTellsItsJob ==
  /\ \A i \in DOMAIN cycle :
       /\ Cardinality(JobsOf(i)) <= 1
       /\ cycle[i].at = "ok" /\ cycle[i].waits =>
            /\ dogfoodJobs[cycle[i].job].status = "succeeded"
            /\ files[cycle[i].job].by = i => files[cycle[i].job].status = "succeeded"
       /\ cycle[i].at \in Ended /\ cycle[i].leftover =>
            /\ cycle[i].at = "broken" /\ cycle[i].mode = "analyze" /\ cycle[i].seen = Unread
            /\ \A j \in DOMAIN files : files[j].by # i
  /\ \A j \in DOMAIN dogfoodJobs :
       IF dogfoodJobs[j].of = 0 THEN proSpaces[dogfoodJobs[j].space]
       ELSE LET audit1 == dogfoodJobs[dogfoodJobs[j].of]
            IN  audit1.of = 0 /\ audit1.status = "succeeded"
=============================================================================
