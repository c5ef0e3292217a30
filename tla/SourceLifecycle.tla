-------------------------- MODULE SourceLifecycle --------------------------
(***************************************************************************)
(* A source of a workspace: added, verified in the background, removed.    *)
(* Each API process has a map of the verifications it runs, one per        *)
(* source; nothing ties those of two processes together.  A verification   *)
(* writes "pending", talks to GitHub or git, and writes its result, for a  *)
(* source that others may have marked or deleted meanwhile.                *)
(***************************************************************************)
EXTENDS GithubIntegration

CONSTANTS
  Processes,    \* API processes
  MaxFailures   \* bound on crashes and throwing calls

ASSUME SourceAssumption == Processes # {} /\ MaxFailures \in Nat

VARIABLES
  check,      \* sourceVerificationJobs of each process: its await, or "none"
  creating,   \* createSourceForUser has found the installation
  jobs,       \* some job of the source has a row
  submitting, \* createAnalysisJobForUser has found the source ready
  deleting,   \* deleteSourceForUser has counted no job
  failures

sourceVars == <<githubVars, check, creating, jobs, submitting, deleting, failures>>
requestVars   == <<creating, jobs, submitting, deleting>>

\* What a verification awaits: the row of its installation, the remote repository,
\* or the update that writes how it went.
Checks == {"none", "link", "remote", "passed", "rejected"}

SourceType ==
  /\ GithubType
  /\ check \in [Processes -> Checks]
  /\ {creating, jobs, submitting, deleting} \subseteq BOOLEAN
  /\ failures \in 0 .. MaxFailures
  /\ jobs => Exists

SourceInit ==
  /\ GithubInit
  /\ check = [p \in Processes |-> "none"]
  /\ creating = FALSE /\ jobs = FALSE /\ submitting = FALSE /\ deleting = FALSE
  /\ failures = 0

Fails == failures < MaxFailures /\ failures' = failures + 1

-----------------------------------------------------------------------------
(* scheduleSourceVerification and verifySourceForUser *)

\* A verification asked of a process that has none: "pending" is written first.
StartCheck(p) ==
  /\ check[p] = "none"
  /\ SetStatus("pending")
  /\ excused' = FALSE
  /\ check' = [check EXCEPT ![p] =
                 IF source.type = "github-private" THEN "link" ELSE "remote"]
  /\ UNCHANGED <<link, removal, requestVars, failures>>

\* Mutant: only what failed is verified again.
OnlyFailed(p) == source.status = "failed" /\ StartCheck(p)

\* GET .../sources: what is still pending is verified again.
ListSources(p) == source.status = "pending" /\ StartCheck(p)

\* POST .../verify, and a new public source.
RequestCheck(p) == source.status \in {"verified", "failed"} /\ StartCheck(p)

FindInstallation(p) ==
  /\ check[p] = "link"
  /\ check' = [check EXCEPT ![p] = IF link = "here" THEN "remote" ELSE "rejected"]
  /\ UNCHANGED <<githubVars, requestVars, failures>>

\* GitHub, git or the archive cache answers.
AskRemote(p) ==
  /\ check[p] = "remote"
  /\ \E answer \in {"passed", "rejected"} : check' = [check EXCEPT ![p] = answer]
  /\ UNCHANGED <<githubVars, requestVars, failures>>

\* The update writes the result.  One that throws while it writes "verified" leads to
\* "failed", another one ends the verification; that of a deleted row always throws.
WriteResult(p) ==
  /\ check[p] \in {"passed", "rejected"}
  /\ \/ /\ check[p] = "passed" /\ SetStatus("verified")
        /\ check' = [check EXCEPT ![p] = "none"]
        /\ excused' = Uncertain
        /\ UNCHANGED failures
     \/ /\ check[p] = "rejected" /\ SetStatus("failed")
        /\ check' = [check EXCEPT ![p] = "none"]
        /\ excused' = FALSE
        /\ UNCHANGED failures
     \/ /\ check[p] = "passed"
        /\ Fails \/ (~ Exists /\ UNCHANGED failures)
        /\ check' = [check EXCEPT ![p] = "rejected"]
        /\ UNCHANGED <<source, excused>>
     \/ /\ check[p] = "rejected"
        /\ Fails \/ (~ Exists /\ UNCHANGED failures)
        /\ check' = [check EXCEPT ![p] = "none"]
        /\ UNCHANGED <<source, excused>>
  /\ UNCHANGED <<link, removal, requestVars>>

CheckStep(p) == FindInstallation(p) \/ AskRemote(p) \/ WriteResult(p)

-----------------------------------------------------------------------------
(* Other requests *)

\* createSourceForUser of a private repository: find the installation ...
FindForCreation ==
  /\ ~ Exists /\ ~ creating
  /\ source.type = "github-private" /\ link = "here"
  /\ creating' = TRUE
  /\ UNCHANGED <<githubVars, check, jobs, submitting, deleting, failures>>

\* ... ask GitHub, and insert the row as verified, or give up.
InsertPrivate ==
  /\ creating
  /\ creating' = FALSE
  /\ \/ /\ source' = [source EXCEPT !.status = "verified"]
        /\ excused' = Uncertain
     \/ UNCHANGED <<source, excused>>
  /\ UNCHANGED <<link, removal, check, jobs, submitting, deleting, failures>>

\* createSourceForUser of a public repository; createUploadSourceForUser.
InsertSource ==
  /\ ~ Exists
  /\ \/ /\ source.type = "git-public"
        /\ source' = [source EXCEPT !.status = "pending"]
     \/ /\ source.type = "upload-archive"
        /\ source' = [source EXCEPT !.status = "verified"]
  /\ UNCHANGED <<link, removal, excused, check, requestVars, failures>>

\* createAnalysisJobForUser: the source is ready ...
FindReady ==
  /\ source.status = "verified" /\ ~ submitting
  /\ submitting' = TRUE
  /\ UNCHANGED <<githubVars, check, creating, jobs, deleting, failures>>

\* Mutant: the row is inserted whatever has become of the source.
InsertOrphan ==
  /\ submitting
  /\ submitting' = FALSE
  /\ jobs' = TRUE
  /\ UNCHANGED <<githubVars, check, creating, deleting, failures>>

\* ... and the job is inserted, unless its source is gone.
InsertJob ==
  /\ submitting
  /\ submitting' = FALSE
  /\ jobs' = (jobs \/ Exists)
  /\ UNCHANGED <<githubVars, check, creating, deleting, failures>>

\* deleteSourceForUser: no job refers to the source ...
CountJobs ==
  /\ Exists /\ ~ jobs /\ ~ deleting
  /\ deleting' = TRUE
  /\ UNCHANGED <<githubVars, check, creating, jobs, submitting, failures>>

\* ... the stored archive goes, which may throw, and then the row, with the jobs
\* inserted since the count.
DeleteSource ==
  /\ deleting
  /\ deleting' = FALSE
  /\ \/ source' = [source EXCEPT !.status = "none"] /\ jobs' = FALSE /\ excused' = FALSE
     \/ UNCHANGED <<source, jobs, excused>>
  /\ UNCHANGED <<link, removal, check, creating, submitting, failures>>

RequestStep ==
  \/ FindForCreation \/ InsertPrivate \/ InsertSource
  \/ FindReady \/ InsertJob \/ CountJobs \/ DeleteSource

\* A process dies with the verifications it runs.
Crash(p) ==
  /\ check[p] # "none"
  /\ Fails
  /\ check' = [check EXCEPT ![p] = "none"]
  /\ UNCHANGED <<githubVars, requestVars>>

SourceNext ==
  \/ GithubStep /\ UNCHANGED <<check, requestVars, failures>>
  \/ AbandonRemoval /\ Fails /\ UNCHANGED <<check, requestVars>>
  \/ \E p \in Processes : ListSources(p) \/ RequestCheck(p) \/ CheckStep(p) \/ Crash(p)
  \/ RequestStep

-----------------------------------------------------------------------------
(* Properties *)

\* A pending source does not stay pending, whatever broke off or threw, as long as
\* somebody lists the workspace's sources.
PendingSourceSettles == (source.status = "pending") ~> (source.status # "pending")
=============================================================================
