----------------------------- MODULE JobResults -----------------------------
(***************************************************************************)
(* What finished jobs leave behind, apart from their own rows: the active  *)
(* learnables of a source, which every audit of it replaces, and the       *)
(* summary of a report, which every remediation of it reads and writes     *)
(* back whole, once when the job is created and once with its changeset.   *)
(***************************************************************************)
EXTENDS Naturals

CONSTANTS
  Audits,  \* analysis jobs of one source
  Fixes    \* remediation jobs of one report of that source

VARIABLES
  audit,        \* a worker's replaceSourceLearnables for each audit
  active,       \* audits with active SourceLearnable rows
  creation,     \* createRemediationJobForUser for each fix, with the summary it read
  storing,      \* the worker's two updates for each fix, with the summary it read
  summary,      \* summaryJson of the report
  jobChangeset, \* fixes whose metadata has a changeset
  lastReplaced, \* history: the last audit to commit
  lastStored,   \* history: the last fix whose changeset was written to the report
  mixed, lost   \* history: writers overlapped, of learnables and of changesets

resultVars == <<audit, active, creation, storing, summary, jobChangeset,
                lastReplaced, lastStored, mixed, lost>>
auditVars  == <<audit, active, lastReplaced, mixed>>
reportVars == <<creation, storing, summary, jobChangeset, lastStored, lost>>

Someone(set) == set \union {"none"}
Summaries == [changeset : Someone(Fixes), latest : Someone(Fixes)]
Blank     == [changeset |-> "none", latest |-> "none"]
Waiting   == [at |-> "waiting", read |-> {}]
NotYet    == [at |-> "none", read |-> Blank]

ResultsType ==
  /\ audit \in [Audits -> [at : {"waiting", "replacing", "ended"}, read : SUBSET Audits]]
  /\ active \subseteq Audits
  /\ creation \in [Fixes -> [at : {"none", "read", "inserted", "ended"}, read : Summaries]]
  /\ storing \in [Fixes -> [at : {"none", "stored", "read", "ended"}, read : Summaries]]
  /\ summary \in Summaries
  /\ jobChangeset \subseteq Fixes
  /\ lastReplaced \in Someone(Audits) /\ lastStored \in Someone(Fixes)
  /\ {mixed, lost} \subseteq BOOLEAN

ResultsInit ==
  /\ audit = [j \in Audits |-> Waiting]
  /\ active = {}
  /\ creation = [f \in Fixes |-> NotYet]
  /\ storing = [f \in Fixes |-> NotYet]
  /\ summary = Blank
  /\ jobChangeset = {}
  /\ lastReplaced = "none" /\ lastStored = "none"
  /\ mixed = FALSE /\ lost = FALSE

-----------------------------------------------------------------------------
(* replaceSourceLearnables: one transaction at READ COMMITTED.  updateMany  *)
(* deactivates the rows its statement sees; rows committed since stay.      *)

BeginReplace(j) ==
  /\ audit[j].at = "waiting"
  /\ audit' = [audit EXCEPT ![j] = [at |-> "replacing", read |-> active]]
  /\ UNCHANGED <<active, lastReplaced, mixed, reportVars>>

\* Mutant: a job deactivates only what it learned itself.
CommitOwn(j, found) ==
  /\ audit[j].at = "replacing"
  /\ active' = (active \ {j}) \union (IF found THEN {j} ELSE {})
  /\ audit' = [audit EXCEPT ![j].at = "ended"]
  /\ mixed' = (audit[j].read # active)
  /\ lastReplaced' = j
  /\ UNCHANGED reportVars

CommitReplace(j, found) ==
  /\ audit[j].at = "replacing"
  /\ active' = (active \ audit[j].read) \union (IF found THEN {j} ELSE {})
  /\ audit' = [audit EXCEPT ![j].at = "ended"]
  /\ mixed' = (audit[j].read # active)
  /\ lastReplaced' = j
  /\ UNCHANGED reportVars

\* The audit fails or its worker dies; an open transaction is rolled back.
AuditFails(j) ==
  /\ audit[j].at # "ended"
  /\ audit' = [audit EXCEPT ![j].at = "ended"]
  /\ UNCHANGED <<active, lastReplaced, mixed, reportVars>>

-----------------------------------------------------------------------------
(* createRemediationJobForUser, and the worker's storeRemediationJobChangeset *)
(* and storeReportChangeset                                                   *)

ReadReport(f) ==
  /\ creation[f].at = "none"
  /\ creation' = [creation EXCEPT ![f] = [at |-> "read", read |-> summary]]
  /\ UNCHANGED <<storing, summary, jobChangeset, lastStored, lost, auditVars>>

\* The job's row: from here on it may be dispatched and run.
InsertFix(f) ==
  /\ creation[f].at = "read"
  /\ creation' = [creation EXCEPT ![f].at = "inserted"]
  /\ UNCHANGED <<storing, summary, jobChangeset, lastStored, lost, auditVars>>

\* The summary of the first read, with this job as the latest.
NameLatest(f) ==
  /\ creation[f].at = "inserted"
  /\ summary' = [creation[f].read EXCEPT !.latest = f]
  /\ creation' = [creation EXCEPT ![f].at = "ended"]
  /\ lost' = (lost \/ creation[f].read.changeset # summary.changeset)
  /\ UNCHANGED <<storing, jobChangeset, lastStored, auditVars>>

\* The request dies, or one of its calls throws.
CreationFails(f) ==
  /\ creation[f].at \in {"read", "inserted"}
  /\ creation' = [creation EXCEPT ![f].at = IF @ = "read" THEN "none" ELSE "ended"]
  /\ UNCHANGED <<storing, summary, jobChangeset, lastStored, lost, auditVars>>

StoreJobChangeset(f) ==
  /\ creation[f].at \in {"inserted", "ended"} /\ storing[f].at = "none"
  /\ jobChangeset' = jobChangeset \union {f}
  /\ storing' = [storing EXCEPT ![f].at = "stored"]
  /\ UNCHANGED <<creation, summary, lastStored, lost, auditVars>>

ReadForChangeset(f) ==
  /\ storing[f].at = "stored"
  /\ storing' = [storing EXCEPT ![f] = [at |-> "read", read |-> summary]]
  /\ UNCHANGED <<creation, summary, jobChangeset, lastStored, lost, auditVars>>

\* A job id is passed, so nothing of the summary that was read matters.
StoreReportChangeset(f) ==
  /\ storing[f].at = "read"
  /\ summary' = [storing[f].read EXCEPT !.changeset = f, !.latest = f]
  /\ storing' = [storing EXCEPT ![f].at = "ended"]
  /\ lastStored' = f
  /\ lost' = FALSE
  /\ UNCHANGED <<creation, jobChangeset, auditVars>>

FixFails(f) ==
  /\ creation[f].at \in {"inserted", "ended"} /\ storing[f].at # "ended"
  /\ storing' = [storing EXCEPT ![f].at = "ended"]
  /\ UNCHANGED <<creation, summary, jobChangeset, lastStored, lost, auditVars>>

ResultsNext ==
  \/ \E j \in Audits :
       BeginReplace(j) \/ (\E found \in BOOLEAN : CommitReplace(j, found)) \/ AuditFails(j)
  \/ \E f \in Fixes :
       \/ ReadReport(f) \/ InsertFix(f) \/ NameLatest(f) \/ CreationFails(f)
       \/ StoreJobChangeset(f) \/ ReadForChangeset(f) \/ StoreReportChangeset(f) \/ FixFails(f)

-----------------------------------------------------------------------------
(* Properties *)

\* Learnables never add up over audits, and creating a remediation never takes back
\* the changeset of another one, except where the two overlapped; and the changeset of
\* a report is always one that its job has too.
LastResultStands ==
  /\ mixed \/ active \subseteq {lastReplaced}
  /\ lost \/ summary.changeset = lastStored
  /\ summary.changeset \in Someone(jobChangeset)
=============================================================================
