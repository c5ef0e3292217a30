-------------------------- MODULE ArtifactStorage --------------------------
(***************************************************************************)
(* The files a job leaves behind: put into the object storage and its      *)
(* mirror at once, filed as rows when the job ends, downloaded from either *)
(* store, and deleted with their rows when they are too old.  A promise    *)
(* that is rejected before anything awaits it ends the process.            *)
(***************************************************************************)
EXTENDS Naturals

CONSTANTS
  Files,     \* a job's files
  MaxFaults  \* bound: requests a store fails, and deaths of processes

Stores == {"primary", "mirror"}

ASSUME FaultsAssumption == MaxFaults \in Nat

VARIABLES
  mirroring, \* the mirror: "none", "optional", "required"
  copies,    \* of each store: the files it has
  ending,    \* the job: "running", "filed", "failed"
  put,       \* the worker's transfer to the stores
  filed,     \* files with a row of ArtifactReference
  aged,      \* are the rows older than the cutoff?
  purge,     \* the API's retention run: the files it found, those it has still to delete
  removing,  \* its transfer
  strays,    \* requests to the mirror that nobody awaits: the transfer, and the file
  reader,    \* a download
  faults,
  touched,   \* history: files that a retention run has found
  hurt       \* history: files of which a transfer failed or was left by a process that died

storageVars ==
  <<mirroring, copies, ending, put, filed, aged, purge, removing, strays, reader, faults,
    touched, hurt>>

NoTransfer == [of |-> "none", primary |-> "done", mirror |-> "done"]
NoPurge == [at |-> "idle", found |-> {}, left |-> {}]
NotReading == [at |-> "none", of |-> "none", failed |-> FALSE]

Transfers ==
  [of : Files \union {"none"}, primary : {"asked", "done", "failed"},
   mirror : {"asked", "done", "failed"}]

StorageType ==
  /\ mirroring \in {"none", "optional", "required"}
  /\ copies \in [Stores -> SUBSET Files]
  /\ ending \in {"running", "filed", "failed"}
  /\ {put, removing} \subseteq Transfers
  /\ {filed, touched, hurt} \subseteq SUBSET Files /\ aged \in BOOLEAN
  /\ purge \in [at : {"idle", "objects", "rows"}, found : SUBSET Files, left : SUBSET Files]
  /\ strays \subseteq {"put", "remove"} \X Files
  /\ reader \in [at : {"none", "primary", "mirror", "served", "missing"},
                 of : Files \union {"none"}, failed : BOOLEAN]
  /\ faults \in 0 .. MaxFaults

StorageInit ==
  /\ mirroring \in {"none", "optional", "required"}
  /\ copies = [s \in Stores |-> {}]
  /\ ending = "running" /\ put = NoTransfer
  /\ filed = {} /\ aged = FALSE
  /\ purge = NoPurge /\ removing = NoTransfer /\ strays = {}
  /\ reader = NotReading
  /\ faults = 0 /\ touched = {} /\ hurt = {}

-----------------------------------------------------------------------------
(* A transfer asks both stores at once *)

AskedBoth(f) ==
  [of |-> f, primary |-> "asked", mirror |-> IF mirroring = "none" THEN "done" ELSE "asked"]

\* What requests of one kind do to the stores.
Carried(op, where, f) ==
  [s \in Stores |-> IF s \notin where THEN copies[s]
                    ELSE IF op = "put" THEN copies[s] \union {f} ELSE copies[s] \ {f}]

\* Requests whose outcome nobody learns.
LeftToStores(op, where, f) == {Carried(op, w, f) : w \in SUBSET where}

\* A store carries a request out, or fails it, when its answer may be lost; a process that
\* the failure ends leaves its other requests to the stores.
StoreAnswers(op, s, f, answer, left, harmed) ==
  \/ answer = "done" /\ copies' = Carried(op, {s}, f) /\ UNCHANGED <<faults, hurt>>
  \/ /\ answer = "failed" /\ faults < MaxFaults
     /\ faults' = faults + 1 /\ hurt' = hurt \union harmed
     /\ copies' \in LeftToStores(op, {s} \union left, f)

\* The mirror's rejection is thrown on when the mirror is required; nothing awaits it before
\* the primary store has answered, nor after that one has failed.
Unhandled(t, s, answer) ==
  s = "mirror" /\ answer = "failed" /\ mirroring = "required" /\ t.primary # "done"

Rejected(t) == t.primary = "failed" \/ (t.mirror = "failed" /\ mirroring = "required")

\* Mutant: what the mirror answers is not waited for.
AnswersFromPrimary(t) == t.primary # "asked"

\* putObjectFromFile and deleteObject are over.
Answered(t) == t.primary = "failed" \/ (t.primary = "done" /\ t.mirror # "asked")

Unanswered(t) == {s \in Stores : t[s] = "asked"}

\* After a failure of the primary store the mirror's request goes on.
LeftBehind(op, t) == IF t.mirror = "asked" THEN {<<op, t.of>>} ELSE {}

-----------------------------------------------------------------------------
(* The worker's job *)

Stored == copies["primary"]

BeginPut(f) ==
  /\ ending = "running" /\ put = NoTransfer /\ f \notin Stored
  /\ put' = AskedBoth(f)
  /\ UNCHANGED <<mirroring, copies, ending, filed, aged, purge, removing, strays, reader, faults,
                 touched, hurt>>

\* A transfer that throws, or kills the worker, fails the job; what it has stored stays.
AnswerPut(s) ==
  /\ put[s] = "asked"
  /\ \E answer \in {"done", "failed"} :
       LET t == [put EXCEPT ![s] = answer] IN
       /\ StoreAnswers("put", s, put.of, answer,
                       IF Unhandled(put, s, answer) THEN Unanswered(t) ELSE {},
                       IF Unhandled(put, s, answer) \/ Rejected(t) THEN Files ELSE {put.of})
       /\ IF Unhandled(put, s, answer) \/ (Answered(t) /\ Rejected(t))
          THEN /\ ending' = "failed" /\ put' = NoTransfer
               /\ strays' = IF Unhandled(put, s, answer) THEN strays
                            ELSE strays \union LeftBehind("put", t)
          ELSE /\ put' = IF Answered(t) THEN NoTransfer ELSE t
               /\ UNCHANGED <<ending, strays>>
  /\ UNCHANGED <<mirroring, filed, aged, purge, removing, reader, touched>>

\* The job ends; its rows are written in one transaction.
FileArtifacts ==
  /\ ending = "running" /\ put = NoTransfer /\ Stored = Files
  /\ ending' = "filed" /\ filed' = Files
  /\ UNCHANGED <<mirroring, copies, put, aged, purge, removing, strays, reader, faults, touched,
                 hurt>>

\* The worker dies, or the job fails for another reason.
EndWithoutRows ==
  /\ ending = "running" /\ faults < MaxFaults /\ faults' = faults + 1
  /\ ending' = "failed" /\ put' = NoTransfer /\ hurt' = Files
  /\ copies' \in LeftToStores("put", Unanswered(put), put.of)
  /\ UNCHANGED <<mirroring, filed, aged, purge, removing, strays, reader, touched>>

-----------------------------------------------------------------------------
(* Retention: once a day, and at every start of the API *)

PassCutoff ==
  /\ filed # {} /\ ~ aged /\ aged' = TRUE
  /\ UNCHANGED <<mirroring, copies, ending, put, filed, purge, removing, strays, reader, faults,
                 touched, hurt>>

BeginPurge ==
  /\ purge = NoPurge
  /\ LET found == IF aged THEN filed ELSE {}
     IN  /\ found # {}
         /\ purge' = [at |-> "objects", found |-> found, left |-> found]
         /\ touched' = touched \union found
  /\ UNCHANGED <<mirroring, copies, ending, put, filed, aged, removing, strays, reader, faults,
                 hurt>>

BeginRemoval(f) ==
  /\ purge.at = "objects" /\ removing = NoTransfer /\ f \in purge.left
  /\ removing' = AskedBoth(f)
  /\ UNCHANGED <<mirroring, copies, ending, put, filed, aged, purge, strays, reader, faults,
                 touched, hurt>>

\* A deletion that throws is only logged; its row goes as well.
AnswerRemoval(s) ==
  /\ removing[s] = "asked"
  /\ \E answer \in {"done", "failed"} :
       LET t == [removing EXCEPT ![s] = answer] IN
       /\ StoreAnswers("remove", s, removing.of, answer,
                       IF Unhandled(removing, s, answer) THEN Unanswered(t) ELSE {}, {removing.of})
       /\ IF Unhandled(removing, s, answer)
          THEN purge' = NoPurge /\ removing' = NoTransfer /\ UNCHANGED strays
          ELSE IF Answered(t)
          THEN /\ purge' = [purge EXCEPT !.left = @ \ {t.of}] /\ removing' = NoTransfer
               /\ strays' = strays \union LeftBehind("remove", t)
          ELSE removing' = t /\ UNCHANGED <<purge, strays>>
  /\ UNCHANGED <<mirroring, ending, put, filed, aged, reader, touched>>

DeleteRows ==
  /\ purge.at = "objects" /\ purge.left = {}
  /\ filed' = filed \ purge.found /\ purge' = NoPurge
  /\ UNCHANGED <<mirroring, copies, ending, put, aged, removing, strays, reader, faults, touched,
                 hurt>>

\* The API dies; the next one begins a run of its own.
DieInPurge ==
  /\ purge # NoPurge /\ faults < MaxFaults /\ faults' = faults + 1
  /\ purge' = NoPurge /\ removing' = NoTransfer
  /\ copies' \in LeftToStores("remove", Unanswered(removing), removing.of)
  /\ hurt' = hurt \union {f \in Files : f = removing.of}
  /\ UNCHANGED <<mirroring, ending, put, filed, aged, strays, reader, touched>>

\* The mirror answers a request that nobody awaits; a rejection ends the process.
EndStray(op, f) ==
  /\ <<op, f>> \in strays /\ strays' = strays \ {<<op, f>>}
  /\ \E answer \in {"done", "failed"} :
       LET ends == answer = "failed" /\ mirroring = "required" /\ op = "remove" IN
       /\ StoreAnswers(op, "mirror", f, answer, {}, {f} \union (IF ends THEN purge.left ELSE {}))
       /\ IF ends THEN purge' = NoPurge /\ removing' = NoTransfer ELSE UNCHANGED <<purge,
                                                                                   removing>>
  /\ UNCHANGED <<mirroring, ending, put, filed, aged, reader, touched>>

-----------------------------------------------------------------------------
(* Downloads *)

BeginDownload(f) ==
  /\ f \in filed /\ reader.at \in {"none", "served", "missing"}
  /\ reader' = [at |-> "primary", of |-> f, failed |-> FALSE]
  /\ UNCHANGED <<mirroring, copies, ending, put, filed, aged, purge, removing, strays, faults,
                 touched, hurt>>

\* The mirror is asked only when the primary store has not the file or does not answer.
AskStore(s) ==
  /\ reader.at = s
  /\ \/ /\ reader.of \in copies[s]
        /\ reader' = [reader EXCEPT !.at = "served"] /\ UNCHANGED faults
     \/ \E broken \in BOOLEAN :
          /\ IF broken THEN faults < MaxFaults /\ faults' = faults + 1
             ELSE reader.of \notin copies[s] /\ UNCHANGED faults
          /\ reader' = [reader EXCEPT !.failed = @ \/ broken,
                          !.at = IF s = "primary" /\ mirroring # "none" THEN "mirror" ELSE "missing"]
  /\ UNCHANGED <<mirroring, copies, ending, put, filed, aged, purge, removing, strays, touched,
                 hurt>>

StorageNext ==
  \/ \E f \in Files : BeginPut(f) \/ BeginRemoval(f) \/ BeginDownload(f)
  \/ \E f \in Files, op \in {"put", "remove"} : EndStray(op, f)
  \/ \E s \in Stores : AnswerPut(s) \/ AnswerRemoval(s) \/ AskStore(s)
  \/ FileArtifacts \/ EndWithoutRows \/ PassCutoff \/ BeginPurge \/ DeleteRows \/ DieInPurge

-----------------------------------------------------------------------------

\* A file with a row is in the primary store, and in the mirror if that is required, until a
\* retention run has found it; a download finds no copy only if a store failed or such a run
\* came first; and once nothing is under way, a file whose transfers all went well is in a
\* store only if it has a row.
FilesFollowRows ==
  /\ \A f \in filed \ touched :
       f \in copies["primary"] /\ (mirroring = "required" => f \in copies["mirror"])
  /\ reader.at = "missing" /\ ~ reader.failed => reader.of \in touched
  /\ ending # "running" /\ purge = NoPurge /\ strays = {} =>
       \A f \in Files \ hurt : f \in copies["primary"] \union copies["mirror"] => f \in filed
=============================================================================
