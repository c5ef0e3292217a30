------------------------------ MODULE LogTable ------------------------------
(***************************************************************************)
(* The AnalysisJobLog rows of one job, with the job's status.  A row is    *)
(* inserted some time after its log was created, but rows are read in the  *)
(* order of creation (createdAt, id), and a reader goes on after the last  *)
(* row it has seen.                                                        *)
(***************************************************************************)
EXTENDS Naturals, Sequences, FiniteSets, SequencesExt

CONSTANT NumLines   \* bound on the log lines of the sandbox

ASSUME NumLinesAssumption == NumLines \in Nat \ {0}

VARIABLES
  status,   \* the job's
  born,     \* logs created, in order
  stored,   \* logs with a row
  inOrder   \* history: those inserted before the end and before any younger one

tableVars == <<status, born, stored, inOrder>>

Lines == {"sandbox"} \X (1 .. NumLines)
\* The controller's step logs: launch, wait and collect.
Steps == {"controller"} \X (1 .. 3)
Logs  == Lines \union Steps

FinalStatuses == {"succeeded", "failed", "cancelled"}

TableInit ==
  /\ status = "running"
  /\ born = <<>>
  /\ stored = {}
  /\ inOrder = {}

TableType ==
  /\ status \in FinalStatuses \union {"running"}
  /\ born \in Seq(Logs) /\ IsInjective(born)
  /\ stored \subseteq ToSet(born)
  /\ inOrder \subseteq stored

Place(log) == CHOOSE i \in DOMAIN born : born[i] = log

Created(kind) == {log \in ToSet(born) : log[1] = kind}

\* createManyLogs with skipDuplicates.
Insert(rows) ==
  /\ stored' = stored \union rows
  /\ inOrder' = inOrder \union
       {r \in rows \ stored :
          /\ status = "running"
          /\ \A q \in stored : q \in ToSet(born) /\ r \in ToSet(born) => Place(q) < Place(r)}

\* listJobLogsAfterWithVisibility for the cursor at place n; 0 is no cursor.
RowsAfter(n) == {r \in stored : Place(r) > n}

\* orderBy: the n-th of these rows is the one that has n of them up to its place.
Ordered(rows) ==
  [n \in 1 .. Cardinality(rows) |->
     CHOOSE r \in rows : Cardinality({q \in rows : Place(q) <= Place(r)}) = n]
=============================================================================
