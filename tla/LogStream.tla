----------------------------- MODULE LogStream ------------------------------
(***************************************************************************)
(* streamLogs: one viewer of a job's logs over server-sent events.  A poll *)
(* reads the job's envelope, then the rows after the last one it sent; the *)
(* stream ends after a poll that has read a final status.  A stream that   *)
(* breaks is opened again by the browser, which sends the id of the last   *)
(* row it got.                                                             *)
(***************************************************************************)
EXTENDS LogTable

VARIABLES
  poll,       \* "idle", "rows" between the two reads, "done"
  envelope,   \* the status the poll has read
  cursor,     \* the place of lastEventId
  sent        \* rows the viewer got, in order

streamVars == <<poll, envelope, cursor, sent>>

StreamInit ==
  /\ poll = "idle"
  /\ envelope = "running"
  /\ cursor = 0
  /\ sent = <<>>

StreamType ==
  /\ poll \in {"idle", "rows", "done"}
  /\ envelope \in FinalStatuses \union {"running"}
  /\ cursor \in 0 .. Len(born)
  /\ sent \in Seq(Logs)

\* Mutant: the rows are read before the status.
ReadRowsFirst ==
  /\ poll = "idle"
  /\ LET rows == Ordered(RowsAfter(cursor))
     IN  /\ sent' = sent \o rows
         /\ cursor' = IF rows = <<>> THEN cursor ELSE Place(Last(rows))
  /\ envelope' = "running"
  /\ poll' = "rows"
  /\ UNCHANGED tableVars

\* Mutant: what the rows read first are followed by.
ReadStatusLast ==
  /\ poll = "rows"
  /\ envelope' = "running"
  /\ poll' = IF status \in FinalStatuses THEN "done" ELSE "idle"
  /\ UNCHANGED <<tableVars, cursor, sent>>

\* Mutant: the two reads in the other order.
PollRowsFirst == ReadRowsFirst \/ ReadStatusLast

\* getJobEnvelopeForUser
ReadStatus ==
  /\ poll = "idle"
  /\ envelope' = status
  /\ poll' = "rows"
  /\ UNCHANGED <<tableVars, cursor, sent>>

\* The rows, the status event, and the end of the stream after a final status.
SendRows ==
  /\ poll = "rows"
  /\ LET rows == Ordered(RowsAfter(cursor))
     IN  /\ sent' = sent \o rows
         /\ cursor' = IF rows = <<>> THEN cursor ELSE Place(Last(rows))
  /\ poll' = IF envelope \in FinalStatuses THEN "done" ELSE "idle"
  /\ envelope' = "running"
  /\ UNCHANGED tableVars

\* A read throws or the connection breaks; the browser comes back with its cursor.
Reconnect ==
  /\ poll = "rows"
  /\ poll' = "idle"
  /\ envelope' = "running"
  /\ UNCHANGED <<tableVars, cursor, sent>>

Poll == ReadStatus \/ SendRows

-----------------------------------------------------------------------------
(* Properties *)

\* A viewer that stays to the end has got, once and in order of creation, every row
\* that was committed before the job ended and before any younger row.  (Of the
\* others the code promises nothing: a row behind the cursor is never sent.)
StreamComplete ==
  /\ \A i, j \in DOMAIN sent : i < j => Place(sent[i]) < Place(sent[j])
  /\ poll = "done" => inOrder \subseteq ToSet(sent)
=============================================================================
