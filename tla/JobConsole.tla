----------------------------- MODULE JobConsole -----------------------------
(***************************************************************************)
(* The page of a job (JobLogConsole).  Its effect fetches the job and, if  *)
(* the job has not ended, opens a stream, whose server sends the job's     *)
(* rows from the first one on (streamLogs).  A retry, another verbosity or *)
(* new properties clean up the effect and run it again, while the fetch of *)
(* the old one may still be answered.  A row is a log or a step of the     *)
(* job; rows that come after the job's end are left to LogStream.          *)
(***************************************************************************)
EXTENDS Naturals, Sequences

CONSTANTS
  MaxRows,     \* bound on the job's rows
  MaxEffects   \* bound on the runs of the effect

ASSUME ConsoleAssumption == {MaxRows, MaxEffects} \subseteq Nat \ {0}

VARIABLES
  jobState,  \* the job's: "running" or how it ended
  rows,      \* how many rows it has
  effect,    \* of each run of the effect: where it is, and what the fetch has read
  current,   \* the run that is not cleaned up
  stream,    \* the current run's: rows sent, status sent, and events on their way
  shown,     \* status, rows and last step the page shows
  issue      \* streamIssue

consoleVars == <<jobState, rows, effect, current, stream, shown, issue>>

ConsoleRuns == 1 .. MaxEffects
JobEndings  == {"succeeded", "failed"}
NoStream    == [sent |-> 0, status |-> "none", events |-> <<>>]
Page(status, seen, step) == [status |-> status, rows |-> seen, step |-> step]
Truth       == Page(jobState, 1 .. rows, rows)

ConsoleType ==
  /\ jobState \in JobEndings \union {"running"}
  /\ rows \in 0 .. MaxRows
  /\ \A e \in ConsoleRuns : effect[e].at \in {"none", "asked", "answered", "open", "closed"}
  /\ current \in ConsoleRuns
  /\ shown.rows \subseteq 1 .. MaxRows /\ shown.step \in 0 .. MaxRows
  /\ issue \in BOOLEAN

\* The server rendered the page with what the job then was.
ConsoleInit ==
  /\ jobState \in JobEndings \union {"running"} /\ rows \in 0 .. 1
  /\ effect = [e \in ConsoleRuns |-> [at |-> IF e = 1 THEN "asked" ELSE "none", read |-> Truth]]
  /\ current = 1
  /\ stream = NoStream
  /\ shown = Truth
  /\ issue = FALSE

-----------------------------------------------------------------------------
(* The job, and the API *)

JobAdvances ==
  /\ jobState = "running"
  /\ \/ rows < MaxRows /\ rows' = rows + 1 /\ UNCHANGED jobState
     \/ jobState' \in JobEndings /\ UNCHANGED rows
  /\ UNCHANGED <<effect, current, stream, shown, issue>>

\* GET /api/jobs/:jobId
AnswerFetch(e) ==
  /\ effect[e].at = "asked"
  /\ effect' = [effect EXCEPT ![e] = [at |-> "answered", read |-> Truth]]
  /\ UNCHANGED <<jobState, rows, current, stream, shown, issue>>

\* The route of the stream reads the job, and streamLogs sends its status.
OpenStream ==
  /\ effect[current].at = "open" /\ stream.status = "none"
  /\ stream' = [stream EXCEPT !.status = jobState, !.events = <<[is |-> "status", value |-> jobState]>>]
  /\ UNCHANGED <<jobState, rows, effect, current, shown, issue>>

\* A poll of streamLogs: the new rows, the status when it has changed, the end.
SendEvents ==
  /\ effect[current].at = "open" /\ stream.status # "none" /\ stream.events = <<>>
  /\ stream' =
       [sent   |-> rows,
        status |-> jobState,
        events |-> [i \in 1 .. rows - stream.sent |-> [is |-> "row", value |-> stream.sent + i]]
                   \o (IF jobState # stream.status THEN <<[is |-> "status", value |-> jobState]>> ELSE <<>>)
                   \o (IF jobState \in JobEndings THEN <<[is |-> "complete", value |-> jobState]>> ELSE <<>>)]
  /\ UNCHANGED <<jobState, rows, effect, current, shown, issue>>

-----------------------------------------------------------------------------
(* The page *)

\* A job that had not ended when the fetch read it has a stream opened for it.
Follow(e) ==
  /\ effect' = [effect EXCEPT ![e].at = IF effect[e].read.status \in JobEndings THEN "closed" ELSE "open"]
  /\ shown' = effect[e].read
  /\ issue' = FALSE
  /\ stream' = NoStream

\* Mutant: the answer counts although the run was cleaned up.
TakeEveryAnswer(e) ==
  /\ effect[e].at = "answered"
  /\ Follow(e)
  /\ UNCHANGED <<jobState, rows, current>>

\* syncLogs with the answer; nothing when the run was cleaned up (cancelled).
TakeAnswer(e) ==
  /\ effect[e].at = "answered"
  /\ IF e = current THEN Follow(e)
     ELSE effect' = [effect EXCEPT ![e].at = "closed"] /\ UNCHANGED <<stream, shown, issue>>
  /\ UNCHANGED <<jobState, rows, current>>

\* The fetch fails, or what it brings cannot be read.
FetchFails(e) ==
  /\ effect[e].at \in {"asked", "answered"}
  /\ effect' = [effect EXCEPT ![e].at = "closed"]
  /\ issue' = (issue \/ e = current)
  /\ UNCHANGED <<jobState, rows, current, stream, shown>>

\* The listeners for log, status and complete.
TakeEvent ==
  /\ effect[current].at = "open" /\ stream.events # <<>>
  /\ LET event == Head(stream.events)
     IN  /\ shown' = IF event.is = "row"
                     THEN Page(shown.status, shown.rows \union {event.value}, event.value)
                     ELSE [shown EXCEPT !.status = event.value]
         /\ effect' = IF event.is = "complete" THEN [effect EXCEPT ![current].at = "closed"] ELSE effect
  /\ stream' = [stream EXCEPT !.events = Tail(@)]
  /\ issue' = FALSE
  /\ UNCHANGED <<jobState, rows, current>>

\* The listener for error closes the stream: the browser does not open it again.
StreamBreaks ==
  /\ effect[current].at = "open"
  /\ effect' = [effect EXCEPT ![current].at = "closed"]
  /\ stream' = NoStream
  /\ issue' = TRUE
  /\ UNCHANGED <<jobState, rows, current, shown>>

\* The clean-up, and the next run; a user who asks for it dismisses the issue.
RunEffectAgain ==
  /\ current < MaxEffects
  /\ current' = current + 1
  /\ effect' = [effect EXCEPT ![current].at = IF @ = "open" THEN "closed" ELSE @,
                              ![current + 1].at = "asked"]
  /\ stream' = NoStream
  /\ issue' \in {issue, FALSE}
  /\ UNCHANGED <<jobState, rows, shown>>

ConsoleNext ==
  \/ JobAdvances \/ OpenStream \/ SendEvents \/ TakeEvent \/ StreamBreaks \/ RunEffectAgain
  \/ \E e \in ConsoleRuns : AnswerFetch(e) \/ TakeAnswer(e) \/ FetchFails(e)

-----------------------------------------------------------------------------
(* Properties *)

\* A page that follows nothing any more and warns of nothing shows how the job ended,
\* with all of its rows and its last step: whatever runs of the effect overlapped, and
\* although the stream sends rows again that the fetch had brought.
QuietConsoleIsRight ==
  effect[current].at = "closed" /\ ~issue => jobState \in JobEndings /\ shown = Truth
=============================================================================
