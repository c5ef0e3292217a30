--------------------------- MODULE HandoffExecution ---------------------------
(***************************************************************************)
(* executeStandardizedHandoff: inside the sandbox, the worker installs and *)
(* starts the audited application, waits until it answers, runs its        *)
(* Playwright command, opens a browser, walks over its pages and stops     *)
(* everything it started, whatever went wrong.  The application is a shell *)
(* in a process group of its own with a server that may be the shell, a    *)
(* child the shell waits for, or a child in its background.                *)
(***************************************************************************)
EXTENDS Naturals, FiniteSets

CONSTANTS
  Urls,     \* normalized URLs of the audited application
  MaxPages  \* MAX_BROWSER_QA_PAGES

ASSUME HandoffAssumption == MaxPages \in Nat

VARIABLES
  stage,     \* where executeStandardizedHandoff is
  app,       \* how the server hangs on the shell, and whether it ignores SIGTERM
  shell,     \* the process the worker spawned
  server,
  signalled, \* SIGTERM was sent to the group
  browser,
  sections,  \* of each title: its status in what is returned
  issues,    \* severities of the findings that are returned
  queued, visited, pages  \* of the walk: the queue, what was tried, what was seen

handoffVars == <<stage, app, shell, server, signalled, browser, sections, issues,
                 queued, visited, pages>>
processVars == <<app, shell, server, signalled>>
walkVars    == <<queued, visited, pages>>
outputVars  == <<sections, issues>>

Severities == {"high", "medium", "low"}
Titles     == {"runtime", "suite", "browserQa"}
Running    == {"booting", "suite", "launching", "walking"}

HandoffType ==
  /\ stage \in Running \union {"entry", "closing", "terminating", "returned", "threw"}
  /\ app \in [shape : {"shell", "child", "background"}, deaf : BOOLEAN]
  /\ shell \in {"none", "running", "exited"}
  /\ server \in {"none", "starting", "up", "gone"}
  /\ signalled \in BOOLEAN
  /\ browser \in {"none", "open", "closed"}
  /\ sections \in [Titles -> {"none", "planned", "skipped", "ready"}]
  /\ issues \subseteq Severities
  /\ {queued, visited, pages} \subseteq SUBSET Urls
  /\ Cardinality(pages) <= MaxPages

HandoffInit ==
  /\ stage = "entry"
  /\ app \in [shape : {"shell", "child", "background"}, deaf : BOOLEAN]
  /\ shell = "none" /\ server = "none" /\ signalled = FALSE
  /\ browser = "none"
  /\ sections = [t \in Titles |-> "none"]
  /\ issues = {}
  /\ queued = {} /\ visited = {} /\ pages = {}

Report(title, status) == sections' = [sections EXCEPT ![title] = status]
Find(found) == issues' = issues \union found
GoOn(at) == stage' = at /\ UNCHANGED <<processVars, browser, walkVars>>

-----------------------------------------------------------------------------
(* Before the application runs *)

\* The bundle or the job's mode has no execution.
NotExecuted ==
  /\ stage = "entry"
  /\ GoOn("returned")
  /\ UNCHANGED outputVars

\* No start command is known, or an install command failed: a finding, and no more.
NothingToStart ==
  /\ stage = "entry"
  /\ Report("runtime", "planned") /\ Find({"high"})
  /\ GoOn("returned")

\* A directory cannot be made, bash cannot be started: not yet inside the try.
EntryThrows ==
  /\ stage = "entry"
  /\ GoOn("threw")
  /\ UNCHANGED outputVars

Start ==
  /\ stage = "entry"
  /\ stage' = "booting"
  /\ shell' = "running" /\ server' = "starting"
  /\ UNCHANGED <<app, signalled, browser, outputVars, walkVars>>

-----------------------------------------------------------------------------
(* The try block *)

\* waitForHealthUrls
Healthy ==
  /\ stage = "booting" /\ server = "up"
  /\ Report("runtime", "ready")
  /\ GoOn("suite")
  /\ UNCHANGED issues

\* Nobody watches the shell: one that died is waited for as long as a slow one.
BootTimesOut ==
  /\ stage = "booting"
  /\ Report("runtime", "planned") /\ Find({"high"})
  /\ GoOn("closing")

\* The Playwright command failed, or passed, or none is safe enough: a section that is
\* planned too, but without a command, and execution coverage takes it as skipped.
SuiteEnds(status) ==
  /\ stage = "suite"
  /\ Report("suite", status)
  /\ Find(IF status = "planned" THEN {"medium"} ELSE {})
  /\ GoOn("launching")

Launch(plan) ==
  /\ stage = "launching"
  /\ stage' = "walking"
  /\ browser' = "open"
  /\ queued' = plan
  /\ UNCHANGED <<processVars, outputVars, visited, pages>>

MayVisit(u) ==
  stage = "walking" /\ u \in queued \ visited /\ Cardinality(pages) < MaxPages

\* Three attempts in vain.  It is no page: the walk's limit does not count it.
NavigationFails(u) ==
  /\ MayVisit(u)
  /\ queued' = queued \ {u} /\ visited' = visited \union {u}
  /\ Find({"high"})
  /\ UNCHANGED <<stage, processVars, browser, sections, pages>>

Visit(u, links, found) ==
  /\ MayVisit(u) /\ server = "up"
  /\ visited' = visited \union {u}
  /\ pages' = pages \union {u}
  /\ queued' = (queued \ {u}) \union (links \ visited')
  /\ Find(found)
  /\ UNCHANGED <<stage, processVars, browser, sections>>

WalkEnds ==
  /\ stage = "walking"
  /\ queued = {} \/ Cardinality(pages) = MaxPages
  /\ stage' = "closing"
  /\ browser' = "closed"
  /\ Report("browserQa", "ready")
  /\ UNCHANGED <<processVars, issues, walkVars>>

\* The catch.
Throws ==
  /\ stage \in Running
  /\ Report("browserQa", "planned") /\ Find({"high"})
  /\ GoOn("closing")

-----------------------------------------------------------------------------
(* The finally: browser, then stopLongRunningCommand *)

Close ==
  /\ stage = "closing"
  /\ stage' = "terminating"
  /\ browser' = IF browser = "open" THEN "closed" ELSE browser
  /\ signalled' = TRUE
  /\ queued' = {} /\ visited' = {} /\ pages' = {}
  /\ UNCHANGED <<app, shell, server, outputVars>>

\* It waits for the shell only.
ShellIsGone ==
  /\ stage = "terminating" /\ shell = "exited"
  /\ GoOn("returned")
  /\ UNCHANGED outputVars

\* Mutant: three seconds pass and that is it.
GiveUp ==
  /\ stage = "terminating" /\ shell = "running"
  /\ GoOn("returned")
  /\ UNCHANGED outputVars

\* Three seconds have passed: SIGKILL to the group.
Kill ==
  /\ stage = "terminating" /\ shell = "running"
  /\ shell' = "exited" /\ server' = "gone"
  /\ stage' = "returned"
  /\ UNCHANGED <<app, signalled, browser, outputVars, walkVars>>

WorkerStep ==
  \/ NotExecuted \/ NothingToStart \/ EntryThrows \/ Start
  \/ Healthy \/ BootTimesOut
  \/ \E status \in {"planned", "skipped", "ready"} : SuiteEnds(status)
  \/ \E plan \in SUBSET Urls : plan # {} /\ Launch(plan)
  \/ \E u \in Urls : NavigationFails(u)
  \/ \E u \in Urls, links \in SUBSET Urls, found \in SUBSET Severities : Visit(u, links, found)
  \/ WalkEnds \/ Throws \/ Close \/ ShellIsGone \/ Kill

-----------------------------------------------------------------------------
(* The application *)

AppChanges == UNCHANGED <<stage, app, signalled, browser, outputVars, walkVars>>

Answers ==
  /\ server = "starting"
  /\ server' = "up"
  /\ UNCHANGED shell /\ AppChanges

\* The server ends, by itself or on SIGTERM; a shell that is it or waits for it ends too.
ServerEnds ==
  /\ server \in {"starting", "up"}
  /\ server' = "gone"
  /\ shell' = IF app.shape = "background" THEN shell ELSE "exited"
  /\ AppChanges

\* The shell ends alone: it left a server in its background, or SIGTERM ended it first.
ShellEnds ==
  /\ shell = "running"
  /\ app.shape = "background" \/ (app.shape = "child" /\ signalled)
  /\ shell' = "exited"
  /\ UNCHANGED server /\ AppChanges

Obey == signalled /\ (ShellEnds \/ (~ app.deaf /\ ServerEnds))

HandoffNext == WorkerStep \/ Answers \/ ServerEnds \/ ShellEnds
HandoffFairness == WF_handoffVars(WorkerStep) /\ WF_handoffVars(Obey)

-----------------------------------------------------------------------------
(* Properties *)

\* What the worker started does not stay: an application that was started is stopped in
\* the end, with the browser, however far the walk came.  A server that ignores SIGTERM
\* may outlive a shell that does not.
Stopped ==
  /\ stage = "returned"
  /\ browser # "open" /\ shell = "exited"
  /\ server = "gone" \/ (app.deaf /\ app.shape # "shell")
HandoffStopsWhatItStarted == (stage = "booting") ~> Stopped
=============================================================================
