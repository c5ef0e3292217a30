--------------------------- MODULE SuiteReadiness ---------------------------
(***************************************************************************)
(* How a report comes to say whether the repository's Playwright suite can *)
(* be run.  The Playwright role writes what it believes; the worker        *)
(* installs the dependencies and lists the tests; the handoff combines the *)
(* two; and its execution chooses a start command, installs what is not    *)
(* there yet, boots the application and lists the tests again.  Commands   *)
(* may fail, run late, or end while something they started holds on.       *)
(***************************************************************************)
EXTENDS Integers

VARIABLES
  suite,      \* has the repository a script or a configuration of Playwright?
  modules,    \* its node_modules: "absent", "half", "whole"
  words,      \* what the role's own section says
  suiteAt,    \* where the job is
  commandRun, \* the command that runs: "idle", "running", "exited" when something holds its
              \* output, "killed"; and the shell's exit code, "none" for null
  preflight,  \* what the section says that the worker adds
  told,       \* the handoff's words on the suite
  offered,    \* the start commands the handoff's execution chose from: "safe", "unsafe"
  started,    \* the one it chose
  suiteRun,   \* the second listing: "none", "succeeded", "failed", "skipped"
  troubles,   \* findings, "complaint" being the role's that dependencies are not installed
  lacks       \* the report's capability gaps about the suite

readinessVars ==
  <<suite, modules, words, suiteAt, commandRun, preflight, told, offered, started, suiteRun,
    troubles, lacks>>

Codes == {"zero", "other", "none"}

Unsaid == [detected |-> "unsaid", runnable |-> "unsaid", passed |-> "unsaid",
           status |-> "unsaid", code |-> "unsaid", late |-> "unsaid", command |-> "unsaid"]

\* A role writes under its own title, or under the worker's; only then its word on whether
\* there is a suite counts.
Words ==
  {w \in [title : {"plan", "preflight"}, detected : {"unsaid", "no"}, runnable : {"unsaid", "no"},
          passed : {"unsaid", "yes", "no"}, status : {"unsaid", "passed", "failed"},
          commands : {"none", "listing"}] :
     w.title = "plan" => w.detected = "unsaid"}

SaidNothing == [title |-> "plan", detected |-> "unsaid", runnable |-> "unsaid", passed |-> "unsaid",
           status |-> "unsaid", commands |-> "none"]

Untold == [detected |-> FALSE, runnable |-> FALSE, passed |-> FALSE, status |-> "not-detected"]

ReadinessType ==
  /\ suite \in BOOLEAN /\ modules \in {"absent", "half", "whole"} /\ words \in Words
  /\ suiteAt \in {"preflight", "install", "list", "handoff", "execute", "documented", "boot",
                  "verify", "gaps", "done", "thrown"}
  /\ commandRun \in [at : {"idle", "running", "exited", "killed"}, code : Codes]
  /\ told.status \in {"not-detected", "detected", "runnable", "passed", "failed", "blocked"}
  /\ offered \subseteq {"safe", "unsafe"} /\ started \in {"none", "safe", "unsafe"}
  /\ suiteRun \in {"none", "succeeded", "failed", "skipped"}
  /\ troubles \subseteq {"complaint", "install", "list", "no-target", "documented", "boot",
                         "verify", "execution"}
  /\ lacks \subseteq {"no-suite", "not-runnable", "did-not-pass", "skipped"}

NoCommand == [at |-> "idle", code |-> "none"]
Launched == [at |-> "running", code |-> "none"]

ReadinessInit ==
  /\ suite \in BOOLEAN /\ modules \in {"absent", "whole"} /\ words \in Words
  /\ suiteAt = "preflight" /\ commandRun = NoCommand
  /\ preflight = Unsaid /\ told = Untold
  /\ offered = {} /\ started = "none" /\ suiteRun = "none"
  /\ troubles = {"complaint"} /\ lacks = {}

-----------------------------------------------------------------------------
(* runShellCommand *)

Installing == suiteAt \in {"install", "documented"}

\* An install fills node_modules step by step.
FillModules ==
  /\ Installing /\ commandRun.at = "running" /\ modules = "absent"
  /\ modules' = "half"
  /\ UNCHANGED <<suite, words, suiteAt, commandRun, preflight, told, offered, started, suiteRun,
                 troubles, lacks>>

ShellExits(code) ==
  /\ commandRun.at = "running"
  /\ commandRun' = [at |-> "exited", code |-> code]
  /\ modules' = IF Installing /\ code = "zero" THEN "whole" ELSE modules
  /\ UNCHANGED <<suite, words, suiteAt, preflight, told, offered, started, suiteRun, troubles,
                 lacks>>

\* The timer kills the process group, also when the shell is gone and its output is still held.
CommandTimesOut ==
  /\ commandRun.at \in {"running", "exited"}
  /\ commandRun' = [commandRun EXCEPT !.at = "killed"]
  /\ UNCHANGED <<suite, modules, words, suiteAt, preflight, told, offered, started, suiteRun,
                 troubles, lacks>>

\* The result comes with the close of the output, or two seconds after the kill.
Results == [code : Codes, late : BOOLEAN]

Comes(r) ==
  \/ commandRun.at = "exited" /\ r = [code |-> commandRun.code, late |-> FALSE]
  \/ commandRun.at = "killed" /\ r.late /\ r.code \in {commandRun.code, "none"}

Worked(r) == r.code = "zero" /\ ~ r.late

\* The command cannot be started.  Only the second listing is inside a try block.
CommandThrows ==
  /\ commandRun.at = "running" /\ commandRun' = NoCommand
  /\ IF suiteAt = "verify"
     THEN suiteAt' = "gaps" /\ troubles' = troubles \union {"execution"}
     ELSE suiteAt' = "thrown" /\ UNCHANGED troubles
  /\ UNCHANGED <<suite, modules, words, preflight, told, offered, started, suiteRun, lacks>>

-----------------------------------------------------------------------------
(* augmentWithPlaywrightPreflight *)

Late(r) == IF r.late THEN "yes" ELSE "no"

\* A null exit code is nothing that anyone reads.
ReadCode(r) == IF r.code = "none" THEN "unsaid" ELSE r.code

NotFound == [Unsaid EXCEPT !.detected = "no"]
InstallFailed(r) ==
  [Unsaid EXCEPT !.detected = "yes", !.command = "yes", !.late = Late(r), !.code = ReadCode(r)]
Listing(r) ==
  IF r.late
  THEN [Unsaid EXCEPT !.detected = "yes", !.command = "yes", !.late = "yes",
                      !.runnable = "no", !.passed = "no", !.status = "blocked"]
  ELSE [Unsaid EXCEPT !.detected = "yes", !.command = "yes",
                      !.code = IF r.code = "zero" THEN "unsaid" ELSE ReadCode(r)]

BeginPreflight ==
  /\ suiteAt = "preflight"
  /\ \/ ~ suite /\ preflight' = NotFound /\ suiteAt' = "handoff" /\ UNCHANGED commandRun
     \/ /\ suite /\ commandRun' = Launched /\ UNCHANGED preflight
        /\ suiteAt' = IF modules = "absent" THEN "install" ELSE "list"
  /\ UNCHANGED <<suite, modules, words, told, offered, started, suiteRun, troubles, lacks>>

EndInstall(r) ==
  /\ suiteAt = "install" /\ Comes(r)
  /\ IF Worked(r)
     THEN suiteAt' = "list" /\ commandRun' = Launched /\ UNCHANGED <<preflight, troubles>>
     ELSE /\ suiteAt' = "handoff" /\ commandRun' = NoCommand
          /\ preflight' = InstallFailed(r) /\ troubles' = troubles \union {"install"}
  /\ UNCHANGED <<suite, modules, words, told, offered, started, suiteRun, lacks>>

EndListing(r) ==
  /\ suiteAt = "list" /\ Comes(r)
  /\ suiteAt' = "handoff" /\ commandRun' = NoCommand /\ preflight' = Listing(r)
  /\ troubles' = IF Worked(r) THEN troubles \ {"complaint"} ELSE troubles \union {"list"}
  /\ UNCHANGED <<suite, modules, words, told, offered, started, suiteRun, lacks>>

-----------------------------------------------------------------------------
(* buildDeterministicStandardizedHandoff *)

OwnWords == [f \in DOMAIN Unsaid |-> IF f \in DOMAIN words THEN words[f] ELSE "unsaid"]

\* Mutant: what the role believes goes before what the worker found.
PlanFirst ==
  [f \in DOMAIN Unsaid |-> IF OwnWords[f] # "unsaid" THEN OwnWords[f] ELSE preflight[f]]

\* The worker's section goes before the role's plan, but a section that the role itself gave
\* the worker's title is found first, and instead of it.
SuiteData ==
  [f \in DOMAIN Unsaid |-> IF words.title = "plan" /\ preflight[f] # "unsaid" THEN preflight[f]
                           ELSE OwnWords[f]]

SaidOr(word, otherwise) == IF word = "unsaid" THEN otherwise ELSE word = "yes"

IsDetected(d) == SaidOr(d.detected, suite)
IsRunnable(d) == SaidOr(d.runnable, d.command = "yes" \/ words.commands # "none")
IsPassed(d) == SaidOr(d.passed, d.code = "zero")

SuiteStatus(d) ==
  IF d.status # "unsaid" THEN d.status
  ELSE IF ~ IsDetected(d) THEN "not-detected"
  ELSE IF d.late = "yes" THEN "blocked"
  ELSE IF IsPassed(d) THEN "passed"
  ELSE IF ~ IsRunnable(d) THEN "detected"
  ELSE IF d.code = "other" THEN "failed" ELSE "runnable"

\* The smoke agents and the remediation do not execute their handoff.
WriteHandoff ==
  /\ suiteAt = "handoff"
  /\ told' = [detected |-> IsDetected(SuiteData), runnable |-> IsRunnable(SuiteData),
              passed |-> IsPassed(SuiteData), status |-> SuiteStatus(SuiteData)]
  /\ suiteAt' \in {"execute", "gaps"}
  /\ UNCHANGED <<suite, modules, words, commandRun, preflight, offered, started, suiteRun,
                 troubles,
                 lacks>>

-----------------------------------------------------------------------------
(* resolveRuntimeTarget *)

\* What a start command's score is made of.  The worker's own suggestion is a package script
\* of a preferred name, so a safe one; a command of the list has neither kind nor framework.
StartCommands ==
  {c \in [source : {"target", "start-command", "fallback"}, url : {"none", "base", "inferred"},
          web : BOOLEAN, framework : BOOLEAN, script : {"none", "speclens:start", "serve", "other"},
          root : BOOLEAN, unsafe : BOOLEAN] :
     /\ c.url = "inferred" => c.script # "none"
     /\ c.source = "fallback" =>
          c.web /\ c.framework /\ ~ c.unsafe /\ c.script \in {"speclens:start", "serve"}
     /\ c.source = "start-command" => ~ c.web /\ ~ c.framework}

Points(c) ==
  (CASE c.source = "target" -> 20 [] c.source = "fallback" -> 15 [] OTHER -> 0)
  + (CASE c.url = "inferred" -> 100 [] c.url = "base" -> 20 [] OTHER -> 0)
  + (IF c.web THEN 20 ELSE 0) + (IF c.framework THEN 10 ELSE 0)
  + (CASE c.script = "speclens:start" -> 80 [] c.script = "serve" -> 72
       [] c.script = "other" -> -10 [] OTHER -> 0)
  + (IF c.root THEN 5 ELSE 0)

Penalty_Unsafe == 250

RuntimeScore(c) == IF c.unsafe THEN Points(c) - Penalty_Unsafe ELSE Points(c)

Class(c) == IF c.unsafe THEN "unsafe" ELSE "safe"

\* Equal scores are told apart by what is left out here.
Chosen(cs) == {Class(c) : c \in {d \in cs : \A e \in cs : RuntimeScore(e) =< RuntimeScore(d)}}

\* One command of each class, or one, or none; where the role said something, a safe one.
Pairs ==
  {{c, d} : c \in {x \in StartCommands : x.unsafe}, d \in {x \in StartCommands : ~ x.unsafe}}
Single == {{c} : c \in StartCommands}

Offers ==
  IF words = SaidNothing THEN Pairs \union Single \union {{}}
  ELSE {{CHOOSE c \in StartCommands : ~ c.unsafe}}

-----------------------------------------------------------------------------
(* executeStandardizedHandoff *)

NoTarget ==
  /\ suiteAt = "execute" /\ {} \in Offers
  /\ suiteAt' = "gaps" /\ troubles' = troubles \union {"no-target"}
  /\ UNCHANGED <<suite, modules, words, commandRun, preflight, told, offered, started, suiteRun,
                 lacks>>

\* Documented install commands, where there are any, are skipped when there is a node_modules.
ResolveTarget(documented) ==
  /\ suiteAt = "execute"
  /\ \E cs \in Offers \ {{}} :
       offered' = {Class(c) : c \in cs} /\ started' \in Chosen(cs)
  /\ IF documented /\ modules = "absent"
     THEN suiteAt' = "documented" /\ commandRun' = Launched
     ELSE suiteAt' = "boot" /\ UNCHANGED commandRun
  /\ UNCHANGED <<suite, modules, words, preflight, told, suiteRun, troubles, lacks>>

EndDocumented(r) ==
  /\ suiteAt = "documented" /\ Comes(r) /\ commandRun' = NoCommand
  /\ IF Worked(r) THEN suiteAt' = "boot" /\ UNCHANGED troubles
     ELSE suiteAt' = "gaps" /\ troubles' = troubles \union {"documented"}
  /\ UNCHANGED <<suite, modules, words, preflight, told, offered, started, suiteRun, lacks>>

BootFails ==
  /\ suiteAt = "boot"
  /\ suiteAt' = "gaps" /\ troubles' = troubles \union {"boot"}
  /\ UNCHANGED <<suite, modules, words, commandRun, preflight, told, offered, started, suiteRun,
                 lacks>>

\* The command of the preflight, or one of the handoff's that only lists.
Boots ==
  /\ suiteAt = "boot"
  /\ IF suite \/ words.commands = "listing"
     THEN suiteAt' = "verify" /\ commandRun' = Launched /\ UNCHANGED suiteRun
     ELSE suiteAt' = "gaps" /\ suiteRun' = "skipped" /\ UNCHANGED commandRun
  /\ UNCHANGED <<suite, modules, words, preflight, told, offered, started, troubles, lacks>>

EndVerification(r) ==
  /\ suiteAt = "verify" /\ Comes(r)
  /\ suiteAt' = "gaps" /\ commandRun' = NoCommand
  /\ IF Worked(r) THEN suiteRun' = "succeeded" /\ UNCHANGED troubles
     ELSE suiteRun' = "failed" /\ troubles' = troubles \union {"verify"}
  /\ UNCHANGED <<suite, modules, words, preflight, told, offered, started, lacks>>

-----------------------------------------------------------------------------
(* buildCapabilityGaps *)

FindGaps ==
  /\ suiteAt = "gaps" /\ suiteAt' = "done"
  /\ lacks' =
       {g \in {"no-suite", "not-runnable", "did-not-pass", "skipped"} :
          CASE g = "no-suite"     -> ~ told.detected
            [] g = "not-runnable" -> told.detected /\ ~ told.runnable /\ suiteRun # "succeeded"
            [] g = "did-not-pass" -> told.runnable /\ ~ told.passed /\ suiteRun # "succeeded"
            [] g = "skipped"      -> suiteRun = "skipped"}
  /\ UNCHANGED <<suite, modules, words, commandRun, preflight, told, offered, started, suiteRun,
                 troubles>>

ReadinessNext ==
  \/ FillModules \/ CommandTimesOut \/ CommandThrows
  \/ \E code \in Codes : ShellExits(code)
  \/ \E r \in Results : EndInstall(r) \/ EndListing(r) \/ EndDocumented(r) \/ EndVerification(r)
  \/ BeginPreflight \/ WriteHandoff \/ NoTarget \/ BootFails \/ Boots \/ FindGaps
  \/ \E documented \in BOOLEAN : ResolveTarget(documented)

-----------------------------------------------------------------------------

\* An install whose shell had ended well when its time was up.
HeldInstall == preflight.late = "yes" /\ preflight.code = "zero"

ClaimedPassed == words.passed = "yes" \/ words.status = "passed"

\* The handoff calls a suite passed only if the role did or an install was held; a listing that
\* timed out makes it blocked whatever the role's plan says.  A report without a gap about the
\* suite has seen the tests listed at last, or rests on such a claim.  A node_modules that the
\* worker left half made is in the findings, and what the role complained of stays in them
\* unless the tests were listed after that.  A start command that is not safe in a sandbox is
\* run only if no safe one was offered.
SuiteIsToldAsItRan ==
  /\ told.passed \/ told.status = "passed" => ClaimedPassed \/ HeldInstall
  /\ words.title = "plan" /\ preflight.status = "blocked" /\ told # Untold =>
       told.status = "blocked" /\ ~ told.passed
  /\ suiteAt = "done" /\ lacks = {} =>
       suiteRun = "succeeded" \/ words.passed = "yes" \/ HeldInstall
  /\ modules = "half" /\ commandRun.at = "idle" /\ suiteAt # "thrown" =>
       troubles \intersect {"install", "documented"} # {}
  /\ "complaint" \notin troubles => preflight = Listing([code |-> "zero", late |-> FALSE])
  /\ started = "unsafe" => "safe" \notin offered
=============================================================================
