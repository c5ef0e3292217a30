---------------------------- MODULE CoreAnalysis ----------------------------
(***************************************************************************)
(* One analysis by packages/core: the static roles in their order, then    *)
(* the browser roles, which copy the repository, install it, start it,     *)
(* crawl it, and stop it; and the AI providers that word four of the       *)
(* sections, out of one budget.  It is run whole in a runner's sandbox,    *)
(* and in parts by the native executors of the worker's roles.             *)
(***************************************************************************)
EXTENDS Naturals, FiniteSets, Sequences, SequencesExt

CONSTANTS
  Asked,     \* sets of roles a caller may ask for; {} asks for the preset's
  Budgets,   \* AI_BUDGET_USD, in requests; 0 sets none
  Providers, \* AI_PROVIDER_ORDER: "api" for one that is asked by HTTP, "cli" by the Codex CLI
  Site,      \* pages of the repository's application
  Home,
  Leads,     \* links of each page; "malformed" is one that is no URL
  MaxCrawled \* MAX_CRAWL_PAGES

ASSUME SiteAssumption ==
  /\ Home \in Site /\ Leads \in [Site -> SUBSET (Site \union {"malformed"})]
  /\ \A page \in Site : IsFiniteSet(Leads[page])

ASSUME CallAssumption ==
  Budgets \subseteq Nat /\ Providers \in Seq({"api", "cli"}) /\ MaxCrawled \in Nat \ {0}

VARIABLES
  analysis,  \* what is analysed
  at,        \* the await it is in
  todo,      \* static roles to come
  noted,     \* sections: <<role, status>>, in their order
  found,     \* findings: <<role, what>>
  budget,    \* remaining, in requests
  asking,    \* the synthesis under way
  worded,    \* roles a synthesis was begun for, in their order
  runtime,   \* the processes of the repository's application: the group's leader, and the rest
  chrome,    \* the browser
  crawl      \* the queue, the URLs visited, the pages recorded, whether any was exercised

coreAnalysisVars == <<analysis, at, todo, noted, found, budget, asking, worded, runtime, chrome, crawl>>

BrowserRoles == {"browser-self-check", "visual-inspection", "interaction-test"}
StaticOrder  == <<"repo-inventory", "spec-check", "component-inventory", "ui-text-inventory",
                  "ui-label-scan", "consistency-check", "license-policy", "spec-generation",
                  "chaos-advisor", "results-dashboard">>
StaticRoles  == ToSet(StaticOrder)
UiRoles      == {"component-inventory", "ui-text-inventory", "ui-label-scan"}
WordedRoles  == {"spec-generation", "chaos-advisor", "visual-inspection", "interaction-test"}
Silent       == {"repo-inventory", "ui-text-inventory", "spec-generation", "chaos-advisor",
                 "results-dashboard"}   \* roles without findings of their own

\* Presets differ in their roles; those with the same ones count as one.
PresetRoles ==
  [preset \in {"generic", "python-service", "svelte-web"} |->
     IF preset = "svelte-web" THEN StaticRoles \union BrowserRoles
     ELSE IF preset = "python-service" THEN StaticRoles \ UiRoles ELSE StaticRoles]

\* `npm run` and what it starts, in a process group of their own.
AppProcesses == {"leader", "rest"}
AppAll(state) == [p \in AppProcesses |-> state]

NoAnswer == [role |-> "none", left |-> <<>>, asked |-> 0, again |-> FALSE]

CoreAnalysisType ==
  /\ analysis.roles \subseteq StaticRoles \union BrowserRoles
  /\ at \in {"roles", "asking", "browser", "install", "wait", "launch", "crawl", "close", "visual",
             "interaction", "sections", "write", "stop", "kill", "report", "thrown"}
  /\ todo \subseteq StaticRoles
  /\ budget \in 0 .. analysis.limit
  /\ asking.role \in WordedRoles \union {"none"} /\ asking.asked \in 0 .. Len(Providers)
  /\ runtime \in [AppProcesses -> {"none", "up", "killed", "gone"}]
  /\ chrome \in {"none", "open", "closed"}
  /\ ToSet(crawl.pages) \subseteq crawl.visited /\ crawl.visited \subseteq Site

-----------------------------------------------------------------------------
(* What is analysed *)

\* analyzeRepo: the roles asked for that the preset has, and the runtime mode asked for or
\* that of the roles.
WholeRepo(asked, preset, mode, allow) ==
  LET roles == IF asked = {} THEN PresetRoles[preset] ELSE asked \intersect PresetRoles[preset]
      own   == IF roles \intersect BrowserRoles # {} \/ preset = "svelte-web"
               THEN "browser" ELSE "static"
  IN  [roles |-> roles, mode |-> IF mode = "unset" THEN own ELSE mode, allow |-> allow,
       tracked |-> TRUE]

\* executeNativeRole of the worker: one static role, or the roles of one browser role of the
\* catalog, without a budget for the analysis.
NativeCalls ==
  {[roles |-> {r}, mode |-> "static", allow |-> FALSE, tracked |-> FALSE] :
     r \in {"repo-inventory", "license-policy", "component-inventory", "ui-label-scan"}}
  \union
  {[roles |-> rs, mode |-> "browser", allow |-> TRUE, tracked |-> FALSE] :
     rs \in {{"browser-self-check", "interaction-test"}, {"visual-inspection"}}}

CoreAnalysisInit ==
  /\ \E limit \in Budgets :
       \E call \in NativeCalls \union
                   {WholeRepo(asked, p, mode, allow) :
                      asked \in Asked, p \in DOMAIN PresetRoles,
                      mode \in {"unset", "static", "browser"}, allow \in BOOLEAN} :
         /\ analysis = [limit |-> limit, roles |-> call.roles, mode |-> call.mode,
                        allow |-> call.allow, tracked |-> call.tracked]
         /\ budget = limit
  /\ at = "roles"
  /\ todo = analysis.roles \intersect StaticRoles
  /\ noted = <<>> /\ found = {}
  /\ asking = NoAnswer /\ worded = <<>>
  /\ runtime = AppAll("none") /\ chrome = "none"
  /\ crawl = [queue |-> <<Home>>, visited |-> {}, pages |-> <<>>, exercised |-> FALSE]

browserVars == <<runtime, chrome, crawl>>
wordVars    == <<budget, asking, worded>>

-----------------------------------------------------------------------------
(* Synthesis by AI providers *)

\* reserveAiCall
MayAsk == ~ analysis.tracked \/ analysis.limit = 0 \/ budget >= 1

Deducted == IF analysis.tracked /\ analysis.limit > 0 THEN budget - 1 ELSE budget

\* Mutant: each analysis looks at the budget and none takes from it.
NotDeducted == budget

AfterReserving == Deducted

\* generateWithOrderedProviders begins.
AskProviders(r) ==
  /\ asking' = [NoAnswer EXCEPT !.role = r, !.left = Providers]
  /\ worded' = Append(worded, r)
  /\ budget' = AfterReserving
  /\ at' = "asking"

\* Providers to be tried for one text: as many as the whole budget pays for, one at least.
MaxTried == IF analysis.limit > 0 THEN analysis.limit ELSE Len(Providers)

Asks == asking.left # <<>> /\ asking.asked < MaxTried

\* An HTTP request that failed for a reason that may pass is sent once more.
SendAgain ==
  /\ at = "asking" /\ Asks
  /\ Head(asking.left) = "api" /\ ~ asking.again
  /\ asking' = [asking EXCEPT !.again = TRUE]
  /\ UNCHANGED <<analysis, at, todo, noted, found, budget, worded, browserVars>>

\* The provider gave no text; the Codex CLI is run once.
ProviderFails ==
  /\ at = "asking" /\ Asks
  /\ asking' = [asking EXCEPT !.left = Tail(@), !.asked = @ + 1, !.again = FALSE]
  /\ UNCHANGED <<analysis, at, todo, noted, found, budget, worded, browserVars>>

\* The text came, or no provider is left to try: the section is written with or without it,
\* at once by a static role, with the others' at the end by a browser role.
SynthesisEnds ==
  /\ at = "asking"
  /\ asking' = NoAnswer
  /\ IF asking.role \in StaticRoles
     THEN at' = "roles" /\ noted' = Append(noted, <<asking.role, "ready">>)
     ELSE /\ at' = IF asking.role = "visual-inspection" THEN "interaction" ELSE "sections"
          /\ UNCHANGED noted
  /\ UNCHANGED <<analysis, todo, found, budget, worded, browserVars>>

-----------------------------------------------------------------------------
(* analyzeRoles *)

\* The role whose turn it is.
IsNext(r) ==
  \E i \in DOMAIN StaticOrder :
    r = StaticOrder[i] /\ r \in todo /\ \A j \in 1 .. i - 1 : StaticOrder[j] \notin todo

\* A role that looks at the repository, and may find fault with it.
AnalyzeRole(r) ==
  /\ at = "roles" /\ IsNext(r) /\ r \notin WordedRoles
  /\ todo' = todo \ {r}
  /\ noted' = Append(noted, <<r, "ready">>)
  /\ found' \in {found} \union {found \union {<<q, "concern">>} : q \in {r} \ Silent}
  /\ UNCHANGED <<analysis, at, wordVars, browserVars>>

\* A role whose section the providers word, if the budget allows.
WordRole(r) ==
  /\ at = "roles" /\ IsNext(r) /\ r \in WordedRoles
  /\ todo' = todo \ {r}
  /\ IF MayAsk
     THEN AskProviders(r) /\ UNCHANGED noted
     ELSE noted' = Append(noted, <<r, "ready">>) /\ UNCHANGED <<at, wordVars>>
  /\ UNCHANGED <<analysis, found, browserVars>>

EndRoles ==
  /\ at = "roles" /\ todo = {}
  /\ at' = IF analysis.mode = "browser" /\ analysis.roles \intersect BrowserRoles # {}
           THEN "browser" ELSE "report"
  /\ UNCHANGED <<analysis, todo, noted, found, wordVars, browserVars>>

-----------------------------------------------------------------------------
(* analyzeBrowserRoles *)

AskedBrowserRoles == analysis.roles \intersect BrowserRoles

\* A role whose browser was never in use: "planned" for the self-check, else "skipped".
Unused(rs) ==
  SetToSeq({<<r, IF r = "browser-self-check" THEN "planned" ELSE "skipped">> : r \in rs})

\* Ends without a crawl, with a section for each role.
EndsEarly(finding, next) ==
  /\ found' = found \union finding
  /\ noted' = noted \o Unused(AskedBrowserRoles)
  /\ at' = next

SelfCheck(what) == {<<"browser-self-check", what>>}

\* Host-side execution is not allowed, or no script of the repository would start it; both
\* are findings of the self-check only.  The copy of the repository may fail, which nothing
\* catches.
PrepareRuntime ==
  /\ at = "browser"
  /\ \/ /\ EndsEarly({f \in SelfCheck("not allowed") \union SelfCheck("no script") :
                        /\ f[1] \in analysis.roles
                        /\ f[2] = (IF analysis.allow THEN "no script" ELSE "not allowed")}, "report")
     \/ analysis.allow /\ at' \in {"install", "thrown"} /\ UNCHANGED <<noted, found>>
  /\ UNCHANGED <<analysis, todo, wordVars, browserVars>>

InstallAndStart ==
  /\ at = "install"
  /\ \/ EndsEarly(SelfCheck("installation"), "report") /\ UNCHANGED runtime
     \/ runtime' = AppAll("up") /\ at' = "wait" /\ UNCHANGED <<noted, found>>
  /\ UNCHANGED <<analysis, todo, wordVars, chrome, crawl>>

WaitForServer ==
  /\ at = "wait"
  /\ \/ EndsEarly(SelfCheck("boot"), "stop")
     \/ at' = "launch" /\ UNCHANGED <<noted, found>>
  /\ UNCHANGED <<analysis, todo, wordVars, browserVars>>

\* Whatever throws after this leaves the browser running.
LaunchBrowser ==
  /\ at = "launch" /\ chrome = "none"
  /\ chrome' = "open"
  /\ UNCHANGED <<analysis, at, todo, noted, found, wordVars, runtime, crawl>>

\* The session state is loaded and a login tried; what is crawled does not depend on them.
StartCrawl ==
  /\ at = "launch" /\ chrome = "open"
  /\ at' = "crawl"
  /\ UNCHANGED <<analysis, todo, noted, found, wordVars, browserVars>>

NextUrl == Head(crawl.queue)

\* The URL has been visited from elsewhere meanwhile.
SkipUrl ==
  /\ at = "crawl" /\ crawl.queue # <<>> /\ Len(crawl.pages) < MaxCrawled
  /\ NextUrl \in crawl.visited
  /\ crawl' = [crawl EXCEPT !.queue = Tail(@)]
  /\ UNCHANGED <<analysis, at, todo, noted, found, wordVars, runtime, chrome>>

CrawlFails ==
  /\ at = "crawl" /\ crawl.queue # <<>> /\ Len(crawl.pages) < MaxCrawled
  /\ NextUrl \notin crawl.visited
  /\ crawl' = [crawl EXCEPT !.queue = Tail(@), !.visited = @ \union {NextUrl}]
  /\ found' = found \union SelfCheck("navigation")
  /\ UNCHANGED <<analysis, at, todo, noted, wordVars, runtime, chrome>>

\* What trying the controls of a page may come to.
Exercises ==
  IF "interaction-test" \in analysis.roles THEN {"nothing", "sound", "failed"} ELSE {"nothing"}

\* A page answers: its links are queued, it is recorded, judged, and exercised if asked.
CrawlPage ==
  /\ at = "crawl" /\ crawl.queue # <<>> /\ Len(crawl.pages) < MaxCrawled
  /\ NextUrl \notin crawl.visited /\ "malformed" \notin Leads[NextUrl]
  /\ LET visited == crawl.visited \union {NextUrl}
         queue   == Tail(crawl.queue)
         links   == Leads[NextUrl] \ (visited \union ToSet(queue))
     IN  \E faults \in SUBSET SelfCheck("page"), trial \in Exercises :
           /\ found' = found \union faults
                       \union {<<"interaction-test", "interaction">> : x \in {"failed"} \intersect {trial}}
           /\ crawl' = [queue |-> queue \o SetToSeq(links), visited |-> visited,
                        pages |-> Append(crawl.pages, NextUrl),
                        exercised |-> crawl.exercised \/ trial # "nothing"]
  /\ UNCHANGED <<analysis, at, todo, noted, wordVars, runtime, chrome>>

CloseBrowser ==
  /\ at = "crawl" /\ (crawl.queue = <<>> \/ Len(crawl.pages) >= MaxCrawled)
  /\ chrome' = "closed" /\ at' = "visual"
  /\ UNCHANGED <<analysis, todo, noted, found, wordVars, runtime, crawl>>

\* The summaries of what was seen and of what was exercised, if anything was.
SummarizeVisuals ==
  /\ at = "visual"
  /\ IF "visual-inspection" \in analysis.roles /\ crawl.pages # <<>> /\ MayAsk
     THEN AskProviders("visual-inspection")
     ELSE at' = "interaction" /\ UNCHANGED wordVars
  /\ UNCHANGED <<analysis, todo, noted, found, browserVars>>

SummarizeInteractions ==
  /\ at = "interaction"
  /\ IF "interaction-test" \in analysis.roles /\ crawl.exercised /\ MayAsk
     THEN AskProviders("interaction-test")
     ELSE at' = "sections" /\ UNCHANGED wordVars
  /\ UNCHANGED <<analysis, todo, noted, found, browserVars>>

WriteSections ==
  /\ at = "sections" /\ at' = "write"
  /\ noted' = noted \o SetToSeq({<<r, "ready">> : r \in AskedBrowserRoles})
  /\ UNCHANGED <<analysis, todo, found, wordVars, browserVars>>

\* The runtime's log is written.
WriteLog ==
  /\ at = "write" /\ at' = "stop"
  /\ UNCHANGED <<analysis, todo, noted, found, wordVars, browserVars>>

HasSection(r) == \E i \in DOMAIN noted : noted[i][1] = r

\* Playwright is missing, a session state is unusable, a page has a link that is no URL, the
\* browser or the disk fails: a section for each role that has none yet.
BrowserThrows ==
  /\ at \in {"launch", "crawl", "write"}
  /\ found' = found \union SelfCheck("failed")
  /\ noted' = noted \o Unused({r \in AskedBrowserRoles : ~ HasSection(r)})
  /\ at' = "stop"
  /\ UNCHANGED <<analysis, todo, wordVars, browserVars>>

\* stopRuntime, whatever happened: the group is sent a SIGTERM, which some of it outlast for
\* three seconds.  Only the leader's exit is awaited: what else is left then is left alone.
StopRuntime ==
  /\ at = "stop"
  /\ \E left \in SUBSET AppProcesses :
       /\ runtime' = [p \in AppProcesses |-> IF p \in left THEN "up" ELSE "gone"]
       /\ at' = IF "leader" \in left THEN "kill" ELSE "report"
  /\ UNCHANGED <<analysis, todo, noted, found, wordVars, chrome, crawl>>

\* A leader that is left has the group sent a SIGKILL, and is awaited for another second.
KillRuntime ==
  /\ at = "kill" /\ at' = "report"
  /\ \E left \in SUBSET {p \in AppProcesses : runtime[p] = "up"} :
       runtime' = [p \in AppProcesses |-> IF p \in left THEN "killed" ELSE "gone"]
  /\ UNCHANGED <<analysis, todo, noted, found, wordVars, chrome, crawl>>

CoreAnalysisNext ==
  \/ SendAgain \/ ProviderFails \/ SynthesisEnds
  \/ \E r \in todo : AnalyzeRole(r) \/ WordRole(r)
  \/ EndRoles
  \/ PrepareRuntime \/ InstallAndStart \/ WaitForServer \/ LaunchBrowser \/ StartCrawl
  \/ SkipUrl \/ CrawlFails \/ CrawlPage \/ CloseBrowser
  \/ SummarizeVisuals \/ SummarizeInteractions \/ WriteSections \/ WriteLog
  \/ BrowserThrows \/ StopRuntime \/ KillRuntime

-----------------------------------------------------------------------------

SectionsOf(r) == {i \in DOMAIN noted : noted[i][1] = r}

\* Roles of which the analysis has to give an account.
OwedSections == {r \in analysis.roles : r \in StaticRoles \/ analysis.mode = "browser"}

\* Only what ignored the SIGTERM its leader ended on was not sent a SIGKILL.
AppAccountedFor ==
  \A p \in AppProcesses : runtime[p] = "up" => p # "leader" /\ runtime["leader"] = "gone"

\* The report of an analysis is an honest one: it has one section for each role, whatever
\* failed in between; a browser role is not "ready" with nothing seen unless a finding tells
\* that pages did not open; a page is recorded once; what is left of the application by then
\* has been sent a SIGKILL, or ignored the SIGTERM its leader ended on, and the browser
\* outlives only an analysis that failed; and the syntheses of the static and the browser
\* roles together are within the budget.
CoreReportIsHonest ==
  /\ at = "report" =>
       /\ \A r \in StaticRoles \union BrowserRoles :
            Cardinality(SectionsOf(r)) = IF r \in OwedSections THEN 1 ELSE 0
       /\ \A i \in DOMAIN noted :
            noted[i][1] \in BrowserRoles /\ noted[i][2] = "ready" =>
              crawl.pages # <<>> \/ SelfCheck("navigation") \subseteq found
       /\ AppAccountedFor
       /\ chrome = "open" => SelfCheck("failed") \subseteq found
  /\ IsInjective(crawl.pages) /\ Len(crawl.pages) <= MaxCrawled
  /\ analysis.tracked /\ analysis.limit > 0 => Len(worded) <= analysis.limit
=============================================================================
