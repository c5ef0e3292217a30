# SpecLens in TLA+

SpecLens audits software sources with AI agents. Users submit jobs to an API, a
queue carries them to AI workers, and a worker runs each job in a one-shot
container, whose roles read the source, run it, and write a report. This directory
holds TLA+ modules that model the program, the TLC configurations that check them
on small instances, and theorems proved with TLAPS for instances of every size.

Three groups of modules compose: **the life of a job** across API processes,
database, queue and workers (`JobLifecycle`); **the run of one job** inside its
worker, on the outside of the container (`SandboxRun`) and on the inside
(`SandboxCore`); and **the parts around it**, which share no state with one another
(`ProductParts`).

## 1. Inventory

Paths are relative to `src/`; `R` is `packages/db/src/repositories.ts`, `W` is
`apps/ai-worker/src/services/worker.ts`, `Q` is `packages/db/src/queue.ts`, `D` is
`apps/api/src/routes/durable.ts`.

| component | state it keeps | what makes it hard | what makes it correct |
|---|---|---|---|
| Job table (`R` 3769-4972) | `AnalysisJob` rows: status, cancel request, dispatch lease, attempts, message, claimer | every writer works on what it read earlier | statuses only move forward; one executor; dispatch columns end with dispatch |
| Dispatch (`Q` 86-144, `D` 423) | lease owner and expiry in the row; a loop per API process | a crash or lost answer between lease, send and record; two dispatchers; late failures | a queued job has a message; leases exclude each other; attempts are bounded |
| Cancellation (`R` 4403, `D` 1493) | `cancelRequestedAt`, status, queue message | races the claim, the dispatch and the finalization | an accepted cancellation excludes success and is never lost |
| AI worker controller (`W` 10102-10490) | the handler's locals, the claimed row | redelivery during execution, crash after the claim, throws before and inside the `try` | one execution per job; the job ends |
| Queue (pg-boss, external) | messages | at-least-once delivery | - |
| Sandbox process and log sink (`W` 9747-10038) | child process, timers, batches of log rows | three timers race one close; insertions throw and are repeated | the verdict matches what happened; no log line lost or twice |
| Log stream (`D` 2014-2095) | a cursor per connection | rows committed late; broken connections | every row once, then the end |
| Role graph and scheduler (`W` 6870-6943, 8842-9610) | role statuses and outputs in the sandbox | failures, cancellation, a limit, retries, exclusive roles | no role before its dependencies; exclusive roles alone; the execution ends |
| Remediation loop (`W` 9400-9610) | tree, validation result, findings | iterations after the one that passed; new files, which `git diff` does not tell | what is reported as fixed was validated, and is in the changeset |
| Handoff execution, verdict, readiness (`W` 3193-7821) | processes of the audited application, browser, sections, gaps, score, gate | anything may fail half way; texts of a model, of a tool and of a run contradict each other | what was started is stopped; the verdict follows from the findings |
| Core analysis (`packages/core`) | sections, findings, AI budget, application, crawl | failures between sections | one section per role, what is left of the application accounted for |
| Sources, verification (`R` 861-908, 3557-3761, `D` 240) | source rows, verification in the background | verification ends after the source changed | only ready sources are analysed; none stays pending |
| Source archives (`packages/core/src/archive.ts`, `W` 1180-1392, `git-review.ts`) | entries, trees | four programs extract what another one inspected | the tree worked on is the root that was accepted |
| Git review cache (`apps/api/src/services/git-review.ts`) | lock directory, mirrors, archives | several processes on one file system, stale locks | one writer per entry, whole repositories |
| GitHub App and gateway (`R` 876-893, 5384-5648, `D` 1771-2011) | intents, installations, webhook targets | intents used twice or late, two environments, removal during verification | an installation is linked by its owner and gone once GitHub deleted it |
| Billing (`R` 1511-1529, 5170-5377) | processed events, entitlements | replays, reordering, crash inside the webhook | each event has one effect |
| Learnables and changesets (`R` 3486-3555, 4991-5086) | learnables of a source, report summary | read-modify-write by several jobs | no changeset lost; learnables of one audit |
| Codex auth (`R` 5701-6521, `W` 4200-4250) | token profiles, bindings | tokens renewed in a sandbox come back late | tokens return to the profile they were taken from |
| AI catalog (`R` 1640-2500, 6584-6877) | roles, agents, dependencies | every start rewrites the defaults while admins edit | a default agent's job runs the plan that ships |
| Workspaces, members, secrets, users (`R` 1403-1509, 2775, 3174-3401) | rows, audit log | look up, then change; concurrent requests | persons, members and secrets stay apart |
| Portal session (`apps/web/lib/auth.ts`, `app/api/auth`, `app/api/proxy`) | cookies shared by tabs | logins, callbacks and sign-outs of several tabs | one person per request |
| Job page (`apps/web/components/portal-actions.tsx` 1591-1761) | fetches, a stream, what is shown | answers of a cleaned-up effect, rows sent again | a quiet page is right |
| Runner plane (`apps/runner`, retained) | the `analysis-jobs` queue, containers | like the controller | like the controller |
| Object storage, retention (`packages/db/src/object-storage.ts`, `R` 5131-5168) | files in a store and its mirror, rows | one of two stores fails; deletion in two steps | no row without file, no file without row |
| Import of the first version's data (`R` 2510) | tables written one by one | deaths, two starters | nothing people made is deleted; whole or nothing |
| Self-improvement loop (`run-cycle.mjs`) | summaries on disk | lost answers, two commands | the summary tells the truth about the job |
| Other portal pages, prompts, contracts, deployment | none that is shared | - | not modelled (section 8) |

How they interact: API requests and dispatch loops share the job table with the
workers; they never call each other. The queue is the only message path, and it
carries nothing but a job id. The API's cancel route and the worker's controller
meet only in the columns `status` and `cancelRequestedAt`. The controller writes
learnables, changesets, log rows, files and reports on behalf of the sandbox, which
has no database access. Viewers meet the worker only in the log table.

`PROJECT.json` lists 40 hazards, each at the line where it bites and with the
property that would catch it.

## 2. Modules

| module | models |
|---|---|
| `AnalysisJobs` | one row of the job table, and each conditional update of it as a pair of a predicate (the update's `where`) and a new row (its `data`) |
| `AgentQueue` | the `ai-agent-jobs` queue, external, from the calls `Q` makes to pg-boss |
| `JobLifecycle` | API processes, the queue and workers together; the inductive invariant |
| `JobStatus` | the abstract specification: what a reader of the job table may rely on |
| `LogTable`, `LogSink`, `LogStream` | the log rows of a job, the batches the worker inserts, the viewer who polls them |
| `SandboxRun` | the controller of one run: container, docker client, timers, cancellation polls, verdict, replay of logs; composes the three log modules |
| `RoleGraph` | a plan of roles with its declared and its synthetic edges, the merging of findings |
| `RoleExecution` | `executeRole` as a machine of each role: native executor, Codex attempts, validation of outputs |
| `RoleScheduler` | `executeRolesWithGraph`: levels, launching, racing, failure, cancellation; the inductive invariant |
| `PlanExecution` | the abstract specification of a scheduler |
| `Remediation` | `executeRemediationJobCore`: iterations, validation, export |
| `SandboxCore` | what the container executes: an audit by `RoleScheduler`, or a remediation |
| `GithubIntegration`, `SourceLifecycle` | an installation, and a source row with its background verifications, requests and removals |
| `Billing` | Stripe's webhook and the checkout |
| `JobResults` | learnables of a source, changesets of a report |
| `CodexAuth` | auth profiles and the jobs that borrow tokens |
| `GitReviewCache` | one cache entry, the file lock, clean-up |
| `HandoffExecution`, `AuditVerdict` | execution of a handoff with its processes and its walk; the report's way to the release gate |
| `BrowserAccess`, `ReportQuality`, `SuiteReadiness` | protected pages; gaps, score and learnables of a report; what a report says of the audited repository's tests |
| `AiCatalog` | seeding and editing of roles and agents, a job's plan |
| `JobConsole` | the page that follows a job |
| `RunnerPlane` | the retained runners |
| `SourceTree` | archives, from inspection to the tree a job works on |
| `DogfoodCycle` | the commands of the self-improvement loop |
| `WorkspaceAccess`, `PortalSession` | users, members, secrets and the audit log; the portal's cookies |
| `CoreAnalysis` | an analysis by `packages/core` |
| `InstallGateway` | linking installations from two environments |
| `LegacyImport`, `ArtifactStorage` | the import of the first version's data; files, mirror and retention |
| `ProductParts` | composes the parts from `SourceLifecycle` on |
| `JobLifecycle_proofs` | theorems about the job's life |
| `RoleScheduler_proofs` | theorems about the scheduler and, through the refinement `SandboxRunsTheScheduler`, about `SandboxCore` |
| `SandboxRun_proofs` | theorems about the controller of one run |
| `ServiceParts_proofs`, `WorkerParts_proofs` | theorems about single parts, those that users and services call and those of the worker and its jobs' results |
| `ProductParts_proofs` | the same properties of the composition `ProductParts` |
| `MC*` | values and symmetry for TLC (`SandboxRun` needs none) |

Every action is one transaction, one call to another process, or the code between
two awaits, so that any other actor may come between. Locals a handler keeps across
an await are variables; variables marked "history" record what a property needs to
tell cases apart and stand for nothing in the program.

### The job's life

* `row[j]` is the database row. Times are abstracted to what the code compares:
  `lease` is none, live or expired; `retry` is due or later. Columns no `where`
  reads (texts, timestamps, roles, artifacts) are left out.
* `queue[m]` is a message: job id, state, number of deliveries, holder.
* `thread[t]` holds the locals of an API request or of a dispatch loop between two
  calls. `life[a]` counts restarts of an API process, because
  `dispatchLoopInstanceId` is drawn anew at each start; all requests of one process
  share one dispatcher id (`<instance>:inline`), as in the code.
* `slot[s]` holds the locals of one `boss.work` handler of a worker. The worker id
  survives restarts, since it comes from `AI_WORKER_ID`.
* `published` is the set of jobs whose results were written, `faults` counts faults.

| action | code |
|---|---|
| `CreateJob`, `RetryJob`, `LeaseInline` | job routes, `retryAnalysisJobForUser`, `dispatchRunnerJob` |
| `LeaseNext` | `drainPendingDispatches`, `leaseNextPendingAnalysisJobForDispatch` |
| `Publish`, `Record`, `ReadDispatchFailure`, `WriteDispatchFailure` | `publishDispatchedJob`, `setAnalysisJobQueueMessage`, `markAnalysisJobDispatchFailure` (its read and its compare-and-set are two steps: PostgreSQL's default isolation lets others commit in between) |
| `RequestCancel`, `CancelQueued`, `CancelRunning`, `Dequeue` | `requestJobCancellationForUser` and the route's `cancelAgentJob` |
| `Fetch`, `Settle`, `ExpireDelivery` | pg-boss handing out, completing and expiring a message |
| `Claim`, `Prepare` | `claimAgentJob` (its transaction; the read of the execution record) |
| `Stage`, `RunSandbox`, `Collect`, `PublishResults`, `FinalizeSuccess`, `FinalizeFailure` | `executeHostedAgentJobInSandbox`; `FinalizeFailure` is also the update of its catch block |
| `PublishThrows`, `PublishAnswerLost`, `RecordThrows`, `Abandon`, `AbandonAnswerLost`, `PrepareThrows`, `StepThrows`, `HandlerThrows` | a call throws, without effect or after it took effect, and control goes where the code's `try`/`catch` sends it |
| `ExpireLease`, `ElapseBackoff` | the clock |
| `CrashApi`, `CrashWorker` | a process dies and restarts; its locals are gone |

The two updates of `claimAgentJob` share a transaction; the first one concerns rows
that are pending or queued and have a cancellation request. No reachable row is
like that (`RowOK`), which the proof uses: the first update is dead code today.

### The run of a job

`SandboxRun` opens the one step `RunSandbox`: the container may end by itself with
any result, hang, or ignore SIGTERM; the docker client may outlive it, and it may
outlive the client: the force timer kills the client and only starts `docker rm -f`
(`ForceKill`, `removing`), which nobody waits for and which ends later
(`RemovalEnds`). The timeout, the cancellation poll, the force timer and the close
race. Its log lines pass
through `LogSink` into `LogTable`, and `LogStream` is one viewer of it, with
reconnections. The emission of a line and its arrival at the worker are one step,
and one clock orders rows.

`SandboxCore` is what runs inside. `RoleScheduler` follows the loop of
`executeRolesWithGraph` phase by phase (`PlaceLevel`, `RejectCycle`, `GraphBuilt`,
`LaunchReadyRoles`, `TakeOutput`, `TakeError`, ...); each role is a machine of
`RoleExecution` with its native executor, its attempts and their six results.
`Remediation` keeps the kinds of change in the tree (to tracked files, new files,
commits) and the run of Codex they are of: the changeset is what `git diff` and a
bundle of HEAD tell of them, while `git status` decides whether there is anything to
report as fixed.

### The other parts

`ProductParts` puts twenty parts side by side. They share no state, so a behaviour
of it is a behaviour of one of them (`part`): interleaving two would show nothing
more, and one TLC run covers them all. `OnlyIn` fixes the initial choices of a part
in the behaviours of the others, so that states are not counted several times.

| part | state and actions |
|---|---|
| `sources` | a source row, its installation, the background verification of each process, creation, job submission and deletion between their reads and writes |
| `billing` | webhook handlers between the claim of an event and its effect, checkout, a workspace added meanwhile |
| `results` | `replaceSourceLearnables` under READ COMMITTED; the report's summary read and written back |
| `auth` | profiles, device flows, verification, staged, renewed and collected tokens |
| `cache` | lock directory, fill, refresh, sweep, deaths, ageing |
| `report` | shell, server, browser and walk of a handoff's execution; two enrichments and the gate |
| `catalog` | seeding, edits in two calls, a job that reads its plan in two queries; the product's own 25 roles and 8 agents |
| `console` | effects of a React page, their fetches, the stream's events |
| `runner` | claim, container, timeout, cancellation, catch block, restart |
| `browser` | secrets, login, navigation plan, walk |
| `quality` | gaps, score, gate inputs and learnables, before and after artifacts |
| `tree` | inspect, extract, collapse, strip, bundle |
| `dogfood` | the commands between their requests, and between the files they write, each of which may fail |
| `access` | requests between user lookup, check, change and audit row |
| `portal` | tabs, cookies, callbacks between await points, pages and proxied calls |
| `core` | roles, syntheses with fallbacks and budget, crawl, the application as a process group whose leader alone is awaited (`StopRuntime`, `KillRuntime`) |
| `gateway` | intents on their way, link calls, webhooks on their way |
| `import` | starters between count, deletion, tables and seeding |
| `storage` | transfers to two stores, rows, retention, downloads |
| `suite` | install and listing commands with their shells, the three texts that speak of the suite, the choice of a start command |

### Definitions named "Mutant"

Modules contain operators marked `Mutant`, each just before the definition it
varies. They are not used by the specification. Put in place of that definition,
each makes a property fail: the property depends on that condition of the code.

## 3. Properties

The job's life (`JobLifecycle`):

* `IInv`, the inductive invariant of section 6: rows, messages, threads and slots
  fit each other, so that a queued job has a message owed a delivery, a running job
  an executor or a fault that took it, and a cancelled job never succeeds.
* `SingleExecution`: at most one slot executes a job.
* `CancelReachesJob`: a cancel request that returned left the job terminal or marked,
  whatever happened since it read the job.
* `LeaseEndedByItsHolder`: a late dispatcher cannot free a job leased by another.
* `KeepsPromise`: the job table implements `JobStatus`: a final status is never
  overwritten, and a job starts at most once.
* `SubmittedJobSettles`: liveness (section 5).

The run of a job (`SandboxRun`, `SandboxCore`):

* `VerdictFits`: success needs a container that ended by itself, in time, with a
  successful result and without a cancellation; a cancellation made while it ran
  prevails over what races it.
* `LinesSurviveSuccess`, `LinesReachTheTable`, `StreamComplete`: lines of a
  successful job are stored whatever insertions threw, and once; what the sink was
  given is stored in the end; a viewer who stays gets, once and in order, every row
  committed before the end and before any younger one.
* `ContainerAccountedFor`: a container that is up although its client is closed is
  being removed, or a call of docker failed; the run may well have ended by then.
* `RunEnds` (liveness): the controller ends, viewers are told, and a container that was
  told to stop and ignores SIGTERM goes, unless docker failed.
* `CoreInv`: the scheduler's inductive invariant with the type of the remediation:
  dependencies first, exclusive roles alone, the limit kept, never stalled.
* `KeepsPlanPromise`: the scheduler implements the safety part of `PlanExecution`;
  that executions end is `SandboxExits`.
* `ReportMergesFindings`: one finding per dedupe key, with the highest severity,
  whatever the order in which roles finished.
* `FixedMeansValidated`: "fixed" is reported only if the last validation passed, on
  what the last run of Codex left. The changeset lacks no more than new files of the
  tree that validation saw, unless its commands changed the tree. That it lacks those
  is finding 5.
* `SandboxExits`: whatever the job's kind, the sandbox produces its result and exits
  (liveness).

The parts (`ProductParts`; comments in the modules give the full statements):

| property | says |
|---|---|
| `PartsType` | the types, of every part |
| `UnlinkedSourceNeedsRepair` | a source whose installation went is marked, unless its verification overlapped the removal or a relink came first |
| `PendingSourceSettles` | liveness: no source stays pending while its workspace's sources are listed |
| `EventAppliesOnce` | an event decides the entitlement once |
| `LastResultStands` | learnables never add up; changesets are lost only where two jobs overlapped |
| `TokensComeBack` | tokens return to the profile they came from and are not spent, but for named cases |
| `LoneTaskServesWhole` | one task at a time on an entry, which hands out a whole repository, but for named disturbances |
| `GateFollowsFindings` | the gate of the saved report follows from everything found |
| `HandoffStopsWhatItStarted` | liveness: shell, server and browser are stopped |
| `DefaultPlanIsAccepted` | a job of a default agent runs the plan that ships |
| `QuietConsoleIsRight` | a page that follows nothing and warns of nothing shows the end of its job |
| `RunnerJobIsAccounted` | a job left running by the runner has one of two causes |
| `ProtectedPagesAreAccountedFor` | no page below a protected route without login, and a reason for the gap |
| `SavedReportOnlyImproves` | the second enrichment takes nothing back |
| `TreeIsTheInspectedRoot` | every consumer works on the root that the inspection accepted |
| `CycleTellsItsJob` | one job per command, and summaries that tell the truth; a snapshot is left behind only by an audit that failed before its `try`, with its job unread and unreported |
| `AccessIsKept` | persons, members, secrets and the audit log under racing requests |
| `OnePersonPerRequest` | session cookie and ID token mean one person |
| `CoreReportIsHonest` | one section per role, no silent emptiness, the budget kept; what is left of the application was sent a SIGKILL or ignored the SIGTERM its leader ended on |
| `InstallationIsAccountedFor` | linked by its owner only; gone once GitHub deleted it, but for missed webhooks and late calls |
| `ImportKeepsData` | nothing people made is deleted, and the import is whole or nothing, but for named cases |
| `FilesFollowRows` | no row without file before retention, no file without row at rest |
| `SuiteIsToldAsItRan` | what handoff and report say of the suite rests on what ran or on the role's explicit claim |

Where the code allows an exception, the property names it instead of leaving it out;
section 8 lists what those exceptions mean in practice.

## 4. Runs

Deadlock is not checked: work is finite in every instance, and once all is done
the system rightly stops.

| run | instance | checks |
|---|---|---|
| `execution` | 1 job, 3 messages, 1 API process (1 request and the loop), 2 workers, 1 redelivery; 1 crash, 1 slow holder, 1 throw | `IInv`, `SingleExecution`, `CancelReachesJob`, `KeepsPromise` |
| `dispatch` | 2 jobs, 3 messages, 1 API process with a request and the loop, 1 worker, no redelivery; 2 slow holders, 1 throw | `LeaseEndedByItsHolder` |
| `progress` | 1 job, 3 messages, 1 API process, 1 worker, 1 redelivery; 1 crash, 1 slow holder, 1 throw; with fairness, without symmetry | `SubmittedJobSettles` |
| `roles` | 5 plans of 4 roles (a diamond with an unknown id, exclusive roles only, a role that names itself, a cycle closed by the synthetic edges, a declared cycle), limit 2, 2 Codex attempts, cancellation; remediations of 3 iterations | `CoreInv`, `ReportMergesFindings`, `FixedMeansValidated`, `KeepsPlanPromise`, `SandboxExits` |
| `sandbox` | 2 log lines, batches of 1, a drain at 2, 1 throw, 1 viewer | `VerdictFits`, `LinesSurviveSuccess`, `StreamComplete`, `ContainerAccountedFor`, `LinesReachTheTable`, `RunEnds` |
| `parts` | every part, see below | the 21 invariants of the table above |
| `settle` | parts `sources` and `report`, 1 failure | `PendingSourceSettles`, `HandoffStopsWhatItStarted` |
| `cancel_at_finalize`, `staging_error`, `billing`, `portal`, `new_files` | the smallest instance each | one statement of the documentation or, for `new_files`, of the product's page each, which fails (section 7) |

### Bounds

Job life: `MaxDispatchAttempts` is 2 instead of 12: one failed attempt that is
retried and one that is the last. Three messages allow two superfluous ones: one
from a lost answer and one from a retry. One redelivery suffices for a second
delivery while the first is being executed; two workers for a conflict over one
job; a request and a loop, which have different dispatcher ids, for a conflict over
a lease. Faults are bounded by `MaxCrashes`, `MaxSlow` (expiries of a lease or
delivery whose holder is still at work; an expiry after a crash is free) and
`MaxErrors`. The theorems hold for all bounds. Symmetry permutes jobs, messages, API
processes and workers in the safety runs of the job's life only; no property
distinguishes them.

Roles: four roles make a diamond, and a chain of exclusive roles which the synthetic
edges may close; two attempts are one retry and the last. Findings have two keys and
three severities. Three iterations are one that may stop early, one that repeats, and
the last.

Sandbox: two lines are enough to be in order or not, to fill a batch, and to be
streamed in part. One throw breaks any one insertion, query or docker call.

Parts:

| part | bound |
|---|---|
| `sources` | 2 processes, 2 failures (1 in `settle`) |
| `billing` | 3 events of the kinds completed, lapsed and deleted, 2 subscriptions, 2 handlers |
| `results` | 2 audits, 2 fixes |
| `auth` | 2 users, 1 audit and 1 fix, `MaxIssues` 2 renewals or sign-ins, `MaxRequests` 2 changes of a profile |
| `cache` | 2 servers, `MaxMishaps` 3 |
| `report` | 3 URLs, `MaxPages` 2, four handoffs that differ in the scorer's decision and the planner's packs |
| `catalog` | 1 role of the admins' own, 2 edits of 5 ids with 3 lists |
| `console` | 2 rows, 3 runs of the effect |
| `runner` | 2 runners, 3 deliveries, 2 faults, the job executed once at most |
| `browser` | 4 routes, 3 navigation targets, `MaxOpened` 2 |
| `quality` | about 800 reports, chosen so that each rule of gaps, score and supersession applies and fails to |
| `tree` | archives of up to 3 of 12 entries |
| `dogfood` | 2 commands, 1 lost request, 1 repetition of a GET instead of 5 |
| `access` | 2 people, 2 addresses, 2 requests at a time and 2 in all, 1 change of address, 1 job |
| `portal` | 2 tabs, 2 persons, 2 logins, 1 call; each setting of Keycloak and local development |
| `core` | 4 sets of requested roles, 3 presets, budgets 0 to 2, 2 providers, 4 pages with one malformed link, 3 pages crawled instead of 6 |
| `gateway` | 2 owners, 2 intents, 1 link call at a time; environments share nothing, the database, or both database and signing secret |
| `import` | 2 starters, 1 death; six kinds of snapshot |
| `storage` | 2 files, 2 faults, 1 retention run at a time |
| `suite` | 1 package, 1 start command of each class |

A bound that stands for a larger number in the code is small enough to be reached
and large enough for one more than the limit to be tried.

## 5. Fairness

Nothing is assumed of users, and nothing of crashes, throws or slow holders.

* `JobLifecycle` (`FairSpec`): weak fairness of `DispatchStep(t)`, `CancelStep(t)`
  (a process that runs continues its request; for an idle loop, `setInterval` calls
  `drainPendingDispatches` again, `Q` 125-144), of `Fetch` and `ExecutionStep(s)`
  (pg-boss polls, the worker continues its handler, and `waitForAgentSandbox` kills
  the sandbox at its timeout), and of the clock: a lease whose holder is gone
  expires, backoff elapses, a delivery whose handler is gone expires.
  `SubmittedJobSettles` says what the code then guarantees and no more. A pending job
  ends, or it is in one of two situations that nothing in the code repairs: it is
  running and nobody executes it, or it is queued and its messages have used up their
  deliveries (the dispatch loop looks at pending jobs only, and there is no reaper of
  running ones).
* `SandboxRun`: weak fairness of the launch, of the two timers (`setTimeout`), of the
  closing of the docker client once the container is gone, of the removal that
  `ForceKill` started (`docker rm -f` returns, or fails), of the controller's and
  the sink's continuations (promises, the flush timer), and of the viewer's polls
  (`setTimeout` in `streamLogs`). The container itself is not fair: it may hang.
* `SandboxCore`: the loop's own code goes on, every await of a role ends (a Codex run
  is killed at its timeout, native executors have timeouts), and so do the commands
  of a remediation.
* `ProductParts`: calls of a verification return, and the workspace's sources are
  listed now and then: this is an assumption about the environment (the portal polls
  while a source is pending), and it is needed, since only listing a source restarts
  a verification that a crash lost. For `HandoffStopsWhatItStarted`, the worker's
  awaits have timeouts, and signals reach their processes.

## 6. Theorems

`JobLifecycle_proofs` proves, from the assumptions `MaxDispatchAttemptsAssumption`,
`RetryLimitAssumption`, `ProcessAssumption` (the null values are not ids, the loop
is not a request) and `BoundAssumption` only, for any sets of jobs, messages,
processes and any fault bounds:

| theorem | states |
|---|---|
| `Invariance` | `IInv` |
| `TypeCorrect` | `TypeOK` |
| `OneExecutor` | `SingleExecution` |
| `ExecutorOwnsJob` | `ExecutionOwnsJob`: the job a slot executes runs under its worker id |
| `CancelledNeverSucceeds` | `CancelExcludesSuccess` |
| `LeasesEndWithDispatch` | `LeaseOnlyWhilePending` |
| `WaitingJobsHaveAttempts` | `WaitingJobHasAttemptsLeft` |
| `DequeuedOnlyIfCancelled` | `OnlyCancelledJobsAreDequeued`: messages of live jobs are not cancelled |
| `SuccessHasResults` | `SucceededJobHasResults` |
| `QueuedJobsAreDelivered` | `QueuedJobIsDeliverable` |
| `OrphansHaveCause` | `OrphanHasCause` |
| `JobTableKeepsPromise` | `KeepsPromise`: the table implements `JobStatus`, for which every step of every actor maps to one move of one job or to a stutter |
| `ThreadsKnowTheirJobs` | `ThreadsKnow` (defined with the proofs): what a request, loop or worker read before an await is still true where it acts on it |
| `OnlyHolderEndsLease` | `LeaseEndedByItsHolder` |
| `CancelAlwaysReachesJob` | `CancelReachesJob` |

**The argument.** None of these is inductive by itself. That a claim starts the only
execution needs that a job in execution is not claimable; that needs its row to be
running or final as long as the slot executes it; that needs final rows to stay
final. That a queued job has a message needs the id recorded in the row to be of a
message for that job, which needs the thread that records it to know that; and it
needs that completed messages belong to started jobs, so what a handler knows when
it returns without having claimed. `IInv` collects these facts in five parts:
`RowOK`/`RowInv` (a row), `MessageInv` (a message), `ThreadInv` (the locals of a
thread), `SlotInv` (the locals of a slot), and the two global ones
`SingleExecution` and `OrphanHasCause`.

The proof separates what an update does to its row from what a step leaves alone.
`ApiMoves` and `WorkerMoves` say, update by update, that under its `where` the
`data` keeps `RowOK` and moves the row forward. `RowChange`, `MessagesKept`,
`ThreadsKept` and `SlotsKept` say that parts which do not move keep their
invariant when some row moves forward; `NoSlotMoves` and `OneSlotMoves` do the same
for the two global parts. Each action then has a short lemma, and `NextIInv` joins
them.

`KeepsPromise`, an implementation, needs more of each update than that rows move
forward: `Promise` has a move for each change of a status, and the claim's move needs
that an unstarted row has no claimer, which is in `RowOK`. The two action properties
need `ThreadsKnow` as well: a thread that is about to write a dispatch failure has
read its own lease or none, so that the compare-and-set can free no other's; and one
that cancels a running job works on a row that had started, so that the retry of the
conditional update finds it running, or ended.

`RoleScheduler_proofs` proves, from `NumRolesAssumption`,
`MaxCodexAttemptsAssumption` and `SchedulerAssumption`, for any number of roles, any
set of plans, any limit and any number of attempts:

| theorem | states |
|---|---|
| `SchedulerInvariant` | `IInv` of the scheduler |
| `RolesRunAfterTheirDependencies` | `DependenciesFirst`: a launched role has the output of every role it names |
| `ExclusiveRolesRunAlone` | `ExclusiveAlone` |
| `ExecutionNeverStalls` | `NeverStalls`: the error "AI role execution graph stalled" is unreachable |
| `LevelsLoopFindsCycles` | `GraphVerdict`: the levels loop refuses exactly the graphs with a cycle |
| `SchedulerKeepsPlanPromise` | `KeepsPlanPromise`: every behaviour of the scheduler is one of `PlanExecution`'s safety part |
| `SandboxRunsTheScheduler`, `SandboxKeepsPlanPromise` | the container's program, which audits or remediates, implements the scheduler and so the promise |
| `CoreInvariant` | `CoreInv`, the invariant the run `roles` checks |
| `FixedFindingsWereValidated` | `FixedMeansValidated` |
| `ReportsMergeFindings` | `ReportMergesFindings`: one finding per dedupe key, with the first role that gave it and the highest severity |

**The argument.** The levels that the planning loop gives to roles order the graph
(`LevelInv`: a placed role stands above its dependencies), and nothing runs before
all are placed. So some pending role of least level waits for finished roles only,
by well-foundedness of the naturals (`SmallestOf`, `LeastRole`): with nothing
running and a role pending, one is ready (`SomeRoleIsReady`), which makes the stall
unreachable. Exclusive roles form a chain by the synthetic edges: one is launched
when all before it gave their output (`ExclusiveInv`, from `NearestExclusive`), so
two never run together. A cycle would need a role below itself; conversely, the
roles left over when the loop places none form a cycle. The refinement maps each
action to a step of the promise or a stutter, action by action (`StepMaps`).

For the remediation `RemediationInv` follows the runs of Codex: there is one for each
iteration, a validation records the run and the tree it saw, and until the export none
has passed, because one that passes leads there. So what is reported as fixed was
validated after the last run, after any number of iterations; and of the three kinds of
change the patch and the bundle leave out one.

`ReportOf` folds the findings of each role into the report, and the roles in order.
Induction theorems that take an operator cannot be instantiated here, but the least
counterexample is a fact about sets: were the fold of some finite set of findings not
what `WithFindings` says, a smallest such set would be one finding larger than one
for which it is (`FoldAdds`, from `SmallestOf`); were the report of the first `n`
roles not `FirstReports`, neither would be that of `n - 1` (`ReportIsFirstReports`).
That the recursive functions exist needs no induction: `WithFindings` and
`FirstReports` satisfy their equations.

`SandboxRun_proofs` proves, from `NumLinesAssumption` and `SinkAssumption`, for any
number of lines, any batch and any bound on throws:

| theorem | states |
|---|---|
| `RunInvariant` | `RunInv`: the controller's place tells what timers, client and container may be, and the sink's memory and the table together hold every line that arrived |
| `VerdictsFit` | `VerdictFits` |
| `SuccessKeepsLines` | `LinesSurviveSuccess` |
| `ContainersAccountedFor` | `ContainerAccountedFor` |
| `StreamInvariant` | `CreatedInv`: every log is created once, at its place, and what waits or is stored was created; `StreamInv`: the viewer's cursor stands at a stored row, and a row stored in order that was not sent lies beyond it |
| `StreamsAreComplete` | `StreamComplete` |

**The argument.** A verdict is decided from flags that timers and polls set while the
close of the client races them. `RunInv` says which flags may be set in each phase,
and that none is taken back; a line that was received is in the sink, in the table, or
in the list the collection replays. It also says that the client outlives its container
or its own SIGKILL, and that the latter began a removal, which ends with the container
gone or an error; so that a container without a client has one of the two on record.

The viewer moves its cursor to the last row it was sent, so a younger row that is
stored first hides an older one. `StreamComplete` promises the rows that were stored
in order: each is younger than all rows stored before it, so beyond the cursor
(`StreamInv`), and the next poll sends it. The n-th row of a poll is the one that has
n rows up to its place; ranks of finitely many rows are the numbers up to their count
(`OrderedRows`), by an injection between sets of one size. Nothing is created twice
(`CreatedInv`), so what is sent ascends strictly.

`ServiceParts_proofs` and `WorkerParts_proofs` prove one theorem or more about each of
the twenty parts, each from the assumptions on its own constants; `ProductParts_proofs`
carries them over to the composition. `OnePartMoves` and `PartsStart` show that a
behaviour of `ProductParts` is, to each part, one of the part's own specification
(`PartsBehave`), whatever part moves.

| part | inductive invariant, and why it is needed | theorem about the part | about `ProductParts` |
|---|---|---|---|
| `sources` | a private source that is verified, although its installation is elsewhere or about to go, has an overlap on record | `RemovalsMarkSources` | `SourcesNeedRepair` |
| `billing` | one handler at most is past the unique insertion of an event | `EventsApplyOnce` | `EventsDecideOnce` |
| `gateway` | link calls about to write have consumed their intent; a deleted installation that stays has its cause recorded | `InstallationsAreAccountedFor` | `LinksAreAccountedFor` |
| `auth` | the latest tokens of an account are with the profile, or with the one job that has them, or strayed | `TokensComeHome` | `TokensAreKept` |
| `portal` | the cookies in the jar, and those a tab sent, come from one answer | `OnePersonActs` | `RequestsAreOnePersons` |
| `console` | answers were true when they were made, only the current run of the effect has a stream, and what it shows with what is on its way follows the job | `QuietPagesAreRight` | `QuietPagesTellTheEnd` |
| `import` | what a starter at each table leaves in the database | `ImportsKeepData` | `StartsKeepData` |
| `catalog` | until somebody edits, roles and agents are as shipped, and a reader between its two queries has the shipped list | `ShippedPlansAreAccepted` | `ShippedPlansRun` |
| `access` | who may act as a user, what the log says or is about to say, and ids that are never given twice | `PeopleAndRowsStayApart` | `AccessStaysKept` |
| `results` | what each writer has read of the summary | `LastResultsStand` | `ResultsStand` |
| `runner` | a row's status against the executions that claimed it | `RunnerJobsAreAccounted` | `RetainedJobsAreAccounted` |
| `cache` | the lock's directory is of the one task inside, or of a disturbance on record | `LoneTasksServeWhole` | `CachesServeWhole` |
| `quality` | both enrichments are made of the same facts, the second with the files written between them | `SavedReportsImprove` | `ArtifactsOnlyImprove` |
| `storage` | where transfers, rows and retention are, file by file | `FilesHaveRows` | `StoredFilesHaveRows` |
| `report` | an attempt that failed left a finding, a report is collected after the execution returned, and the verdict saved is made of all of it | `GatesFollowFindings` | `SavedGatesFollow` |
| `browser` | whatever is or was to be opened is open to this browser, and `authCoverage` is what the plan made of the handoff | `PagesAreAccounted` | `SkippedPagesAreAccounted` |
| `dogfood` | what each command has read of its job, which summaries are its own, and that only an audit before its `try` ends with its snapshot left | `CommandsTellTheirJobs` | `LoopTellsItsJobs` |
| `tree` | at each step the tree is what was extracted, collapsed, stripped and bundled so far of the accepted archive; that collapsing finds the inspected root is lemmas about prefixes of paths (`CollapsedIsInspected`, `BundleParts`) | `TreesAreInspectedRoots` | `ConsumersWorkOnTheRoot` |
| `suite` | the handoff is a function of the role's words and the worker's section; a half installation is being made, or in the findings | `SuitesAreToldAsRun` | `ReportsTellOfSuites` |
| `core` | the roles that have a section are those of the analysis that are not due, none twice; requests and budget add up; pages are among the visited URLs; what runs after its leader ended had the SIGTERM | `CoreReportsAreHonest` | `AnalysesReportHonestly` |

`EveryPartIsTyped` is the type invariant of the composition, `PartsType`. For the
sources, billing, `tree`, `suite` and `core` the types are in the invariants above.
For the others an invariant of what these leave out is inductive beside them, and in
some of them it is the point of the theorem: references in the catalog and among
workspaces, members and users name rows that exist (`CatalogTypes`, `SpaceTypes`,
which also shows that `nextWorkspaceSlug` always finds a slug, since one more number
is tried than are taken); a page shows no row that its job has not got
(`ConsoleTypes`); cookies are of sign-ins that have begun (`PortalTypes`); tokens that
stray are an account's, because a job without tokens has renewed none (`AuthTypes`); no
request of a command is tried more often than its retries allow (`CycleTypes`); and a
score is between 0 and 100 for all facts (`QualityTypes`).

**Assumptions.** Each is named in the module that declares the constants, and the runs
evaluate all of them: a task's server is not the null value (`CacheAssumption`);
scopes of profiles are not users (`CodexAssumption`); the page has one run of its
effect at least, and the job may have one row (`ConsoleAssumption`); routes are
finitely many (`RoutesAssumption`); an admin's role has an id of its own, and lists
name roles, each of them once (`CatalogAssumption`: `AiAgentRole` has the agent and
the role as its key, `packages/db/prisma/schema.prisma:349-357`, so that another list
throws); there are two people and two addresses, from which the initial workspaces
take theirs (`AccessAssumption`); the other bounds of the models, on pages, faults,
deaths, sign-ins, calls, edits and deliveries, are natural numbers
(`HandoffAssumption`, `FaultsAssumption`, `DeathsAssumption`, `PortalAssumption`,
`RunnerAssumption`, `CycleAssumption`, `CacheAssumption`, `SourceAssumption`); paths are sequences of names, among which are those the code
writes itself (`EntriesAssumption`, `NamesAssumption`); a page has finitely many links
(`SiteAssumption`); budgets are naturals, the providers a list of the two kinds there
are, and one page at least may be crawled (`CallAssumption`; `MAX_CRAWL_PAGES` is 6). `ShippedAssumption` of `AiCatalog` has no constant in it: it says
that the graphs of the agents that ship pass `buildRoleExecutionGraph`, a computation
on the eight plans written out in the module, which TLC carries out on every run of
the parts. What is proved from it is that no interleaving of seeding, edits and
readers makes a job of an unedited agent run anything else.

**What the proofs changed in the model.** `PeopleKeepTheirUser` used to say that any
two people who act as one user have signed in with one and the same address. Its proof
failed, and TLC then found the counterexample, which needs three people: the second
takes over the first one's user by the first address, moves to another address, and
the third takes it over by that one; the first and the third have no address in common.
`upsertUserIdentity` (`R` 2775-2822) does that. The property now says that each of the
people shares an address with another of them. Besides, `WorkspaceAccess` and
`AiCatalog` state two expressions in a form that the provers can take apart
(`Knowing` for a record with one more field, `PlacesAll` and `Read` for the graph),
and `DeleteRole` takes a role out of a list at the one place where it is (`Without`),
where it had filtered the list.

`TreeIsTheInspectedRoot` used to say that an archive with nothing but `.git` in it
leaves the audit the metadata without their directory. That is not so for a `.git`
that itself holds a `.git`: collapsing leads into the outer one, and `stripGitMetadata`
then removes the inner one. The property now has one root, the inspected one or the
`.git` that is alone in it, and says of both what each consumer makes of them.
`SuiteStatus` was a `CASE` whose guards overlap, of which TLA+ says only that one of
the cases is taken (TLC takes the first); it is the code's chain of conditions now.
`CoreAnalysis` keeps the roles that are due as a set and takes the next one in the
catalog's order (`IsNext`), where it had filtered a sequence. `LogStream` orders the
rows of a poll by rank (`Ordered`), where it had sorted them with an operator the
provers know nothing of. `PlanType` says that a role reports finitely many findings:
a fold over infinitely many has no value.

**Only model-checked**: liveness (`SubmittedJobSettles`, `SandboxExits`,
`LinesReachTheTable`, `RunEnds`, `PendingSourceSettles`,
`HandoffStopsWhatItStarted`). It rests on fairness, so on `ENABLED`, which is beyond
the prover. Every other property of a passing run is stated by a theorem. The runs
that expect a violation refute their properties.

## 7. Findings

1. `cancel_at_finalize`: the controller asks for a cancellation once, after the
   sandbox (`W` 10229). If one is accepted later, the guard of
   `finalizeAnalysisJobSuccess` matches no row, the controller returns, and the
   job stays running. `docs/issues/unified-agent-job-sandboxing.md:43` says that
   when cancellation or finalization fails the job fails through the controller.
2. `staging_error`: a throw in the steps before the controller's `try`
   (`W` 10113-10175) leaves the job running; the redelivered message is dropped by
   the claim. The same sentence promises otherwise.
3. `billing`: an event is recorded before its effect (`R` 5252-5375). When the
   request ends in between, Stripe's next attempt is answered with success and the
   entitlement is never written. `docs/ops/production-readiness.md:41` calls the
   webhooks replay-safe.
4. `portal`: the proxy route exports no `PATCH` handler, so renaming a source,
   updating a secret and turning Codex access on or off never reach the API from the
   portal. `docs/issues/behavioral-parity-migration.md:62` calls the lifecycle closed
   through the existing portal routes.
5. `new_files`: `executeRemediationJobCore` writes the patch with `git diff --binary`
   (`W` 9468), which tells of tracked files only, and a bundle of HEAD; `git status`,
   which also tells of new files, decides whether there are changed files and whether
   findings count as fixed. A fix in new files, which the validation saw, is in neither.
   The report's page calls the changeset "Validated changeset" that "is ready for
   review" and asks to review "the changed files and patch bundle, then publish or apply
   through the normal repo workflow"
   (`apps/web/app/portal/workspaces/[workspaceId]/reports/[reportId]/page.tsx:1527`).
   A publication pushes HEAD, so edits that Codex did not commit are not in it either.
   The stub of Codex in `tests/api.test.ts:466` writes nothing but a new file, and no
   test looks into the patch.

Three further statements of the documentation were met that the code does not keep, and
have no run of their own. The lifecycle diagram of
`docs/architecture/job-execution.md:51-59` lacks pending to running (a message
delivered before it is recorded) and pending to cancelled; both are harmless, and
`JobStatus` is the diagram with them. `README.md:396` says that the hosted gateway redirects a
browser back to the local environment it came from; the gateway looks the intent up
in its own database and checks it with its own signing secret, so an environment
which shares neither is refused. `docs/issues/job-execution-artifact-hardening.md:36`
has the logs replayed into success, cancellation and failure alike; the hosted
controller replays the sandbox's logs only when it collects a result: a run that was
cancelled, timed out or ended with another code than zero is finalized with the
controller's own logs, and the others are left to the sink.

## 8. What the models leave out, and what they showed on the way

### Modelled with an abstraction worth knowing

**Job life.** Access checks and validation before a job is created only make requests
fail. Artifacts, metrics and audit records appear as calls that may throw. The
container of a worker that crashed may go on for a while; it has no database access,
and nothing reaps it.

**Sandbox.** A poll for cancellation that is answered after the close arms the force
timer again, harmlessly. `streamLogs` registers its close handler after its first
poll. A viewer misses rows that were created before its cursor and inserted after it,
and rows inserted after the poll that read the final status: `StreamComplete`
excludes exactly those. The verbosity filter and heartbeats are left out.

**Roles.** Synthetic edges between exclusive roles can make a plan without a declared
cycle one that is refused. Roles that run when another one fails go on until they
end (the process waits for them). A cancellation after the last role is ignored, and
a remediation never looks for one. Validation without commands passes vacuously. The
sandbox has no `DATABASE_URL`, so marking a Codex auth failure there throws. The
in-process `runAgentJob` and `runRemediationJob` serve tests only. A remediation's tree
is kinds of change and not files: one that is partly staged counts as tracked, and a
bundle holds commits whole or not at all.
Prompts, evidence, files and role output contracts are left out.

**Sources and GitHub.** Relinking an installation to another workspace marks no
source. Removing by row (`byRow`) and removing by workspace are both in
`MarkSources`; the webhook route calls `applyGithubWebhookToDatabase` only for a
"created" event that names a workspace, which GitHub's events do not. A
verification's last read and its pending write are one step. Renaming a source is
left out.

**Gateway.** `consumeGithubInstallIntent` reads and then updates unconditionally, so
two calls may both take an intent. Forwarding "deleted" is best-effort and never
repeated; "created" changes nothing. The API's cache and pull-request lists are left
out.

**Import.** A snapshot without workspaces is imported again at every start and
deletes what people made since. Two starters at once may both end early with a
partial snapshot, or delete new workspaces. An import that dies after the workspaces
is never repeated. Jobs that name agents fail on a fresh database, whose catalog is
written later, and leave jobs, logs and reports out for good. Tables that hang on
memberships are taken together with them.

**Storage.** A required mirror that rejects before the primary has answered, or after
it failed, is an unhandled rejection, which ends the process. Failed deletions are
logged and their rows go anyway. A retention run that dies leaves rows without
objects until the next one. Serving a local file, the health check and the cleaning
of keys (two keys may become one) are left out.

**Results, auth, cache.** Three status reads of the default Codex binding are one.
Reading commits and files from a ready repository changes nothing and is left out.

**Handoff and verdict.** What a handoff contains is chosen where the code first looks
at it. The order of the walk's queue is left out. Findings of a handoff have no ids,
so packs that name them dangle; the scorer may say "pass" despite high findings that
come later; the gate ignores capability gaps. The learnables of the first enrichment
may say that artifacts are missing although they are written later; blockers of the
handoff come last and are cut when it lists many others. Scores of roles and skills
are left out.

**Browser.** Whether a page is authenticated is inferred from the secret's presence,
or from the URL after the form was submitted. A target with `requiresAuth` outside
the prefixes of `protectedRoutes` is left out of the plan but may be opened by a
link. `skippedProtectedRouteCount` counts a route twice that is listed twice.

**Suite readiness.** A section which the role itself titles "Playwright preflight"
hides the worker's. A role's claim "passed" stands although the worker's listing
failed: that section has no `passed` key, only a listing that timed out overrides.
An install whose shell ended with 0 while its output was held until the timeout
counts as passed although nothing was listed. A half-made `node_modules` makes the
documented install be skipped as "exit 0". A command that cannot be started rejects
without clearing the timer. An unsafe start command scores -15 at best, the worst
safe one -10. Processes that leave their group are left out.

**Core analysis.** A runner passes no preset, so a preset the analysis infers may
drop requested roles, which the report still lists, without a section. A link that is
no URL ends the whole crawl. An exception after the launch leaves Chromium running.
Three of five interaction targets are ever tried; failed navigations do not count
toward the limit; the budget counts syntheses, not requests; links are matched by a
prefix of the base URL. Stopping the application returns once `npm` itself has ended,
without a SIGKILL for those of its group that go on, and gives up a second after the
SIGKILL it sends otherwise; the port is fixed, so that a server left over from one
analysis would answer to the next, and one analysis at a time is modelled. The branch
for Windows is left out. What a static role looks for and the files
written beside the report are left out.

**Catalog.** `updateAiRole` accepts cycles; `createAiRole` and `createAiAgent` are
not transactional; the roles recorded at submission may differ from the plan that
runs; a deleted agent leaves a queued job that fails. The seed's transaction is
serialised by row locks. Skills, prompts and executor ids are text.

**Job page.** The portal's error listener closes the `EventSource` for good; clients
that come back with `Last-Event-ID` are in `LogStream`. Rows after the job's end are
left to `LogStream` too.

**Runner plane.** A late cancellation leaves its job running, as in finding 1, and so
does a second throw of `uploadRawLogArtifacts` inside the catch block.

**Archives.** One that holds only `.git` is accepted; the audit then works on the
metadata, the other consumers refuse it. Bytes and formats are left out.

**Self-improvement loop.** Options other than `--wait` have their defaults; several
reads of evidence are two. A POST is never repeated after a network failure. A
summary written by `collect` lacks the workspace, so the `remediate` command it
prints fails with the default scope; and a `collect --no-wait` may overwrite a
finished audit's summary with an older status.

**Access and session.** An owner keeps its role when added as a member; adding an
existing member is audited as an addition. Two identities with one e-mail address
share a user row, and a person whose new address another row has cannot sign in. A
job whose secret was deleted runs without it, silently. Another tab's login makes the
first tab's callback fail, and an exchange that throws leaves the state cookie.
Lists, searching, paging, signatures and return addresses are left out, as are
cookies from an earlier deployment.

### Not modelled

* Portal pages other than the job page and the session: they render, and call the
  API with one request at a time.
* Prompts, normalisation of model outputs and role output contracts: text in, text
  out, with no state and no order; what depends on their result is a choice of the
  models. Role output contracts appear in `RoleExecution` as valid or not.
* `packages/contracts`: schemas; `JobStatus` and `AnalysisJobs` use its statuses.
* Keycloak, Stripe, GitHub, Codex and the object stores themselves: they appear as
  choices of their answers.
* Images, compose files and scripts other than `run-cycle.mjs`: configuration.

## 9. Plan

In this order:

1. `SandboxRun` as an implementation of the step `RunSandbox` of `JobLifecycle`.
2. The safety part of the handoff's execution: what a run that has ended started has
   been told to stop.
