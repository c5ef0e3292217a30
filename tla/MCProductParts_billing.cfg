SPECIFICATION PartsSpec
CONSTANTS
  Parts = {"billing"}
  Processes = {p1, p2}
  MaxFailures = 2
  Events = {"e1", "e2", "e3"}
  EventKind <- MCEventKind
  EventSub <- MCEventSub
  Subs = {"s1", "s2"}
  Handlers = {h1, h2}
  Audits = {a1, a2}
  Fixes = {f1, f2}
  Users = {"ann", "ben"}
  Audit = audit1
  Fix = fix1
  LocalFile = TRUE
  MaxIssues = 2
  MaxRequests = 2
  Servers = {v1, v2}
  MaxMishaps = 3
  Urls = {u1, u2, u3}
  MaxPages = 2
  Handoffs <- MCHandoffs
  CustomRoles = {"c1"}
  Edited = {"runtime", "browser", "c1", "runtimeTooling", "custom"}
  Lists <- MCLists
  MaxEdits = 2
  MaxRows = 2
  MaxEffects = 3
  Runners = {r1, r2}
  MaxDeliveries = 3
  MaxRunnerFaults = 2
  Routes = {"/a", "/a/b", "/c", "x"}
  RouteKind <- MCRouteKind
  Below <- MCBelow
  NavTargets <- MCNavTargets
  MaxOpened = 2
  ReportFacts <- MCReportFacts
  FileNames = {".git", "HEAD", "a", "primary", "companion", "README.speclens.txt",
               "speclens-source-bundle.json", "repo", "l", "x", "__MACOSX"}
  Entries <- MCEntries
  MaxEntries = 3
  MaxCycles = 2
  MaxLosses = 1
  GetRetries = 1
  People = {i1, i2}
  Mails = {mailA, mailB}
  Requests = {r1, r2}
  MaxHandled = 2
  MaxMoves = 1
  Tabs = {t1, t2}
  Persons = {"ann", "ben"}
  MaxSignIns = 2
  MaxCalls = 1
  Asked <- MCAsked
  Budgets = {0, 1, 2}
  Providers <- MCProviders
  Site = {"/", "/a", "/b", "/c"}
  Home = "/"
  Leads <- MCLeads
  MaxCrawled = 3
  Owners = {"ann", "ben"}
  Callbacks = {"c1"}
  MaxInstalls = 2
  Starters = {"api", "worker"}
  MaxDeaths = 1
  Files = {"f1", "f2"}
  MaxFaults = 2
INVARIANTS
  AcknowledgedEventWasApplied
CHECK_DEADLOCK FALSE
