----------------------------- MODULE ProductParts -----------------------------
(***************************************************************************)
(* Parts of the product that share no state with one another: sources and  *)
(* their GitHub installation, billing, what finished jobs leave behind,    *)
(* Codex auth profiles, the code review cache, an audit's report from the  *)
(* execution of its handoff to its release gate, the catalog of AI roles   *)
(* and agents, the page that follows a job, the retained runners, what the *)
(* browser may open, the score of a report, the trees made of archives,    *)
(* the loop in which the product audits itself, who a request acts as in a *)
(* workspace, the portal's cookies, the analysis of packages/core, the way *)
(* of an installation through the gateway, the import of the first         *)
(* version's data, the files of jobs, and what is told of the audited      *)
(* repository's tests.  A behaviour is one of one part; interleaving two   *)
(* would show nothing more.                                                *)
(***************************************************************************)
EXTENDS SourceLifecycle, Billing, JobResults, CodexAuth, GitReviewCache, AuditVerdict,
        AiCatalog, JobConsole, RunnerPlane, BrowserAccess, ReportQuality, SourceTree,
        DogfoodCycle, WorkspaceAccess, PortalSession, CoreAnalysis, InstallGateway,
        LegacyImport, ArtifactStorage, SuiteReadiness

CONSTANT Parts  \* those that behave

AllParts ==
  {"sources", "billing", "results", "auth", "cache", "report", "catalog", "console", "runner",
   "browser", "quality", "tree", "dogfood", "access", "portal", "core", "gateway",
   "import", "storage", "suite"}

ASSUME PartsAssumption ==
  Parts \subseteq AllParts

VARIABLE part

partsVars == <<part, sourceVars, billingVars, resultVars, authVars, cacheVars, auditReportVars,
               catalogVars, consoleVars, runnerVars, accessVars, qualityVars,
               treeVars, cycleVars, spaceVars, portalVars, coreAnalysisVars, gatewayVars,
               importVars, storageVars, readinessVars>>

\* What may start in several ways does so in its own part only.
OnlyIn(p, start) == part # p => start

PartsInit ==
  /\ part \in Parts
  /\ SourceInit /\ OnlyIn("sources", source.type = "upload-archive")
  /\ BillingInit /\ ResultsInit /\ AuthInit
  /\ CacheInit /\ OnlyIn("cache", entry.mirror)
  /\ VerdictInit /\ OnlyIn("report", app = [shape |-> "shell", deaf |-> FALSE])
  /\ CatalogInit
  /\ ConsoleInit /\ OnlyIn("console", jobState = "running" /\ rows = 0)
  /\ RunnerInit
  /\ OnlyIn("quality", facts = NoFacts) /\ QualityInit
  /\ OnlyIn("browser", /\ jobSecrets = [session |-> "absent", credential |-> "absent"]
                       /\ navigation = {} /\ protected = {})
  /\ AccessInit
  /\ OnlyIn("tree", archive = {} /\ consumer = "upload" /\ companion = FALSE) /\ TreeInit
  /\ CyclesInit
  /\ SpaceInit
  /\ OnlyIn("access", users = {[id |-> 1, person |-> CHOOSE p \in People : TRUE,
                                mail |-> CHOOSE m \in Mails : TRUE]})
  /\ PortalInit /\ OnlyIn("portal", setup = [keycloak |-> TRUE, localDev |-> TRUE])
  /\ OnlyIn("core", analysis = [limit |-> 0, roles |-> {"repo-inventory"}, mode |-> "static",
                                allow |-> FALSE, tracked |-> FALSE])
  /\ CoreAnalysisInit
  /\ GatewayInit /\ OnlyIn("gateway", shares = "both")
  /\ ImportInit /\ OnlyIn("import", snapshot = "absent")
  /\ StorageInit /\ OnlyIn("storage", mirroring = "none")
  /\ ReadinessInit /\ OnlyIn("suite", suite /\ modules = "whole" /\ words = SaidNothing)

\* Only one part moves.
Others(p) ==
  /\ UNCHANGED part
  /\ p # "sources" => UNCHANGED sourceVars
  /\ p # "billing" => UNCHANGED billingVars
  /\ p # "results" => UNCHANGED resultVars
  /\ p # "auth" => UNCHANGED authVars
  /\ p # "cache" => UNCHANGED cacheVars
  /\ p # "report" => UNCHANGED auditReportVars
  /\ p # "catalog" => UNCHANGED catalogVars
  /\ p # "console" => UNCHANGED consoleVars
  /\ p # "runner" => UNCHANGED runnerVars
  /\ p # "browser" => UNCHANGED accessVars
  /\ p # "quality" => UNCHANGED qualityVars
  /\ p # "tree" => UNCHANGED treeVars
  /\ p # "dogfood" => UNCHANGED cycleVars
  /\ p # "access" => UNCHANGED spaceVars
  /\ p # "portal" => UNCHANGED portalVars
  /\ p # "core" => UNCHANGED coreAnalysisVars
  /\ p # "gateway" => UNCHANGED gatewayVars
  /\ p # "import" => UNCHANGED importVars
  /\ p # "storage" => UNCHANGED storageVars
  /\ p # "suite" => UNCHANGED readinessVars

PartsNext ==
  \/ part = "sources" /\ SourceNext /\ Others("sources")
  \/ part = "billing" /\ BillingNext /\ Others("billing")
  \/ part = "results" /\ ResultsNext /\ Others("results")
  \/ part = "auth" /\ AuthNext /\ Others("auth")
  \/ part = "cache" /\ CacheNext /\ Others("cache")
  \/ part = "report" /\ VerdictNext /\ Others("report")
  \/ part = "catalog" /\ CatalogNext /\ Others("catalog")
  \/ part = "console" /\ ConsoleNext /\ Others("console")
  \/ part = "runner" /\ RunnerNext /\ Others("runner")
  \/ part = "browser" /\ AccessNext /\ Others("browser")
  \/ part = "quality" /\ QualityNext /\ Others("quality")
  \/ part = "tree" /\ TreeNext /\ Others("tree")
  \/ part = "dogfood" /\ CyclesNext /\ Others("dogfood")
  \/ part = "access" /\ SpaceNext /\ Others("access")
  \/ part = "portal" /\ PortalNext /\ Others("portal")
  \/ part = "core" /\ CoreAnalysisNext /\ Others("core")
  \/ part = "gateway" /\ GatewayNext /\ Others("gateway")
  \/ part = "import" /\ ImportNext /\ Others("import")
  \/ part = "storage" /\ StorageNext /\ Others("storage")
  \/ part = "suite" /\ ReadinessNext /\ Others("suite")

\* A verification's calls return, and the workspace's sources are listed now and then; a
\* process has a verification to go on with or lists the sources.
SourceFairness ==
  \A p \in Processes :
    WF_partsVars(part = "sources" /\ (CheckStep(p) \/ ListSources(p)) /\ Others("sources"))

\* The worker's awaits have timeouts; signals reach their processes.
ReportFairness ==
  /\ WF_partsVars(part = "report" /\ WorkerStep /\ UNCHANGED verdictVars /\ Others("report"))
  /\ WF_partsVars(part = "report" /\ Obey /\ UNCHANGED verdictVars /\ Others("report"))

PartsSpec == PartsInit /\ [][PartsNext]_partsVars /\ SourceFairness /\ ReportFairness

-----------------------------------------------------------------------------

\* The part that moves keeps the types of its variables.
PartsType ==
  CASE part = "sources" -> SourceType
    [] part = "billing" -> BillingType
    [] part = "results" -> ResultsType
    [] part = "auth"    -> AuthType
    [] part = "cache"   -> CacheType
    [] part = "report"  -> VerdictType
    [] part = "catalog" -> CatalogType
    [] part = "console" -> ConsoleType
    [] part = "runner"  -> RunnerType
    [] part = "browser" -> AccessType
    [] part = "quality" -> QualityType
    [] part = "tree"    -> TreeType
    [] part = "dogfood" -> CycleType
    [] part = "access" -> SpaceType
    [] part = "portal" -> PortalType
    [] part = "core" -> CoreAnalysisType
    [] part = "gateway" -> GatewayType
    [] part = "import" -> ImportType
    [] part = "storage" -> StorageType
    [] part = "suite" -> ReadinessType
=============================================================================
