---------------------- MODULE ProductParts_proofs ----------------------------
(***************************************************************************)
(* Proofs about the parts together: whatever part a behaviour of the       *)
(* product is one of, each of them behaves as its own specification says,  *)
(* so that what is proved of each specification holds of PartsSpec.        *)
(***************************************************************************)
EXTENDS ProductParts, ServiceParts_proofs, WorkerParts_proofs

\* A step of one part leaves every other part as it is.
LEMMA OnePartMoves ==
  ASSUME [PartsNext]_partsVars
  PROVE  /\ [SourceNext]_sourceVars
         /\ [BillingNext]_billingVars
         /\ [ResultsNext]_resultVars
         /\ [GatewayNext]_gatewayVars
         /\ [RunnerNext]_runnerVars
         /\ [ImportNext]_importVars
         /\ [AuthNext]_authVars
         /\ [CacheNext]_cacheVars
         /\ [PortalNext]_portalVars
         /\ [ConsoleNext]_consoleVars
         /\ [QualityNext]_qualityVars
         /\ [StorageNext]_storageVars
         /\ [VerdictNext]_auditReportVars
         /\ [AccessNext]_accessVars
         /\ [CatalogNext]_catalogVars
         /\ [CyclesNext]_cycleVars
         /\ [SpaceNext]_spaceVars
         /\ [TreeNext]_treeVars
         /\ [ReadinessNext]_readinessVars
         /\ [CoreAnalysisNext]_coreAnalysisVars
<1>1. [SourceNext]_sourceVars
  BY Zenon DEF PartsNext, Others, partsVars
<1>2. [BillingNext]_billingVars
  BY Zenon DEF PartsNext, Others, partsVars
<1>3. [ResultsNext]_resultVars
  BY Zenon DEF PartsNext, Others, partsVars
<1>4. [GatewayNext]_gatewayVars
  BY Zenon DEF PartsNext, Others, partsVars
<1>5. [RunnerNext]_runnerVars
  BY Zenon DEF PartsNext, Others, partsVars
<1>6. [ImportNext]_importVars
  BY Zenon DEF PartsNext, Others, partsVars
<1>7. [AuthNext]_authVars
  BY Zenon DEF PartsNext, Others, partsVars
<1>8. [CacheNext]_cacheVars
  BY Zenon DEF PartsNext, Others, partsVars
<1>9. [PortalNext]_portalVars
  BY Zenon DEF PartsNext, Others, partsVars
<1>10. [ConsoleNext]_consoleVars
  BY Zenon DEF PartsNext, Others, partsVars
<1>11. [QualityNext]_qualityVars
  BY Zenon DEF PartsNext, Others, partsVars
<1>12. [StorageNext]_storageVars
  BY Zenon DEF PartsNext, Others, partsVars
<1>13. [VerdictNext]_auditReportVars
  BY Zenon DEF PartsNext, Others, partsVars
<1>14. [AccessNext]_accessVars
  BY Zenon DEF PartsNext, Others, partsVars
<1>15. [CatalogNext]_catalogVars
  BY Zenon DEF PartsNext, Others, partsVars
<1>16. [CyclesNext]_cycleVars
  BY Zenon DEF PartsNext, Others, partsVars
<1>17. [SpaceNext]_spaceVars
  BY Zenon DEF PartsNext, Others, partsVars
<1>18. [TreeNext]_treeVars
  BY Zenon DEF PartsNext, Others, partsVars
<1>19. [ReadinessNext]_readinessVars
  BY Zenon DEF PartsNext, Others, partsVars
<1>20. [CoreAnalysisNext]_coreAnalysisVars
  BY Zenon DEF PartsNext, Others, partsVars
<1> QED BY <1>1, <1>2, <1>3, <1>4, <1>5, <1>6, <1>7, <1>8, <1>9, <1>10,
           <1>11, <1>12, <1>13, <1>14, <1>15, <1>16, <1>17, <1>18, <1>19, <1>20

\* Each part starts as it does alone.
LEMMA PartsStart ==
  PartsInit => /\ SourceInit
               /\ BillingInit
               /\ ResultsInit
               /\ GatewayInit
               /\ RunnerInit
               /\ ImportInit
               /\ AuthInit
               /\ CacheInit
               /\ PortalInit
               /\ ConsoleInit
               /\ QualityInit
               /\ StorageInit
               /\ VerdictInit
               /\ AccessInit
               /\ CatalogInit
               /\ CyclesInit
               /\ SpaceInit
               /\ TreeInit
               /\ ReadinessInit
               /\ CoreAnalysisInit
BY DEF PartsInit

\* The composition implements the specification of every part that is proved about.
THEOREM PartsBehave ==
  PartsSpec => /\ SourceSpec
               /\ BillingSpec
               /\ ResultsSpec
               /\ GatewaySpec
               /\ RunnerSpec
               /\ ImportSpec
               /\ AuthSpec
               /\ CacheSpec
               /\ PortalSpec
               /\ ConsoleSpec
               /\ QualitySpec
               /\ StorageSpec
               /\ VerdictSpec
               /\ AccessSpec
               /\ CatalogSpec
               /\ CyclesSpec
               /\ SpaceSpec
               /\ TreeSpec
               /\ SuiteSpec
               /\ CoreSpec
<1>1. PartsSpec => SourceSpec
  BY OnePartMoves, PartsStart, PTL DEF PartsSpec, SourceSpec
<1>2. PartsSpec => BillingSpec
  BY OnePartMoves, PartsStart, PTL DEF PartsSpec, BillingSpec
<1>3. PartsSpec => ResultsSpec
  BY OnePartMoves, PartsStart, PTL DEF PartsSpec, ResultsSpec
<1>4. PartsSpec => GatewaySpec
  BY OnePartMoves, PartsStart, PTL DEF PartsSpec, GatewaySpec
<1>5. PartsSpec => RunnerSpec
  BY OnePartMoves, PartsStart, PTL DEF PartsSpec, RunnerSpec
<1>6. PartsSpec => ImportSpec
  BY OnePartMoves, PartsStart, PTL DEF PartsSpec, ImportSpec
<1>7. PartsSpec => AuthSpec
  BY OnePartMoves, PartsStart, PTL DEF PartsSpec, AuthSpec
<1>8. PartsSpec => CacheSpec
  BY OnePartMoves, PartsStart, PTL DEF PartsSpec, CacheSpec
<1>9. PartsSpec => PortalSpec
  BY OnePartMoves, PartsStart, PTL DEF PartsSpec, PortalSpec
<1>10. PartsSpec => ConsoleSpec
  BY OnePartMoves, PartsStart, PTL DEF PartsSpec, ConsoleSpec
<1>11. PartsSpec => QualitySpec
  BY OnePartMoves, PartsStart, PTL DEF PartsSpec, QualitySpec
<1>12. PartsSpec => StorageSpec
  BY OnePartMoves, PartsStart, PTL DEF PartsSpec, StorageSpec
<1>13. PartsSpec => VerdictSpec
  BY OnePartMoves, PartsStart, PTL DEF PartsSpec, VerdictSpec
<1>14. PartsSpec => AccessSpec
  BY OnePartMoves, PartsStart, PTL DEF PartsSpec, AccessSpec
<1>15. PartsSpec => CatalogSpec
  BY OnePartMoves, PartsStart, PTL DEF PartsSpec, CatalogSpec
<1>16. PartsSpec => CyclesSpec
  BY OnePartMoves, PartsStart, PTL DEF PartsSpec, CyclesSpec
<1>17. PartsSpec => SpaceSpec
  BY OnePartMoves, PartsStart, PTL DEF PartsSpec, SpaceSpec
<1>18. PartsSpec => TreeSpec
  BY OnePartMoves, PartsStart, PTL DEF PartsSpec, TreeSpec
<1>19. PartsSpec => SuiteSpec
  BY OnePartMoves, PartsStart, PTL DEF PartsSpec, SuiteSpec
<1>20. PartsSpec => CoreSpec
  BY OnePartMoves, PartsStart, PTL DEF PartsSpec, CoreSpec
<1> QED BY <1>1, <1>2, <1>3, <1>4, <1>5, <1>6, <1>7, <1>8, <1>9, <1>10,
           <1>11, <1>12, <1>13, <1>14, <1>15, <1>16, <1>17, <1>18, <1>19, <1>20

\* UnlinkedSourceNeedsRepair, of the part of sources: a removal of the installation marks the
\* private sources it verified (removeGithubInstallation).
THEOREM SourcesNeedRepair == PartsSpec => []UnlinkedSourceNeedsRepair
BY PartsBehave, RemovalsMarkSources, PTL

\* EventAppliesOnce, of the part of billing: an event of Stripe decides an entitlement once,
\* however often it is sent (applyStripeWebhookToDatabase).
THEOREM EventsDecideOnce == PartsSpec => []EventAppliesOnce
BY PartsBehave, EventsApplyOnce, PTL

\* LastResultStands, of the part of results: learnables are those of the last audit, and the
\* report names a changeset that its job has, where writers did not overlap.
THEOREM ResultsStand == PartsSpec => []LastResultStands
BY PartsBehave, LastResultsStand, PTL

\* InstallationIsAccountedFor, of the part of the gateway: links rest on consumed intents, and
\* a deleted installation is kept only where the webhook or a link call explains it.
THEOREM LinksAreAccountedFor == PartsSpec => []InstallationIsAccountedFor
BY PartsBehave, InstallationsAreAccountedFor, PTL

\* RunnerJobIsAccounted, of the part of the retained runners: what an execution that has
\* returned leaves of its job and its directory (executeQueuedJob).
THEOREM RetainedJobsAreAccounted == PartsSpec => []RunnerJobIsAccounted
BY PartsBehave, RunnerJobsAreAccounted, PTL

\* ImportKeepsData, of the part of the import: nobody loses a workspace to it, and nobody is
\* served a part of the snapshot, where imports did not overlap (initializeDatabase).
THEOREM StartsKeepData == PartsSpec => []ImportKeepsData
BY PartsBehave, ImportsKeepData, PTL

\* TokensComeBack, of the part of Codex auth: what a job borrows of a profile comes back to it
\* (stageCodexAuth, syncCodexAuth).
THEOREM TokensAreKept == PartsSpec => []TokensComeBack
BY PartsBehave, TokensComeHome, PTL

\* LoneTaskServesWhole, of the part of the code review cache: undisturbed, one task at a time is
\* on the entry and hands out the whole repository (withCacheLock).
THEOREM CachesServeWhole == PartsSpec => []LoneTaskServesWhole
BY PartsBehave, LoneTasksServeWhole, PTL

\* OnePersonPerRequest, of the part of the portal: session, CSRF token and ID token of a request
\* are one person's (/api/auth, apiFetch, /api/proxy).
THEOREM RequestsAreOnePersons == PartsSpec => []OnePersonPerRequest
BY PartsBehave, OnePersonActs, PTL

\* QuietConsoleIsRight, of the part of the page: one that is done without an issue shows the
\* end of its job and all its rows (AnalysisJobConsole).
THEOREM QuietPagesTellTheEnd == PartsSpec => []QuietConsoleIsRight
BY PartsBehave, QuietPagesAreRight, PTL

\* SavedReportOnlyImproves, of the part of report quality: the saved report has no gap and no
\* lower score than the logged one (enrichReportForUniversalAudit).
THEOREM ArtifactsOnlyImprove == PartsSpec => []SavedReportOnlyImproves
BY PartsBehave, SavedReportsImprove, PTL

\* FilesFollowRows, of the part of storage: rows have their files and files their rows, where
\* no transfer failed and retention has not come (putObjectFromFile, deleteObject).
THEOREM StoredFilesHaveRows == PartsSpec => []FilesFollowRows
BY PartsBehave, FilesHaveRows, PTL

\* GateFollowsFindings, of the part of the audit's report: its gate follows from everything
\* that was found (enrichReportForUniversalAudit).
THEOREM SavedGatesFollow == PartsSpec => []GateFollowsFindings
BY PartsBehave, GatesFollowFindings, PTL

\* ProtectedPagesAreAccountedFor, of the part of the browser: protected pages stay closed
\* without authentication, and the report says why (getBrowserQaSkipReason).
THEOREM SkippedPagesAreAccounted == PartsSpec => []ProtectedPagesAreAccountedFor
BY PartsBehave, PagesAreAccounted, PTL

\* DefaultPlanIsAccepted, of the part of the catalog: a job of a shipped agent that no
\* edit disturbs runs the shipped plan, whose graph is accepted (buildRoleExecutionGraph).
THEOREM ShippedPlansRun == PartsSpec => []DefaultPlanIsAccepted
BY PartsBehave, ShippedPlansAreAccepted, PTL

\* CycleTellsItsJob, of the part of the loop: a command queues one job and reports what became
\* of it (run-cycle.mjs).
THEOREM LoopTellsItsJobs == PartsSpec => []CycleTellsItsJob
BY PartsBehave, CommandsTellTheirJobs, PTL

\* AccessIsKept, of the part of access: one person is one user, what was removed stays gone, and
\* a job has the secrets its owner named (upsertUserIdentity, resolveWorkspaceSecrets).
THEOREM AccessStaysKept == PartsSpec => []AccessIsKept
BY PartsBehave, PeopleAndRowsStayApart, PTL

\* TreeIsTheInspectedRoot, of the part of archives: what the consumers work on is the root the
\* inspection found (resolveGitArchiveRoot, collapseSingleRoot).
THEOREM ConsumersWorkOnTheRoot == PartsSpec => []TreeIsTheInspectedRoot
BY PartsBehave, TreesAreInspectedRoots, PTL

\* SuiteIsToldAsItRan, of the part of the suite: nobody is told that a suite passed that did
\* neither run nor was said to pass by its role (buildCapabilityGaps).
THEOREM ReportsTellOfSuites == PartsSpec => []SuiteIsToldAsItRan
BY PartsBehave, SuitesAreToldAsRun, PTL

\* CoreReportIsHonest, of the part of the core: one section for each role, none of what nobody
\* has seen, and nothing left running (analyzeRepo).
THEOREM AnalysesReportHonestly == PartsSpec => []CoreReportIsHonest
BY PartsBehave, CoreReportsAreHonest, PTL

\* All parts keep their types, those that move and those that do not.
TypesOfParts ==
  /\ SourceType
  /\ BillingType
  /\ ResultsType
  /\ AuthType
  /\ CacheType
  /\ VerdictType
  /\ CatalogType
  /\ ConsoleType
  /\ RunnerType
  /\ AccessType
  /\ QualityType
  /\ TreeType
  /\ CycleType
  /\ SpaceType
  /\ PortalType
  /\ CoreAnalysisType
  /\ GatewayType
  /\ ImportType
  /\ StorageType
  /\ ReadinessType

\* Each part keeps its types in the composition.
LEMMA TypesKeep == PartsSpec => []TypesOfParts
<1>0. BillingInv => BillingType
  BY DEF BillingInv
<1>1. PartsSpec => []SourceType
  BY PartsBehave, SourceTypesHold, PTL
<1>2. PartsSpec => []BillingType
  BY <1>0, PartsBehave, BillingInvariant, PTL
<1>3. PartsSpec => []ResultsType
  BY PartsBehave, ResultsTypes, PTL
<1>4. PartsSpec => []AuthType
  BY PartsBehave, AuthTypes, PTL
<1>5. PartsSpec => []CacheType
  BY PartsBehave, CacheTypes, PTL
<1>6. PartsSpec => []VerdictType
  BY PartsBehave, VerdictTypes, PTL
<1>7. PartsSpec => []CatalogType
  BY PartsBehave, CatalogTypes, PTL
<1>8. PartsSpec => []ConsoleType
  BY PartsBehave, ConsoleTypes, PTL
<1>9. PartsSpec => []RunnerType
  BY PartsBehave, RunnerTypes, PTL
<1>10. PartsSpec => []AccessType
  BY PartsBehave, AccessTypes, PTL
<1>11. PartsSpec => []QualityType
  BY PartsBehave, QualityTypes, PTL
<1>12. PartsSpec => []TreeType
  BY PartsBehave, TreesAreInspectedRoots, PTL
<1>13. PartsSpec => []CycleType
  BY PartsBehave, CycleTypes, PTL
<1>14. PartsSpec => []SpaceType
  BY PartsBehave, SpaceTypes, PTL
<1>15. PartsSpec => []PortalType
  BY PartsBehave, PortalTypes, PTL
<1>16. PartsSpec => []CoreAnalysisType
  BY PartsBehave, CoreReportsAreHonest, PTL
<1>17. PartsSpec => []GatewayType
  BY PartsBehave, GatewayTypes, PTL
<1>18. PartsSpec => []ImportType
  BY PartsBehave, ImportTypes, PTL
<1>19. PartsSpec => []StorageType
  BY PartsBehave, StorageIsTyped, PTL
<1>20. PartsSpec => []ReadinessType
  BY PartsBehave, SuitesAreToldAsRun, PTL
<1> QED BY <1>1, <1>2, <1>3, <1>4, <1>5, <1>6, <1>7, <1>8, <1>9, <1>10,
           <1>11, <1>12, <1>13, <1>14, <1>15, <1>16, <1>17, <1>18, <1>19, <1>20,
           PTL DEF TypesOfParts

\* The part that moves never changes, and is one of the twenty.
LEMMA PartStays == PartsSpec => [](part \in AllParts)
<1>1. PartsInit => part \in AllParts
  BY PartsAssumption DEF PartsInit
<1>2. part \in AllParts /\ [PartsNext]_partsVars => (part \in AllParts)'
  BY DEF PartsNext, Others, partsVars, AllParts
<1> QED BY <1>1, <1>2, PTL DEF PartsSpec

\* PartsType: whatever part behaves, its variables keep their types, for every value of the
\* constants: references name rows that exist, counters stay within what the code bounds, and
\* nothing has a status that its table does not know.
THEOREM EveryPartIsTyped == PartsSpec => []PartsType
<1>1. part \in AllParts /\ TypesOfParts => PartsType
  BY DEF AllParts, TypesOfParts, PartsType
<1> QED BY <1>1, TypesKeep, PartStays, PTL
=============================================================================
