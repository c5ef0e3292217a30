----------------------------- MODULE AiCatalog ------------------------------
(***************************************************************************)
(* The AI roles and agents: the default catalog that every start of a      *)
(* process writes into the database (ensureDefaultAiAgentCatalog), the     *)
(* admins who edit it, and a job that is given the plan of its agent in    *)
(* between (getAiAgentExecutionPlan, buildRoleExecutionGraph).  Skills,    *)
(* prompts and names are text and left out.                                *)
(***************************************************************************)
EXTENDS Naturals, Sequences, SequencesExt

CONSTANTS
  CustomRoles, \* ids of roles that admins add
  Edited,      \* the roles and agents that admins edit
  Lists,       \* what they enter: lists of role ids
  MaxEdits

VARIABLES
  roleRows,   \* ids in AiRole
  dependsOn,  \* AiRoleDependency rows of every role
  agentRoles, \* AiAgentRole rows of every agent in their order, or NoAgent
  newRow,     \* a role or agent whose row exists and whose links are to come
  edits,      \* how often an admin has changed something
  edited,     \* history: a default role or agent was, after the last start
  planned     \* a job, and what became of its plan

catalogVars == <<roleRows, dependsOn, agentRoles, newRow, edits, edited, planned>>
editVars    == <<roleRows, dependsOn, agentRoles, newRow, edits, edited>>

-----------------------------------------------------------------------------
(* The default catalog *)

\* dependencyKeys of roleSpecs
DefaultDependencies ==
  [topology      |-> {},
   runtime       |-> {"topology"},
   auth          |-> {"runtime"},
   liveSurface   |-> {"topology", "runtime"},
   license       |-> {"topology"},
   dependencies  |-> {"runtime"},
   architecture  |-> {"topology"},
   codeHealth    |-> {"runtime", "architecture"},
   components    |-> {"topology"},
   designSystem  |-> {"components"},
   copyText      |-> {"components"},
   accessibility |-> {"components"},
   navigation    |-> {"runtime", "auth", "liveSurface"},
   browser       |-> {"navigation"},
   playwright    |-> {"runtime", "auth", "navigation"},
   visualQa      |-> {"components", "browser"},
   uxFriction    |-> {"navigation", "browser"},
   crossSurface  |-> {"license", "copyText", "navigation"},
   artifacts     |-> {"browser", "playwright"},
   remediation   |-> {"architecture", "codeHealth", "visualQa", "uxFriction", "artifacts"},
   e2eRemedy     |-> {"topology", "runtime"},
   fixReadiness  |-> {"remediation"},
   gate          |-> {"crossSurface", "artifacts", "remediation", "e2eRemedy"},
   json          |-> {"runtime", "auth", "navigation", "playwright", "artifacts", "remediation",
                      "e2eRemedy", "gate"},
   smoke         |-> {"topology"}]

DefaultRoles == DOMAIN DefaultDependencies

\* roleKeys of agentSpecs
DefaultAgentRoles ==
  LET broad == <<"topology", "runtime", "auth", "liveSurface", "license", "dependencies",
                 "architecture", "codeHealth", "components", "designSystem", "copyText",
                 "accessibility", "navigation", "browser", "playwright", "visualQa",
                 "uxFriction", "crossSurface", "artifacts", "remediation">>
      ending == <<"gate", "json">>
  IN  [e2eSmoke       |-> <<"topology", "runtime", "smoke">> \o ending,
       e2eRemediation |-> <<"topology", "runtime", "smoke", "e2eRemedy">> \o ending,
       universalSmoke |-> <<"topology", "runtime", "license", "smoke">> \o ending,
       runtimeTooling |-> <<"runtime", "browser", "playwright", "artifacts", "json">>,
       standard       |-> broad \o ending,
       exhaustive     |-> broad \o <<"fixReadiness">> \o ending,
       planner        |-> <<"remediation">> \o ending,
       readiness      |-> <<"remediation", "fixReadiness">> \o ending]

DefaultAgents == DOMAIN DefaultAgentRoles

CustomAgent == "custom"
RoleIds     == DefaultRoles \union CustomRoles
AgentIds    == DefaultAgents \union {CustomAgent}
NoAgent     == <<"no agent">>
Nothing     == [id |-> "none"]
Jobless     == [at |-> "none"]

ASSUME CatalogAssumption ==
  /\ Edited \subseteq RoleIds \union AgentIds
  \* A list with a role twice throws: the rows have a key of agent and role.
  /\ \A list \in Lists : list \in Seq(RoleIds) /\ IsInjective(list)
  /\ CustomRoles \intersect DefaultRoles = {}   \* an admin's role gets an id of its own
  /\ MaxEdits \in Nat

CatalogType ==
  /\ roleRows \subseteq RoleIds
  /\ dependsOn \in [RoleIds -> SUBSET roleRows]
  /\ \A a \in AgentIds : agentRoles[a] = NoAgent \/ ToSet(agentRoles[a]) \subseteq roleRows
  /\ newRow = Nothing \/ newRow.id \in CustomRoles \union {CustomAgent}
  /\ edits \in 0 .. MaxEdits
  /\ edited \in BOOLEAN

CatalogInit ==
  /\ roleRows = DefaultRoles
  /\ dependsOn = [r \in RoleIds |-> IF r \in DefaultRoles THEN DefaultDependencies[r] ELSE {}]
  /\ agentRoles = [a \in AgentIds |-> IF a \in DefaultAgents THEN DefaultAgentRoles[a] ELSE NoAgent]
  /\ newRow = Nothing
  /\ edits = 0 /\ edited = FALSE
  /\ planned = Jobless

-----------------------------------------------------------------------------
(* A process starts *)

\* Mutant: the dependencies a role has stay.
MoreDependencies(r) == dependsOn[r] \union DefaultDependencies[r]

\* The dependencies of a default role are deleted and written.
SeededDependencies(r) == DefaultDependencies[r]

\* ensureDefaultAiAgentCatalog: one transaction, whose first write of a row makes the
\* admins' writes of that row wait.
SeedCatalog ==
  /\ roleRows' = roleRows \union DefaultRoles
  /\ dependsOn' = [r \in RoleIds |-> IF r \in DefaultRoles THEN SeededDependencies(r) ELSE dependsOn[r]]
  /\ agentRoles' = [a \in AgentIds |->
                      IF a \in DefaultAgents THEN DefaultAgentRoles[a] ELSE agentRoles[a]]
  /\ edited' = FALSE
  /\ UNCHANGED <<newRow, edits, planned>>

-----------------------------------------------------------------------------
(* Admins *)

\* Default roles and agents are what the history records; a job that is reading saw both.
Edit(id) ==
  /\ edits < MaxEdits
  /\ edits' = edits + 1
  /\ edited' = (edited \/ id \in DefaultRoles \union DefaultAgents)

\* The edit may be seen by a job that is reading its plan.
Seen(id) ==
  planned' = IF planned.at = "reading" /\ id \in DefaultRoles \union DefaultAgents
             THEN [planned EXCEPT !.tainted = TRUE] ELSE planned

\* createAiRole and createAiAgent: the row ...
CreateRow(id, list) ==
  /\ Edit(id)
  /\ newRow = Nothing
  /\ \/ id \in CustomRoles \ roleRows /\ roleRows' = roleRows \union {id} /\ UNCHANGED agentRoles
     \/ /\ id = CustomAgent /\ agentRoles[id] = NoAgent
        /\ agentRoles' = [agentRoles EXCEPT ![id] = <<>>] /\ UNCHANGED roleRows
  /\ newRow' = [id |-> id, list |-> list]
  /\ UNCHANGED <<dependsOn, planned>>

\* ... then its links, which throws when a role of them, or the row, is gone.
CreateLinks ==
  /\ newRow # Nothing
  /\ ToSet(newRow.list) \subseteq roleRows
  /\ LET id == newRow.id
     IN  \/ /\ id \in roleRows
            /\ dependsOn' = [dependsOn EXCEPT ![id] = ToSet(newRow.list)]
            /\ UNCHANGED agentRoles
         \/ /\ id = CustomAgent /\ agentRoles[id] # NoAgent
            /\ agentRoles' = [agentRoles EXCEPT ![id] = newRow.list]
            /\ UNCHANGED dependsOn
  /\ newRow' = Nothing
  /\ UNCHANGED <<roleRows, edits, edited, planned>>

\* That call throws, or the process dies before it: a role without dependencies, an
\* agent without roles.
LinksFail ==
  /\ newRow # Nothing
  /\ newRow' = Nothing
  /\ UNCHANGED <<roleRows, dependsOn, agentRoles, edits, edited, planned>>

\* updateAiRole: a role cannot depend on itself; on what it depends indirectly is not asked.
UpdateRole(id, list) ==
  /\ Edit(id)
  /\ id \in roleRows \ ToSet(list) /\ ToSet(list) \subseteq roleRows
  /\ dependsOn' = [dependsOn EXCEPT ![id] = ToSet(list)]
  /\ Seen(id)
  /\ UNCHANGED <<roleRows, agentRoles, newRow>>

\* The list without the role that it has once.
Without(list, id) == RemoveAt(list, CHOOSE i \in DOMAIN list : list[i] = id)

\* deleteAiRole, with the rows that refer to the role
DeleteRole(id) ==
  /\ Edit(id)
  /\ id \in roleRows
  /\ roleRows' = roleRows \ {id}
  /\ dependsOn' = [r \in RoleIds |-> IF r = id THEN {} ELSE dependsOn[r] \ {id}]
  /\ agentRoles' = [a \in AgentIds |-> IF id \in ToSet(agentRoles[a])
                                        THEN Without(agentRoles[a], id)
                                        ELSE agentRoles[a]]
  /\ Seen(id)
  /\ UNCHANGED newRow

\* updateAiAgent
UpdateAgent(id, list) ==
  /\ Edit(id)
  /\ id \in AgentIds /\ agentRoles[id] # NoAgent
  /\ ToSet(list) \subseteq roleRows
  /\ agentRoles' = [agentRoles EXCEPT ![id] = list]
  /\ Seen(id)
  /\ UNCHANGED <<roleRows, dependsOn, newRow>>

\* deleteAiAgent; a job of the agent has none from now on.
DeleteAgent(id) ==
  /\ Edit(id)
  /\ id \in AgentIds /\ agentRoles[id] # NoAgent
  /\ agentRoles' = [agentRoles EXCEPT ![id] = NoAgent]
  /\ planned' = IF planned.at \in {"queued", "reading"} /\ planned.agent = id
                THEN [planned EXCEPT !.agent = "none", !.tainted = TRUE] ELSE planned
  /\ UNCHANGED <<roleRows, dependsOn, newRow>>

AdminStep ==
  \/ \E id \in Edited :
       \/ \E list \in Lists : CreateRow(id, list) \/ UpdateRole(id, list) \/ UpdateAgent(id, list)
       \/ DeleteRole(id) \/ DeleteAgent(id)
  \/ CreateLinks \/ LinksFail

-----------------------------------------------------------------------------
(* A job *)

\* isExclusiveRuntimeRole, by id
IsExclusive(r) == r \in {"browser", "playwright", "visualQa", "json"}

\* The dependencies a plan's roles have when they are read.
Read(dependencies, list) == [r \in ToSet(list) |-> dependencies[r]]

\* buildRoleExecutionGraph places every role of the list in some level.
PlacesAll(read, list) ==
  LET exclusive == SelectSeq(list, IsExclusive)
      roles     == ToSet(list)
      Needs(r)  == ((read[r] \intersect roles) \ {r})
                     \union {exclusive[i] : i \in {j \in 1 .. Len(exclusive) - 1 : exclusive[j + 1] = r}}
      Levels(placed, round) == {q \in roles : Needs(q) \subseteq placed}
  IN  FoldLeft(Levels, {}, list) = roles

GraphIsAccepted(list) == PlacesAll(Read(dependsOn, list), list)

\* The catalog that the product ships: nothing in this is a constant, and TLC computes it.
ASSUME ShippedAssumption ==
  /\ \A r \in DefaultRoles : DefaultDependencies[r] \subseteq DefaultRoles
  /\ \A a \in DefaultAgents :
       /\ DefaultAgentRoles[a] \in Seq(DefaultRoles) /\ IsInjective(DefaultAgentRoles[a])
       /\ PlacesAll(Read(DefaultDependencies, DefaultAgentRoles[a]), DefaultAgentRoles[a])

\* createAgentJobForUser: the agent has a plan.
SubmitPlanned(a) ==
  /\ planned = Jobless
  /\ agentRoles[a] # NoAgent
  /\ planned' = [at |-> "queued", agent |-> a, list |-> <<>>, tainted |-> FALSE, verdict |-> "none"]
  /\ UNCHANGED editVars

\* buildSandboxExecutionContext: a job that has lost its agent fails; otherwise the
\* query for the plan finds the agent and its roles ...
ReadAgent ==
  /\ planned.at = "queued"
  /\ planned' = IF planned.agent = "none"
                THEN [planned EXCEPT !.at = "done", !.verdict = "no agent"]
                ELSE [planned EXCEPT !.at = "reading", !.list = agentRoles[planned.agent],
                                     !.tainted = edited]
  /\ UNCHANGED editVars

\* ... then the roles and their dependencies, and the graph is built.
ReadDependencies ==
  /\ planned.at = "reading"
  /\ planned' = [planned EXCEPT !.at = "done", !.verdict =
                   IF \E r \in ToSet(planned.list) : r \notin roleRows THEN "role gone"
                   ELSE IF GraphIsAccepted(planned.list) THEN "accepted" ELSE "cycle"]
  /\ UNCHANGED editVars

\* The next job.
ForgetJob ==
  /\ planned.at = "done"
  /\ planned' = Jobless
  /\ UNCHANGED editVars

CatalogNext ==
  \/ SeedCatalog \/ AdminStep
  \/ \E a \in AgentIds : SubmitPlanned(a)
  \/ ReadAgent \/ ReadDependencies \/ ForgetJob

-----------------------------------------------------------------------------
(* Properties *)

\* Whatever admins did to the catalog and whatever they do to roles and agents of their
\* own, once a process has started a job of a default agent runs the roles the product
\* ships for it, in an order that exists; unless a default role or agent is edited again
\* before the job has read its plan, or the job's agent was deleted while it was queued.
DefaultPlanIsAccepted ==
  (/\ planned.at = "done"
   /\ ~planned.tainted
   /\ planned.agent \in DefaultAgents)
  => /\ planned.verdict = "accepted"
     /\ planned.list = DefaultAgentRoles[planned.agent]
=============================================================================
