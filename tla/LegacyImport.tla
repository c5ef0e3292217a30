---------------------------- MODULE LegacyImport ----------------------------
(***************************************************************************)
(* Every process that starts takes over the snapshot file of the product's *)
(* first version when the database has no workspace yet: it deletes what   *)
(* there is and writes table after table, without a transaction around all *)
(* of it.  Processes may start at once, fail and start again.              *)
(***************************************************************************)
EXTENDS Naturals, Sequences, SequencesExt

CONSTANTS
  Starters,  \* processes that call initializeDatabase
  MaxDeaths  \* bound: deaths during a start

\* The tables in the order they are written in; secrets, subscriptions, installations and
\* checkout sessions, which no table refers to either, are taken with the memberships.
Tables == <<"users", "workspaces", "memberships", "sources", "jobs", "logs", "reports", "artifacts">>

\* The tables a row of each refers to.
Parents(t) ==
  CASE t = "users"             -> {}
    [] t = "workspaces"        -> {"users"}
    [] t = "memberships"       -> {"users", "workspaces"}
    [] t = "sources"           -> {"workspaces"}
    [] t = "jobs"              -> {"users", "sources"}
    [] t \in {"logs", "reports"} -> {"jobs"}
    [] t = "artifacts"         -> {"jobs", "reports"}

ASSUME DeathsAssumption == MaxDeaths \in Nat

VARIABLES
  snapshot, \* the file: "absent", "unreadable", "refused" for a source of an unknown type,
            \* "whole", "agents" when its jobs name agents, "people" when it has only users
  kept,     \* the tables with the snapshot's rows
  fresh,    \* the tables, users or workspaces, with rows made since by people
  agents,   \* has the catalog of agents been written?
  starts,   \* of each starter: "down", "up", or the step of initializeDatabase it is at
  deaths,
  overlapped, \* history: two starters went to import at once
  cut,        \* history: an import ended early that had written its workspaces
  wiped        \* history: a workspace that somebody made has been deleted

importVars == <<snapshot, kept, fresh, agents, starts, deaths, overlapped, cut, wiped>>

StartSteps == {"down", "count", "delete", "write", "seed", "up"}

ImportType ==
  /\ snapshot \in {"absent", "unreadable", "refused", "whole", "agents", "people"}
  /\ kept \subseteq ToSet(Tables) /\ fresh \subseteq {"users", "workspaces"}
  /\ \A p \in Starters : starts[p].at \in StartSteps /\ starts[p].next \in 0 .. Len(Tables) + 1
  /\ deaths \in 0 .. MaxDeaths
  /\ {agents, overlapped, cut, wiped} \subseteq BOOLEAN

StartAt(s) == [at |-> s, next |-> 0]

ImportInit ==
  /\ snapshot \in {"absent", "unreadable", "refused", "whole", "agents", "people"}
  /\ kept = {} /\ fresh = {} /\ agents = FALSE
  /\ starts = [p \in Starters |-> StartAt("down")]
  /\ deaths = 0
  /\ overlapped = FALSE /\ cut = FALSE /\ wiped = FALSE

GoesTo(p, s) == starts' = [starts EXCEPT ![p] = s]

Importing(p) == starts[p].at \in {"delete", "write"}

StartUp(p) ==
  /\ starts[p].at = "down" /\ GoesTo(p, StartAt("count"))
  /\ UNCHANGED <<snapshot, kept, fresh, agents, deaths, overlapped, cut, wiped>>

\* Mutant: a database with users counts as one in use.
HasUsers == "users" \in kept \union fresh

\* workspace.count() > 0
InUse == "workspaces" \in kept \union fresh

\* The file is read, and its secrets and types are converted, before anything is deleted.
CountWorkspaces(p) ==
  /\ starts[p].at = "count"
  /\ \/ /\ InUse \/ snapshot \in {"absent", "unreadable"}
        /\ GoesTo(p, StartAt("seed")) /\ UNCHANGED overlapped
     \/ /\ ~ InUse /\ snapshot = "refused"
        /\ GoesTo(p, StartAt("down")) /\ UNCHANGED overlapped
     \/ /\ ~ InUse /\ snapshot \in {"whole", "agents", "people"}
        /\ GoesTo(p, StartAt("delete"))
        /\ overlapped' = (overlapped \/ \E q \in Starters \ {p} : Importing(q))
  /\ UNCHANGED <<snapshot, kept, fresh, agents, deaths, cut, wiped>>

DeleteAll(p) ==
  /\ starts[p].at = "delete"
  /\ kept' = {} /\ fresh' = {}
  /\ wiped' = (wiped \/ "workspaces" \in fresh)
  /\ GoesTo(p, [at |-> "write", next |-> 1])
  /\ UNCHANGED <<snapshot, agents, deaths, overlapped, cut>>

\* The snapshot has rows for the table.
HasRows(t) == snapshot = "people" => t = "users"

\* A createMany fails where rows are twice or refer to none.
Fits(t) ==
  /\ t \notin kept /\ Parents(t) \subseteq kept
  /\ t = "jobs" /\ snapshot = "agents" => agents

\* An import that ends early.
Ends(p) ==
  /\ GoesTo(p, StartAt("down"))
  /\ cut' = (cut \/ starts[p].next > 2)

WriteTable(p) ==
  /\ starts[p].at = "write" /\ starts[p].next <= Len(Tables)
  /\ LET t == Tables[starts[p].next]
     IN  \/ /\ HasRows(t) => Fits(t)
            /\ kept' = IF HasRows(t) THEN kept \union {t} ELSE kept
            /\ GoesTo(p, [starts[p] EXCEPT !.next = @ + 1]) /\ UNCHANGED cut
         \/ HasRows(t) /\ ~ Fits(t) /\ Ends(p) /\ UNCHANGED kept
  /\ UNCHANGED <<snapshot, fresh, agents, deaths, overlapped, wiped>>

FinishImport(p) ==
  /\ starts[p].at = "write" /\ starts[p].next > Len(Tables)
  /\ GoesTo(p, StartAt("seed"))
  /\ UNCHANGED <<snapshot, kept, fresh, agents, deaths, overlapped, cut, wiped>>

SeedAfterImport(p) ==
  /\ starts[p].at = "seed"
  /\ agents' = TRUE /\ GoesTo(p, StartAt("up"))
  /\ UNCHANGED <<snapshot, kept, fresh, deaths, overlapped, cut, wiped>>

\* A process dies during its start, or is stopped after it.
DieInStart(p) ==
  /\ starts[p].at \notin {"down", "up"} /\ deaths < MaxDeaths
  /\ deaths' = deaths + 1 /\ Ends(p)
  /\ UNCHANGED <<snapshot, kept, fresh, agents, overlapped, wiped>>

ShutDown(p) ==
  /\ starts[p].at = "up" /\ GoesTo(p, StartAt("down"))
  /\ UNCHANGED <<snapshot, kept, fresh, agents, deaths, overlapped, cut, wiped>>

\* People sign in at a process that is up, and create workspaces.
SignUp(t) ==
  /\ \E p \in Starters : starts[p].at = "up"
  /\ t = "workspaces" => "users" \in fresh
  /\ fresh' = fresh \union {t}
  /\ UNCHANGED <<snapshot, kept, agents, starts, deaths, overlapped, cut, wiped>>

ImportNext ==
  \/ \E p \in Starters :
       \/ StartUp(p) \/ CountWorkspaces(p) \/ DeleteAll(p) \/ WriteTable(p) \/ FinishImport(p)
       \/ SeedAfterImport(p) \/ DieInStart(p) \/ ShutDown(p)
  \/ SignUp("users") \/ SignUp("workspaces")

-----------------------------------------------------------------------------

\* Unless two processes imported at once, a snapshot with workspaces deletes none that
\* somebody made, and a process that is up has the whole snapshot or none of it but for an
\* import that ended early after it had written the workspaces; one that ended before is
\* made again.
ImportKeepsData ==
  ~ overlapped =>
    /\ wiped => snapshot = "people"
    /\ (\A p \in Starters : ~ Importing(p)) /\ (\E p \in Starters : starts[p].at = "up") /\ ~ cut =>
         kept \in {{}, {t \in ToSet(Tables) : HasRows(t)}}
=============================================================================
