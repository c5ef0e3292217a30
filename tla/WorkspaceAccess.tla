-------------------------- MODULE WorkspaceAccess ---------------------------
(***************************************************************************)
(* Who a request acts as and what it may change: every request of the API  *)
(* first writes the user of the person that signed in, then asks for the   *)
(* person's role in the workspace, then changes members, secrets or jobs,  *)
(* and last writes the audit log.  Each call to the database is a step of  *)
(* its own; a request that throws has no further effect.                   *)
(***************************************************************************)
EXTENDS Naturals, FiniteSets, FiniteSetsExt

CONSTANTS
  People,      \* identities (provider and subject)
  Mails,       \* e-mail addresses
  Requests,    \* what handles requests
  MaxHandled, \* bound: requests of a behaviour
  MaxMoves     \* bound: changes of a person's e-mail address

\* There are an owner, somebody else, and an address for each.
ASSUME AccessAssumption ==
  /\ \E p, q \in People : p # q
  /\ \E m, n \in Mails : m # n

VARIABLES
  mail,     \* e-mail address of each person at the identity provider
  users,    \* User rows
  spaces,   \* Workspace rows; 1 has the members and secrets below, 2 has secret 2
  members,  \* WorkspaceMembership rows of workspace 1
  secrets,  \* WorkspaceSecret rows
  job,      \* an analysis of workspace 1, the only one
  request,
  trail,    \* AuditLog rows
  acted,    \* history: people and the users they acted as
  wrote,    \* history: people and the addresses they signed in with
  made      \* requests, address changes and ids so far

accessRows == <<users, spaces, members, secrets, job, trail>>
spaceVars  == <<mail, accessRows, request, acted, wrote, made>>

Operations == {"workspace", "add", "remove", "secret", "update", "delete", "submit", "list"}
Quiet      == [at |-> "none"]
NoJob      == [at |-> "none"]

\* A request, or the job, with one more thing that is known of it
Knowing(q, field, value) == [x \in DOMAIN q \union {field} |-> IF x = field THEN value ELSE q[x]]

Fresh(rows) == Max({r.id : r \in rows} \union {0}) + 1
Owner1      == (CHOOSE w \in spaces : w.id = 1).owner

\* buildRoleFromWorkspace
RoleIn1(u) ==
  IF Owner1 = u THEN "owner" ELSE IF \E m \in members : m.user = u THEN "member" ELSE "none"

SpaceType ==
  /\ mail \in [People -> Mails]
  /\ \A u \in users : u.id \in Nat /\ u.person \in People /\ u.mail \in Mails
  /\ \A w \in spaces : w.id \in Nat /\ w.slug \in Nat /\ \E u \in users : u.id = w.owner
  /\ \A m \in members : m.id \in Nat /\ \E u \in users : u.id = m.user
  /\ \A s \in secrets : s.id \in Nat /\ s.space \in {1, 2} /\ s.version \in {1, 2}
  /\ job = NoJob \/ job.at \in {"queued", "running"}
  /\ \A r \in Requests : request[r] = Quiet \/ request[r].op \in Operations
  /\ \A a \in trail : a.op \in Operations
  /\ acted \subseteq People \X Nat /\ wrote \subseteq People \X Mails

\* A workspace with its owner, who may have a member, and somebody else's workspace.
SpaceInit ==
  LET ann == CHOOSE p \in People : TRUE
      bob == CHOOSE p \in People \ {ann} : TRUE
      a == CHOOSE m \in Mails : TRUE
      b == CHOOSE m \in Mails \ {a} : TRUE
  IN  \E rest \in {{}, {2}} :
        /\ mail = [p \in People |-> IF p = ann THEN a ELSE b]
        /\ users = {[id |-> 1, person |-> ann, mail |-> a]}
                      \union {[id |-> i, person |-> bob, mail |-> b] : i \in rest}
        /\ spaces = {[id |-> i, owner |-> i, slug |-> i] : i \in {1} \union rest}
        /\ members = {[id |-> i, user |-> i] : i \in {1} \union rest}
        /\ secrets = {[id |-> i, space |-> i, version |-> 1] : i \in {1} \union rest}
        /\ acted = {<<u.person, u.id>> : u \in users}
        /\ wrote = {<<u.person, u.mail>> : u \in users}
        /\ job = NoJob
        /\ request = [r \in Requests |-> Quiet]
        /\ trail = {}
        /\ made = [requests |-> 0, moves |-> 0, ids |-> 2]

-----------------------------------------------------------------------------
(* resolveAuthenticatedUser and upsertUserIdentity *)

\* What a request is about: an address, a row, or the secrets of a job.
Arguments(op) ==
  CASE op = "add" -> Mails
    [] op = "remove" -> {m.id : m \in members}
    [] op \in {"update", "delete"} -> {s.id : s \in secrets}
    [] op = "submit" -> {{}, {s.id : s \in secrets}}
    [] OTHER -> {"none"}

BeginRequest(r, p, op) ==
  /\ request[r] = Quiet /\ made.requests < MaxHandled
  /\ \E arg \in Arguments(op) :
       request' = [request EXCEPT ![r] =
                    [at |-> "identity", person |-> p, mail |-> mail[p], op |-> op, arg |-> arg]]
  /\ made' = [made EXCEPT !.requests = @ + 1]
  /\ UNCHANGED <<mail, accessRows, acted, wrote>>

\* The row of the identity, else of the address, else none.
ReadUser(r) ==
  /\ request[r].at = "identity"
  /\ LET mine == {u \in users : u.person = request[r].person}
         same == {u \in users : u.mail = request[r].mail}
         found == IF mine # {} THEN mine ELSE same
     IN  request' = [request EXCEPT ![r] =
                       Knowing([@ EXCEPT !.at = "user"], "row", {u.id : u \in found})]
  /\ UNCHANGED <<mail, accessRows, acted, wrote, made>>

\* Mutant: neither the identity nor the address of a user is unique.
AnyUser(u, others) == TRUE

\* @@unique([identityProvider, identitySubject]) and email @unique
UniqueUser(u, others) == \A o \in others : o.person # u.person /\ o.mail # u.mail

\* Updated by its id or created; a clash of identities or addresses throws.
WriteUser(r) ==
  /\ request[r].at = "user"
  /\ LET q == request[r]
         id == IF q.row = {} THEN Fresh(users) ELSE CHOOSE i \in q.row : TRUE
         others == {u \in users : u.id # id}
         new == [id |-> id, person |-> q.person, mail |-> q.mail]
     IN  IF UniqueUser(new, others)
         THEN /\ users' = others \union {new}
              /\ request' = [request EXCEPT ![r] = Knowing([@ EXCEPT !.at = "role"], "user", id)]
              /\ acted' = acted \union {<<q.person, id>>}
              /\ wrote' = wrote \union {<<q.person, q.mail>>}
         ELSE request' = [request EXCEPT ![r] = Quiet] /\ UNCHANGED <<users, acted, wrote>>
  /\ UNCHANGED <<mail, spaces, members, secrets, job, trail, made>>

\* Somebody's address changes at the identity provider.
ChangeMail(p, m) ==
  /\ made.moves < MaxMoves /\ m # mail[p]
  /\ mail' = [mail EXCEPT ![p] = m]
  /\ made' = [made EXCEPT !.moves = @ + 1]
  /\ UNCHANGED <<accessRows, request, acted, wrote>>

-----------------------------------------------------------------------------
(* The handlers *)

Goes(r, at)   == request' = [request EXCEPT ![r].at = at]
Closes(r)     == request' = [request EXCEPT ![r] = Quiet]
Says(r, x)    == request' = [request EXCEPT ![r] = Knowing([@ EXCEPT !.at = "audit"], "target", x)]
NextId        == made.ids + 1
TakeId        == made' = [made EXCEPT !.ids = @ + 1]

\* requireWorkspaceRole; only an owner attaches secrets to a job.
Suffices(q, role) ==
  IF q.op = "list" \/ (q.op = "submit" /\ q.arg = {}) THEN role # "none" ELSE role = "owner"

\* nextWorkspaceSlug: the first of base, base-2, ... that no workspace has.
FindSlug(r) ==
  /\ request[r].at = "role" /\ request[r].op = "workspace"
  /\ LET taken == {w.slug : w \in spaces}
     IN  request' = [request EXCEPT ![r] =
           [@ EXCEPT !.at = "write", !.arg = Min((1 .. Cardinality(taken) + 1) \ taken)]]
  /\ UNCHANGED <<mail, accessRows, acted, wrote, made>>

\* The role is read first: an owner keeps it, and a member lists or submits.
Enters(r, op) ==
  /\ request[r].at = "role" /\ request[r].op = op
  /\ Suffices(request[r], RoleIn1(request[r].user))

Refuse(r) ==
  /\ request[r].at = "role" /\ request[r].op # "workspace"
  /\ ~ Suffices(request[r], RoleIn1(request[r].user))
  /\ Closes(r)
  /\ UNCHANGED <<mail, accessRows, acted, wrote, made>>

\* addWorkspaceMember: the user of the address, and the membership it may have already.
FindUser(r) ==
  /\ Enters(r, "add")
  /\ LET named == {u \in users : u.mail = request[r].arg}
         has == {m \in members : \E u \in named : m.user = u.id}
     IN  \/ named = {} /\ Closes(r)
         \/ \E m \in has : Says(r, m.id)
         \/ /\ has = {}
            /\ \E u \in named :
                 request' = [request EXCEPT ![r].at = "write", ![r].arg = u.id]
  /\ UNCHANGED <<mail, accessRows, acted, wrote, made>>

\* removeWorkspaceMember: anybody's but the owner's.
FindMembership(r) ==
  /\ Enters(r, "remove")
  /\ IF \E m \in members : m.id = request[r].arg /\ m.user # Owner1
     THEN Goes(r, "write") ELSE Closes(r)
  /\ UNCHANGED <<mail, accessRows, acted, wrote, made>>

\* updateWorkspaceSecretForUser, deleteWorkspaceSecretForUser: one of the workspace.
FindSecret(r) ==
  /\ Enters(r, "update") \/ Enters(r, "delete")
  /\ IF \E s \in secrets : s.id = request[r].arg /\ s.space = 1
     THEN Goes(r, "write") ELSE Closes(r)
  /\ UNCHANGED <<mail, accessRows, acted, wrote, made>>

\* A list of members, secrets or sources ends the request.
ListRows(r) ==
  /\ Enters(r, "list")
  /\ Closes(r)
  /\ UNCHANGED <<mail, accessRows, acted, wrote, made>>

\* The slug is unique, as is the user of a workspace; a clash throws.
InsertWorkspace(r) ==
  /\ request[r].at = "write" /\ request[r].op = "workspace"
  /\ LET id == Fresh(spaces)
     IN  IF \E w \in spaces : w.slug = request[r].arg
         THEN Closes(r) /\ UNCHANGED spaces
         ELSE /\ spaces' = spaces \union {[id |-> id, owner |-> request[r].user,
                                          slug |-> request[r].arg]}
              /\ Says(r, id)
  /\ UNCHANGED <<mail, users, members, secrets, job, trail, acted, wrote, made>>

CreateMembership(r) ==
  /\ request[r].at = "write" /\ request[r].op = "add"
  /\ IF \E m \in members : m.user = request[r].arg
     THEN Closes(r) /\ UNCHANGED <<members, made>>
     ELSE /\ members' = members \union {[id |-> NextId, user |-> request[r].arg]}
          /\ Says(r, NextId) /\ TakeId
  /\ UNCHANGED <<mail, users, spaces, secrets, job, trail, acted, wrote>>

\* workspaceMembership.delete throws when the row is gone.
Removes(id) == \E m \in members : m.id = id

DeleteMembership(r) ==
  /\ request[r].at = "write" /\ request[r].op = "remove"
  /\ IF Removes(request[r].arg)
     THEN /\ members' = {m \in members : m.id # request[r].arg}
          /\ Says(r, request[r].arg)
     ELSE Closes(r) /\ UNCHANGED members
  /\ UNCHANGED <<mail, users, spaces, secrets, job, trail, acted, wrote, made>>

CreateSecret(r) ==
  /\ Enters(r, "secret")
  /\ secrets' = secrets \union {[id |-> NextId, space |-> 1, version |-> 1]}
  /\ Says(r, NextId) /\ TakeId
  /\ UNCHANGED <<mail, users, spaces, members, job, trail, acted, wrote>>

\* Updated or deleted by its id: throws when the row is gone.
WriteSecret(r) ==
  /\ request[r].at = "write" /\ request[r].op \in {"update", "delete"}
  /\ LET id == request[r].arg
         others == {s \in secrets : s.id # id}
     IN  IF others = secrets
         THEN Closes(r) /\ UNCHANGED secrets
         ELSE /\ secrets' = IF request[r].op = "delete" THEN others
                            ELSE others \union {[id |-> id, space |-> 1, version |-> 2]}
              /\ Says(r, id)
  /\ UNCHANGED <<mail, users, spaces, members, job, trail, acted, wrote, made>>

\* createAnalysisJobForUser with secretRefs, which nothing compares with the rows.
SubmitJob(r) ==
  /\ Enters(r, "submit") /\ job = NoJob
  /\ job' = [at |-> "queued", by |-> request[r].user, refs |-> request[r].arg]
  /\ Says(r, 1)
  /\ UNCHANGED <<mail, users, spaces, members, secrets, trail, acted, wrote, made>>

\* recordAuditLog, where it is enabled.
WriteTrail(r) ==
  /\ request[r].at = "audit"
  /\ trail' = trail \union {[op |-> request[r].op, target |-> request[r].target, of |-> r]}
  /\ Closes(r)
  /\ UNCHANGED <<mail, users, spaces, members, secrets, job, acted, wrote, made>>

\* A call throws, or the process dies, before the change is logged.
LoseHandler(r) ==
  /\ request[r].at = "audit"
  /\ Closes(r)
  /\ UNCHANGED <<mail, accessRows, acted, wrote, made>>

\* resolveWorkspaceSecrets when the job is claimed; a missing one is left out.
Resolved(refs) == {s \in secrets : s.space = 1 /\ s.id \in refs}

ClaimJob ==
  /\ job # NoJob /\ job.at = "queued"
  /\ job' = Knowing([job EXCEPT !.at = "running"], "given", Resolved(job.refs))
  /\ UNCHANGED <<mail, users, spaces, members, secrets, request, trail, acted, wrote, made>>

HandlerStep(r) ==
  \/ ReadUser(r) \/ WriteUser(r) \/ FindSlug(r) \/ Refuse(r)
  \/ FindUser(r) \/ FindMembership(r) \/ FindSecret(r) \/ ListRows(r)
  \/ InsertWorkspace(r) \/ CreateMembership(r) \/ DeleteMembership(r)
  \/ CreateSecret(r) \/ WriteSecret(r) \/ SubmitJob(r)
  \/ WriteTrail(r) \/ LoseHandler(r)

SpaceNext ==
  \/ \E r \in Requests :
       \/ HandlerStep(r)
       \/ \E p \in People, op \in Operations : BeginRequest(r, p, op)
  \/ \E p \in People, m \in Mails : ChangeMail(p, m)
  \/ ClaimJob

-----------------------------------------------------------------------------

\* Of the people that act as one user each has signed in with the address of another of
\* them, and one person acts as two users only if somebody else was given one of them.
PeopleKeepTheirUser ==
  \A a, b \in acted :
    /\ a[2] = b[2] /\ a[1] # b[1] =>
         \E c \in acted : /\ c[2] = a[2] /\ c[1] # a[1]
                          /\ \E m \in Mails : <<a[1], m>> \in wrote /\ <<c[1], m>> \in wrote
    /\ a[1] = b[1] /\ a[2] # b[2] => \E c \in acted : c[1] # a[1] /\ c[2] \in {a[2], b[2]}

\* What the audit log says was removed is gone for good, and was removed by one request.
TrailFollowsChanges ==
  \A a \in trail :
    /\ a.op = "remove" => \A m \in members : m.id # a.target
    /\ a.op = "delete" => \A s \in secrets : s.id # a.target
    /\ a.op \in {"remove", "delete"} =>
         \A b \in trail : b.op = a.op /\ b.target = a.target => b = a

\* A job runs with secrets of its own workspace that its owner named.
SecretsStayHome ==
  job # NoJob /\ job.at = "running" =>
    \A s \in job.given : s.space = 1 /\ s.id \in job.refs /\ job.by = Owner1

\* Requests that race for users, members and secrets keep each of them apart.
AccessIsKept == PeopleKeepTheirUser /\ TrailFollowsChanges /\ SecretsStayHome
=============================================================================
