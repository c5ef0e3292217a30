---------------------------- MODULE PortalSession ----------------------------
(***************************************************************************)
(* The tabs of one browser in the portal: signing in (with Keycloak or as  *)
(* the local developer), pages, calls through the portal's proxy, signing  *)
(* out.  The tabs share the browser's cookies; a request carries those of  *)
(* the moment it is sent, and an answer may change them when it arrives.   *)
(***************************************************************************)
EXTENDS Naturals

CONSTANTS
  Tabs,
  Persons,    \* who may sign in at Keycloak
  MaxSignIns, \* bound: logins begun
  MaxCalls    \* bound: calls that pages make

ASSUME PortalAssumption == MaxSignIns \in Nat /\ MaxCalls \in Nat

VARIABLES
  setup,  \* KEYCLOAK_* is set; API_AUTH_MODE is local-dev, at local addresses
  jar,    \* cookies: session, CSRF token, ID token, state of the login
  old,    \* sign-ins whose ID token has expired
  tab,    \* what each tab shows or waits for
  logins, \* so far
  calls   \* so far

portalVars == <<setup, jar, old, tab, logins, calls>>

Developer == "local developer"
None      == [n |-> 0]
NoCookies == [session |-> None, csrf |-> 0, idToken |-> None, state |-> 0]
Methods   == {"GET", "POST", "PUT", "PATCH", "DELETE"}
NewTab     == [at |-> "new"]

PortalType ==
  /\ setup \in [keycloak : BOOLEAN, localDev : BOOLEAN]
  /\ {jar.csrf, jar.state} \subseteq 0 .. logins
  /\ \A c \in {jar.session, jar.idToken} :
       c = None \/ (c.n \in 1 .. logins /\ c.who \in Persons \union {Developer})
  /\ old \subseteq 1 .. logins
  /\ \A t \in Tabs : tab[t].at \in {"new", "login", "keycloak", "callback", "exchange", "failed",
                                    "rendering", "page", "calling", "answer", "error"}
  /\ logins \in 0 .. MaxSignIns /\ calls \in 0 .. MaxCalls

PortalInit ==
  /\ setup \in [keycloak : BOOLEAN, localDev : BOOLEAN]
  /\ jar = NoCookies
  /\ old = {}
  /\ tab = [t \in Tabs |-> NewTab]
  /\ logins = 0 /\ calls = 0

Becomes(t, r) == tab' = [tab EXCEPT ![t] = r]

-----------------------------------------------------------------------------
(* /api/auth: login, callback, logout *)

\* The cookies of a sign-in, all set by one answer.
SignedIn(who, n) ==
  [session |-> [who |-> who, n |-> n], csrf |-> n,
   idToken |-> IF who = Developer THEN None ELSE [who |-> who, n |-> n], state |-> 0]

\* Mutant: the ID token of an earlier sign-in stays beside the developer's session.
KeepsIdToken(who, n) ==
  [session |-> [who |-> who, n |-> n], csrf |-> n,
   idToken |-> IF who = Developer THEN jar.idToken ELSE [who |-> who, n |-> n], state |-> 0]

\* The cookies once a login or a callback has signed somebody in.
AfterSignIn(who, n) == SignedIn(who, n)

\* Without Keycloak the developer is signed in at once, where that is allowed; the state
\* cookie of a login is left as it is.
LoginLocally(t) ==
  /\ tab[t].at = "login" /\ ~ setup.keycloak /\ logins < MaxSignIns
  /\ IF setup.localDev
     THEN /\ jar' = [AfterSignIn(Developer, logins + 1) EXCEPT !.state = jar.state]
          /\ logins' = logins + 1
          /\ Becomes(t, NewTab)
     ELSE Becomes(t, [at |-> "failed"]) /\ UNCHANGED <<jar, logins>>
  /\ UNCHANGED <<setup, old, calls>>

\* To Keycloak, with a new state in the one cookie all tabs have for it.
LoginAtKeycloak(t) ==
  /\ tab[t].at = "login" /\ setup.keycloak /\ logins < MaxSignIns
  /\ logins' = logins + 1
  /\ jar' = [jar EXCEPT !.state = logins + 1]
  /\ Becomes(t, [at |-> "keycloak", state |-> logins + 1])
  /\ UNCHANGED <<setup, old, calls>>

\* Keycloak sends the tab back, with a code for somebody or an error.
ReturnFromKeycloak(t) ==
  /\ tab[t].at = "keycloak"
  /\ \E who \in Persons \union {"error"} :
       Becomes(t, [at |-> "callback", state |-> tab[t].state, who |-> who])
  /\ UNCHANGED <<setup, jar, old, logins, calls>>

\* The state must be the cookie's: another tab's login may have replaced it.
CheckState(t) ==
  /\ tab[t].at = "callback"
  /\ IF tab[t].who # "error" /\ tab[t].state = jar.state
     THEN Becomes(t, [tab[t] EXCEPT !.at = "exchange"])
     ELSE Becomes(t, [at |-> "failed"])
  /\ UNCHANGED <<setup, jar, old, logins, calls>>

\* exchangeCodeForToken gives an ID token, or none, or throws.
ExchangeCode(t) ==
  /\ tab[t].at = "exchange"
  /\ \/ jar' = AfterSignIn(tab[t].who, tab[t].state) /\ Becomes(t, NewTab)
     \/ /\ setup.localDev
        /\ jar' = AfterSignIn(Developer, tab[t].state) /\ Becomes(t, NewTab)
     \/ /\ ~ setup.localDev
        /\ Becomes(t, [at |-> "failed"]) /\ UNCHANGED jar
     \/ Becomes(t, [at |-> "error"]) /\ UNCHANGED jar
  /\ UNCHANGED <<setup, old, logins, calls>>

SignOut(t) ==
  /\ tab[t].at \in {"page", "answer"}
  /\ jar' = NoCookies
  /\ Becomes(t, NewTab)
  /\ UNCHANGED <<setup, old, logins, calls>>

ExpireToken(n) ==
  /\ n \in 1 .. logins /\ n \notin old
  /\ \/ jar.idToken.n = n
     \/ \E t \in Tabs : tab[t].at \in {"rendering", "calling"} /\ tab[t].jar.idToken.n = n
  /\ old' = old \union {n}
  /\ UNCHANGED <<setup, jar, tab, logins, calls>>

-----------------------------------------------------------------------------
(* Pages *)

\* middleware and requirePortalSession: a session, and its ID token when it is Keycloak's.
Admitted(c) ==
  /\ c.session # None
  /\ c.session.who # Developer => c.idToken # None /\ c.idToken.n \notin old

OpenPage(t) ==
  /\ tab[t].at \in {"new", "page", "answer", "failed", "error"}
  /\ IF Admitted(jar)
     THEN Becomes(t, [at |-> "rendering", jar |-> jar])
     ELSE logins < MaxSignIns /\ Becomes(t, [at |-> "login"])
  /\ UNCHANGED <<setup, jar, old, logins, calls>>

\* resolveAuthenticatedUser: the bearer of the token if one was sent, else in local-dev the
\* session's user.
ActsAs(bearer, session) ==
  IF bearer # None
  THEN IF setup.keycloak /\ bearer.n \notin old THEN bearer.who ELSE "nobody"
  ELSE IF setup.localDev /\ session # None THEN session.who ELSE "nobody"

\* apiFetch sends both; the page shows what the API answers or that it does not.
RenderPage(t) ==
  /\ tab[t].at = "rendering"
  /\ LET as == ActsAs(tab[t].jar.idToken, tab[t].jar.session)
     IN  \/ as # "nobody" /\ Becomes(t, [at |-> "page", as |-> as, jar |-> tab[t].jar])
         \/ Becomes(t, [at |-> "error"])
  /\ UNCHANGED <<setup, jar, old, logins, calls>>

-----------------------------------------------------------------------------
(* Calls through /api/proxy *)

\* The methods that the proxy's route exports.
Proxied == {"GET", "POST", "PUT", "DELETE"}

CallApi(t) ==
  /\ tab[t].at \in {"page", "answer"} /\ calls < MaxCalls
  /\ calls' = calls + 1
  /\ \E m \in Methods :
       Becomes(t, IF m \in Proxied
                  THEN [at |-> "calling", method |-> m, jar |-> jar]
                  ELSE [at |-> "answer", status |-> "not allowed", method |-> m])
  /\ UNCHANGED <<setup, jar, old, logins>>

\* The token is forwarded unless the API is in local-dev.
Bearer(c) == IF setup.localDev THEN None ELSE c.idToken

\* preHandler: a change that comes with a session and no bearer needs the session's token.
PassesCsrf(m, c) ==
  m = "GET" \/ Bearer(c) # None \/ c.session = None \/ c.csrf = c.session.n

AnswerCall(t) ==
  /\ tab[t].at = "calling"
  /\ LET c == tab[t].jar
         as == ActsAs(Bearer(c), c.session)
         answer(s) == [at |-> "answer", status |-> s, method |-> tab[t].method]
     IN  \/ Becomes(t, answer("unavailable"))
         \/ ~ PassesCsrf(tab[t].method, c) /\ Becomes(t, answer("forbidden"))
         \/ PassesCsrf(tab[t].method, c) /\ as = "nobody" /\ Becomes(t, answer("unauthorized"))
         \/ /\ PassesCsrf(tab[t].method, c) /\ as # "nobody"
            /\ Becomes(t, [at |-> "answer", status |-> "done", method |-> tab[t].method,
                           as |-> as, jar |-> c])
  /\ UNCHANGED <<setup, jar, old, logins, calls>>

PortalNext ==
  \/ \E t \in Tabs :
       \/ LoginLocally(t) \/ LoginAtKeycloak(t) \/ ReturnFromKeycloak(t)
       \/ CheckState(t) \/ ExchangeCode(t) \/ SignOut(t)
       \/ OpenPage(t) \/ RenderPage(t) \/ CallApi(t) \/ AnswerCall(t)
  \/ \E n \in 1 .. logins : ExpireToken(n)

-----------------------------------------------------------------------------

\* Whatever the tabs do at once, the cookies are one sign-in's, so that the portal, which
\* reads the session, and the API, which may read the ID token, mean the same person, and
\* a change is never refused for the token of another session.
OnePersonPerRequest ==
  /\ jar.csrf = jar.session.n
  /\ jar.idToken # None => jar.idToken = jar.session
  /\ \A t \in Tabs :
       /\ tab[t].at = "page" \/ (tab[t].at = "answer" /\ tab[t].status = "done") =>
            tab[t].as = tab[t].jar.session.who
       /\ tab[t].at = "answer" => tab[t].status # "forbidden"

\* docs/issues/behavioral-parity-migration.md has the workspace lifecycle, with renaming a
\* source, closed through the portal's routes: the proxy sends on what its pages ask for.
PortalSendsWhatPagesAsk ==
  \A t \in Tabs : tab[t].at = "answer" => tab[t].status # "not allowed"
=============================================================================
