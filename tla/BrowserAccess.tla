----------------------------- MODULE BrowserAccess -----------------------------
(***************************************************************************)
(* What the browser of a hosted audit may open: the secrets of the job, a  *)
(* login with the credentials among them, the navigation plan made from    *)
(* the handoff, the links that are followed, and the authCoverage and the  *)
(* capability gap that tell why protected pages were left out.  How the    *)
(* walk ends and what else it finds is in HandoffExecution.                *)
(***************************************************************************)
EXTENDS Naturals, FiniteSets

CONSTANTS
  Routes,      \* what a handoff names: paths, URLs, text
  RouteKind,   \* what normalizing one shows
  Below,       \* pages at or below the prefix of a route
  NavTargets,  \* targets a handoff may list
  MaxOpened    \* MAX_BROWSER_QA_PAGES

RouteKinds == {"page", "invalid", "foreign", "api", "pattern"}
Targets    == [path : Routes, requiresAuth : BOOLEAN]

ASSUME RoutesAssumption ==
  /\ RouteKind \in [Routes -> RouteKinds]
  /\ Below \in [Routes -> SUBSET {r \in Routes : RouteKind[r] = "page"}]
  /\ NavTargets \subseteq Targets
  /\ IsFiniteSet(Routes) /\ IsFiniteSet(NavTargets) /\ MaxOpened \in Nat

VARIABLES
  qa,         \* how far executeStandardizedHandoff is
  jobSecrets, \* what the job's secrets of the two kinds are worth
  navigation, \* the handoff's navigationTargets
  protected,  \* its protectedRoutes
  loggedIn,   \* credentialLoginSucceeded
  toOpen,     \* the queue
  tried,    \* pages that were navigated to ...
  opened,     \* ... and answered
  coverage    \* authCoverage

accessVars == <<qa, jobSecrets, navigation, protected, loggedIn, toOpen, tried, opened,
                coverage>>

Pages       == {r \in Routes : RouteKind[r] = "page"}
Sessions    == {"absent", "unusable", "blank", "state"}
Credentials == {"absent", "unusable", "pair"}
NoCoverage  == [method |-> "none", authenticated |-> FALSE, declared |-> 0, skipped |-> 0,
                left |-> {}, reasons |-> {}]

AccessType ==
  /\ qa \in {"login", "plan", "walk"}
  /\ jobSecrets \in [session : Sessions, credential : Credentials]
  /\ navigation \subseteq NavTargets /\ protected \subseteq Routes
  /\ loggedIn \in BOOLEAN
  /\ {toOpen, tried, opened} \subseteq SUBSET Pages /\ opened \subseteq tried
  /\ Cardinality(opened) <= MaxOpened

AccessInit ==
  /\ qa = "login"
  /\ jobSecrets \in [session : Sessions, credential : Credentials]
  /\ navigation \in SUBSET NavTargets
  /\ protected \in SUBSET Routes
  /\ loggedIn = FALSE
  /\ toOpen = {} /\ tried = {} /\ opened = {}
  /\ coverage = NoCoverage

-----------------------------------------------------------------------------
(* resolveBrowserAuthState and buildNavigationPlan *)

SessionAccepted == jobSecrets.session \in {"blank", "state"}
Authenticated   == jobSecrets.session = "state" \/ loggedIn
AuthMethod      == CASE SessionAccepted -> "session-state"
                     [] ~ SessionAccepted /\ jobSecrets.credential = "pair" -> "credential-pair"
                     [] OTHER -> "none"

ByPrefix == UNION {Below[r] : r \in protected}

\* Mutant: links are not held against the protected routes.
AnyPage(route, requiresAuth) ==
  IF RouteKind[route] = "page" /\ ~ Authenticated /\ requiresAuth THEN "protected"
  ELSE IF RouteKind[route] # "page" THEN RouteKind[route] ELSE "none"

\* getBrowserQaSkipReason, "none" when the candidate may be opened
SkipReason(route, requiresAuth) ==
  CASE RouteKind[route] # "page" -> RouteKind[route]
    [] RouteKind[route] = "page" /\ ~ Authenticated /\ (requiresAuth \/ route \in ByPrefix)
         -> "protected"
    [] OTHER -> "none"

\* A protected route is a candidate that requires auth.
Candidates == navigation \union [path : protected, requiresAuth : {TRUE}]
Planned    == {t.path : t \in {c \in Candidates : SkipReason(c.path, c.requiresAuth) = "none"}}

\* Every target and every protected route is pushed, whether or not it was before.
Skipped(list) == {c \in list : SkipReason(c.path, c.requiresAuth) = "protected"}
SkippedCount  ==
  Cardinality(Skipped(navigation)) + Cardinality(Skipped([path : protected, requiresAuth : {TRUE}]))
ProtectedDeclared ==
  protected \union {t.path : t \in {c \in navigation : c.requiresAuth}}

\* getBrowserAuthBlockedReason
BlockedReasons ==
  IF ProtectedDeclared = {} \/ SkippedCount = 0 \/ Authenticated THEN {}
  ELSE IF jobSecrets.session = "absent" /\ jobSecrets.credential = "absent" THEN {"no secret"}
  ELSE {why \in {"session unusable", "session blank", "credential unusable", "login failed"} :
          \/ why = "session unusable" /\ jobSecrets.session = "unusable"
          \/ why = "session blank" /\ jobSecrets.session = "blank"
          \/ why = "credential unusable" /\ jobSecrets.credential = "unusable"
          \/ why = "login failed" /\ jobSecrets.credential = "pair" /\ ~ loggedIn}

-----------------------------------------------------------------------------
(* executeStandardizedHandoff from the browser's start *)

\* attemptCredentialLogin: some login page takes the credentials, or none does.
Login(succeeds) ==
  /\ qa = "login"
  /\ succeeds => jobSecrets.credential = "pair"
  /\ loggedIn' = succeeds
  /\ qa' = "plan"
  /\ UNCHANGED <<jobSecrets, navigation, protected, toOpen, tried, opened, coverage>>

\* The base URL is a page outside of Routes.
Plan ==
  /\ qa = "plan"
  /\ toOpen' = Planned
  /\ coverage' = [method |-> AuthMethod, authenticated |-> Authenticated,
                  declared |-> Cardinality(ProtectedDeclared), skipped |-> SkippedCount,
                  left |-> {c.path : c \in Skipped(Candidates)}, reasons |-> BlockedReasons]
  /\ qa' = "walk"
  /\ UNCHANGED <<jobSecrets, navigation, protected, loggedIn, tried, opened>>

\* A page answers and its links join the queue; a link requires no auth of itself.
Open(page, links) ==
  /\ qa = "walk" /\ page \in toOpen /\ Cardinality(opened) < MaxOpened
  /\ tried' = tried \union {page} /\ opened' = opened \union {page}
  /\ toOpen' = (toOpen \union {l \in links : SkipReason(l, FALSE) = "none"}) \ tried'
  /\ UNCHANGED <<qa, jobSecrets, navigation, protected, loggedIn, coverage>>

\* Its navigation fails three times.
FailToOpen(page) ==
  /\ qa = "walk" /\ page \in toOpen /\ Cardinality(opened) < MaxOpened
  /\ tried' = tried \union {page}
  /\ toOpen' = toOpen \ {page}
  /\ UNCHANGED <<qa, jobSecrets, navigation, protected, loggedIn, opened, coverage>>

\* The base URL is first; its links
OpenBase(links) ==
  /\ qa = "walk" /\ tried = {}
  /\ toOpen' = toOpen \union {l \in links : SkipReason(l, FALSE) = "none"}
  /\ UNCHANGED <<qa, jobSecrets, navigation, protected, loggedIn, tried, opened, coverage>>

AccessNext ==
  \/ \E succeeds \in BOOLEAN : Login(succeeds)
  \/ Plan
  \/ \E page \in Pages, links \in {{}, Pages} : Open(page, links)
  \/ \E page \in Pages : FailToOpen(page)
  \/ OpenBase(Pages)

-----------------------------------------------------------------------------
(* buildBrowserAuthCapabilityGap *)

AuthGap ==
  IF coverage.authenticated \/ coverage.declared = 0 \/ coverage.skipped = 0 THEN "none"
  ELSE IF coverage.skipped >= coverage.declared THEN "high" ELSE "medium"

\* Without authenticated state no page below a protected route is opened, not by a link
\* from another page either.  If the report has a gap, it gives a reason that is one of the
\* job's secrets or of the login; if it has none although pages were declared protected,
\* each of them was no page of the application to begin with.
ProtectedPagesAreAccountedFor ==
  qa = "walk" =>
    /\ ~ Authenticated => tried \intersect ByPrefix = {}
    /\ AuthGap # "none" => coverage.reasons # {} /\ coverage.left # {}
    /\ AuthGap = "none" /\ ~ Authenticated => ProtectedDeclared \intersect Pages = {}
    /\ AuthGap = "medium" => \E r \in ProtectedDeclared : RouteKind[r] # "page"
=============================================================================
