---------------------------- MODULE MCProductParts ----------------------------
(***************************************************************************)
(* Values for TLC: three Stripe events, two of them of one subscription,   *)
(* four handoffs, of which one brings the scorer's decision, and the lists *)
(* of roles that admins enter.                                             *)
(***************************************************************************)
EXTENDS ProductParts, TLC

MCEventKind == "e1" :> "completed" @@ "e2" :> "lapsed" @@ "e3" :> "deleted"
MCEventSub  == "e1" :> "s1" @@ "e2" :> "s1" @@ "e3" :> "s2"

H(decision, packs, requires, exhaustive) ==
  [decision |-> decision, packs |-> packs, requires |-> requires, exhaustive |-> exhaustive]
MCHandoffs ==
  {H("none", "none", FALSE, FALSE), H("none", "none", TRUE, FALSE),
   H("none", "linked", TRUE, TRUE), H("pass", "dangling", TRUE, FALSE)}

MCRouteKind == "/a" :> "page" @@ "/a/b" :> "page" @@ "/c" :> "page" @@ "x" :> "pattern"
MCBelow == "/a" :> {"/a", "/a/b"} @@ "/a/b" :> {"/a/b"} @@ "/c" :> {"/c"} @@ "x" :> {}
MCNavTargets ==
  {[path |-> "/a/b", requiresAuth |-> FALSE], [path |-> "/c", requiresAuth |-> TRUE],
   [path |-> "x", requiresAuth |-> TRUE]}

\* Findings: how many, with evidence, with paths and with references, and whether all have
\* one category and title
F(n, e, p, r, u) == [all |-> n, evidenced |-> e, withPaths |-> p, withRefs |-> r, uniform |-> u]
Executed(s, q, l) ==
  [NoFacts EXCEPT !.suite = s, !.qa = q, !.loggedIn = l /\ q = "succeeded",
                  !.authGap = IF l \/ q = "failed" THEN "none" ELSE "high"]
MCReportFacts ==
  {[Executed(s, q, l) EXCEPT !.words = w, !.required = r, !.writes = k] :
     s \in {"succeeded", "failed", "skipped"}, q \in {"succeeded", "failed"}, l \in BOOLEAN,
     w \in GapWords, r \in {{}, Kinds}, k \in {{}, {"screenshot"}, Kinds}}
  \union
  {[IF x THEN Executed(s, "succeeded", FALSE)
    ELSE [NoFacts EXCEPT !.runtime = s, !.suite = "none", !.qa = "none", !.loggedIn = FALSE]
    EXCEPT !.blockers = b, !.target = t, !.suiteFound = d, !.findings = f, !.listed = n] :
     x \in BOOLEAN, s \in {"failed", "none"},
     b \in {{}, {"high", "medium"}}, t \in BOOLEAN,
     d \in {"undetected", "broken", "failing", "blocked", "passed"},
     f \in {F(0, 0, 0, 0, FALSE), F(3, 1, 2, 0, TRUE), F(8, 5, 2, 3, TRUE)}, n \in {0, 27}}

En(path, kind) == [path |-> path, kind |-> kind, escapes |-> "no"]
MCEntries ==
  {En(<<>>, "directory"), En(<<"repo">>, "directory"), En(<<"repo", ".git">>, "directory"),
   En(<<"repo", ".git", "HEAD">>, "file"), En(<<"repo", ".git">>, "file"), En(<<"repo", "a">>, "file"),
   En(<<".git">>, "directory"), En(<<".git", "HEAD">>, "file"), En(<<"a">>, "file"), En(<<"__MACOSX", "a">>, "file"),
   En(<<"repo", "l">>, "symlink"), [En(<<"x">>, "file") EXCEPT !.escapes = "traversal"]}

\* What callers of the core analysis ask for, and the application they crawl
MCAsked ==
  {{}, {"spec-check", "chaos-advisor", "browser-self-check"}, {"browser-self-check"},
   {"spec-generation", "visual-inspection", "interaction-test"}}
MCProviders == <<"cli", "api">>
MCLeads ==
  "/" :> {"/a", "/b"} @@ "/a" :> {"/", "/c"} @@ "/b" :> {"/a", "malformed"} @@ "/c" :> {"/b"}

MCLists == {<<"json">>, <<"c1">>, <<"runtime", "c1">>}
=============================================================================
