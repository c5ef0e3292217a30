------------------------- MODULE GithubIntegration -------------------------
(***************************************************************************)
(* One GitHub App installation, the workspace it is linked to, and the     *)
(* source row of the workspace "here" that may have been added through it. *)
(* An installation has one row, whose workspace the last link decides.     *)
(* Removing it marks the sources of its workspace for repair, and then     *)
(* deletes the row: two calls.                                             *)
(***************************************************************************)
EXTENDS Naturals

VARIABLES
  source,    \* type, and verificationStatus; "none" stands for no row
  link,      \* workspace of the GithubInstallation row, "none" without a row
  removal,   \* a removal between its two calls
  excused    \* history: why a source may be verified without its installation

githubVars == <<source, link, removal, excused>>

SourceTypes == {"git-public", "github-private", "upload-archive"}
Workspaces  == {"here", "elsewhere"}
\* A removal by a row's id (unlink, "deleted" webhook), or by workspace and id.
NoRemoval   == [of |-> "none", byRow |-> FALSE]

GithubType ==
  /\ source \in [type : SourceTypes, status : {"none", "pending", "verified", "failed"}]
  /\ link \in Workspaces \union {"none"}
  /\ removal \in [of : Workspaces, byRow : BOOLEAN] \union {NoRemoval}
  /\ excused \in BOOLEAN

GithubInit ==
  /\ source \in [type : SourceTypes, status : {"none"}]
  /\ link = "none"
  /\ removal = NoRemoval
  /\ excused = FALSE

Exists == source.status # "none"

\* setSourceVerificationState: an update of a row that must exist.
SetStatus(status) == Exists /\ source' = [source EXCEPT !.status = status]

\* A status "verified" that is written now may be without an installation.
Uncertain == link # "here" \/ removal.of = "here"

\* registerGithubInstallationForUser, ForIntent and the webhook's "created": the
\* upsert takes the installation away from the workspace that had it.
Link(w) ==
  /\ link # w
  /\ link' = w
  /\ excused' = IF w = "here" THEN removal.of = "here" ELSE excused \/ link = "here"
  /\ UNCHANGED <<source, removal>>

\* Mutant: the sources are not marked.
MarkNone(w, byRow) ==
  /\ removal = NoRemoval
  /\ link = w
  /\ removal' = [of |-> w, byRow |-> byRow]
  /\ UNCHANGED <<source, link, excused>>

\* removeGithubInstallation...: the row is found and its sources are marked.
MarkSources(w, byRow) ==
  /\ removal = NoRemoval
  /\ link = w
  /\ removal' = [of |-> w, byRow |-> byRow]
  /\ source' = IF w = "here" /\ source.type = "github-private" /\ Exists
               THEN [source EXCEPT !.status = "failed"] ELSE source
  /\ UNCHANGED <<link, excused>>

\* The row goes, whichever workspace has it now unless the call names one.  A row
\* that moved here in between takes its verified source with it unmarked.
DeleteInstallation ==
  /\ removal # NoRemoval
  /\ link' = IF removal.byRow \/ link = removal.of THEN "none" ELSE link
  /\ excused' = (excused \/ (link = "here" /\ removal.of # "here"))
  /\ removal' = NoRemoval
  /\ UNCHANGED source

\* The process dies between the two calls, or the second one throws.
AbandonRemoval ==
  /\ removal # NoRemoval
  /\ removal' = NoRemoval
  /\ UNCHANGED <<source, link, excused>>

GithubStep ==
  \/ \E w \in Workspaces : Link(w)
  \/ \E w \in Workspaces, byRow \in BOOLEAN : MarkSources(w, byRow)
  \/ DeleteInstallation

-----------------------------------------------------------------------------
(* Properties *)

\* A private source whose installation was removed is marked for repair: it stays
\* verified only where its verification overlapped the removal, or where the
\* installation was linked to another workspace, which marks nothing.
UnlinkedSourceNeedsRepair ==
  source.type = "github-private" /\ source.status = "verified" /\ link # "here" => excused
=============================================================================
