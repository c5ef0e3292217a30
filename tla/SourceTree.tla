------------------------------- MODULE SourceTree -------------------------------
(***************************************************************************)
(* The directory a source becomes.  An uploaded archive is inspected when  *)
(* it arrives and again by each of its users, who extract it with programs *)
(* of their own and look for the repository in what came out: the audit's  *)
(* worker (and the runner), a remediation, and the code review.  A tree is *)
(* a set of paths, each a sequence of names.                               *)
(***************************************************************************)
EXTENDS Naturals, FiniteSets, Sequences

CONSTANTS
  FileNames,   \* names of files and directories
  Entries,     \* what an archive may list: [path, kind, escapes]
  MaxEntries   \* bound on the entries of an archive

EntryKinds == {"file", "directory", "symlink", "hardlink", "other"}

ASSUME NamesAssumption ==
  {".git", "HEAD", "a", "primary", "companion", "README.speclens.txt",
   "speclens-source-bundle.json"} \subseteq FileNames

ASSUME EntriesAssumption ==
  \A e \in Entries :
    e.path \in Seq(FileNames) /\ e.kind \in EntryKinds /\ e.escapes \in {"no", "absolute", "traversal"}

VARIABLES
  archive,    \* entries of the upload; {} when its first bytes show no archive
  companion,  \* the audit pairs the source with another one
  consumer,   \* who makes a tree of it
  treeStep,   \* how far the consumer is
  tree        \* the paths below the directory it works on

treeVars == <<archive, companion, consumer, treeStep, tree>>

Consumers == {"upload", "audit", "remediation", "review"}
TreeSteps == {"inspect", "extract", "collapse", "finish", "bundle", "ready", "refused", "failed"}

TreeType ==
  /\ archive \subseteq Entries /\ companion \in BOOLEAN
  /\ consumer \in Consumers /\ treeStep \in TreeSteps
  /\ \A p \in tree : p \in Seq(FileNames) /\ p # <<>>

\* No path is both a file and a directory.
Consistent(entries) ==
  \A e, f \in entries : e # f => e.path # f.path /\ (e.kind # "directory" =>
     ~ (Len(f.path) > Len(e.path) /\ SubSeq(f.path, 1, Len(e.path)) = e.path))

TreeInit ==
  /\ archive \in {a \in SUBSET Entries : Cardinality(a) <= MaxEntries /\ Consistent(a)}
  /\ consumer \in Consumers
  /\ companion \in BOOLEAN /\ (companion => consumer = "audit")
  /\ treeStep = "inspect"
  /\ tree = {}

-----------------------------------------------------------------------------
(* core/archive.ts: inspectGitRepositoryArchiveFileAsync *)

Unsafe(entries) ==
  \E e \in entries : e.escapes # "no" \/ e.kind \in {"symlink", "hardlink", "other"}

Meaningful(entries) == {e \in entries : e.path # <<>> /\ e.path[1] # "__MACOSX"}

\* archiveHasGitMetadataAtRoot: the entry itself as a directory, or anything in it
GitAt(entries, root) ==
  \E e \in entries :
    /\ Len(e.path) > Len(root) /\ SubSeq(e.path, 1, Len(root) + 1) = Append(root, ".git")
    /\ Len(e.path) = Len(root) + 1 => e.kind = "directory"

\* resolveGitArchiveRoot: the roots it accepts, one at most
InspectedRoots(entries) ==
  LET listed == Meaningful(entries)
      tops   == {e.path[1] : e \in listed}
  IN  IF GitAt(listed, <<>>) THEN {<<>>}
      ELSE {<<top>> : top \in {t \in tops : tops = {t} /\ GitAt(listed, <<t>>)}}

Accepted(entries) == ~ Unsafe(entries) /\ InspectedRoots(entries) # {}

-----------------------------------------------------------------------------
(* Extraction and what follows it *)

\* Directories on the way are made, those of __MACOSX too.
Extracted(entries) ==
  UNION {{SubSeq(e.path, 1, n) : n \in 1 .. Len(e.path)} : e \in entries}

SubTree(paths, root) ==
  {SubSeq(p, Len(root) + 1, Len(p)) :
     p \in {q \in paths : Len(q) > Len(root) /\ SubSeq(q, 1, Len(root)) = root}}

IsDirectory(paths, p) ==
  \/ \E q \in paths : Len(q) > Len(p) /\ SubSeq(q, 1, Len(p)) = p
  \/ \E e \in archive : e.path = p /\ e.kind = "directory"

\* The one directory that is all there is
Only(tops, paths) == {t \in tops : tops = {t} /\ IsDirectory(paths, <<t>>)}
Topmost(only)     == IF only = {} THEN <<>> ELSE <<CHOOSE t \in only : TRUE>>

\* Mutant: the resource forks that macOS adds count as a second entry.
SingleEntry(paths) == Topmost(Only({p[1] : p \in paths}, paths))

\* collapseSingleRoot
SingleRoot(paths) == Topmost(Only({p[1] : p \in paths} \ {"__MACOSX"}, paths))

WithoutGit(paths)   == {p \in paths : p[1] # ".git"}
PutUnder(name, paths) == {<<name>>} \union {<<name>> \o p : p \in paths}

ClonedTree == {<<".git">>, <<".git", "HEAD">>, <<"a">>}
Bundle(primary, other) ==
  PutUnder("primary", primary) \union PutUnder("companion", other)
  \union {<<"README.speclens.txt">>, <<"speclens-source-bundle.json">>}

-----------------------------------------------------------------------------
(* The steps of a consumer; each throws when a program or a disk fails it *)

Inspect ==
  /\ treeStep = "inspect"
  /\ treeStep' = CASE ~ Accepted(archive) -> "refused"
                   [] Accepted(archive) /\ consumer = "upload" -> "ready"
                   [] OTHER -> "extract"
  /\ UNCHANGED <<archive, companion, consumer, tree>>

Extract ==
  /\ treeStep = "extract"
  /\ treeStep' = "collapse"
  /\ tree' = Extracted(archive)
  /\ UNCHANGED <<archive, companion, consumer>>

Collapse ==
  /\ treeStep = "collapse"
  /\ treeStep' = "finish"
  /\ tree' = SubTree(tree, SingleRoot(tree))
  /\ UNCHANGED <<archive, companion, consumer>>

\* The audit removes the metadata; its companion, say a clone, is treated alike and both
\* are copied into a bundle.
Strip ==
  /\ treeStep = "finish" /\ consumer = "audit"
  /\ treeStep' = IF companion THEN "bundle" ELSE "ready"
  /\ tree' = WithoutGit(tree)
  /\ UNCHANGED <<archive, companion, consumer>>

WriteBundle ==
  /\ treeStep = "bundle"
  /\ treeStep' = "ready"
  /\ tree' = Bundle(tree, WithoutGit(ClonedTree))
  /\ UNCHANGED <<archive, companion, consumer>>

\* A remediation asks git for its status, the review looks for a directory .git.
FindRepository ==
  /\ treeStep = "finish" /\ consumer \in {"remediation", "review"}
  /\ treeStep' = IF <<".git">> \in tree THEN "ready" ELSE "failed"
  /\ UNCHANGED <<archive, companion, consumer, tree>>

FailToMakeTree ==
  /\ treeStep \in {"extract", "collapse", "finish", "bundle"}
  /\ treeStep' = "failed"
  /\ UNCHANGED <<archive, companion, consumer, tree>>

TreeNext ==
  Inspect \/ Extract \/ Collapse \/ Strip \/ WriteBundle \/ FindRepository \/ FailToMakeTree

-----------------------------------------------------------------------------
(* Properties *)

\* The inspection accepts an archive that holds nothing but a repository's .git ...
HoldsOnlyGit == {e.path[1] : e \in Meaningful(archive)} = {".git"}

\* The directory a consumer ends up with is the root the inspection had found in the list
\* of entries, whole, and never something outside of it.  The audit gets it without git's
\* own files, in a bundle too, and the others with them.  The exception is an archive that
\* holds only .git: its consumers are led into the metadata, where those that look for a
\* repository find none unless .git holds another one.
TreeIsTheInspectedRoot ==
  treeStep = "ready" /\ consumer # "upload" =>
    /\ Accepted(archive)
    /\ LET whole == SubTree(Extracted(archive), CHOOSE r \in InspectedRoots(archive) : TRUE)
           root  == IF HoldsOnlyGit THEN SubTree(whole, <<".git">>) ELSE whole
       IN  IF consumer = "audit"
           THEN (IF companion THEN SubTree(tree, <<"primary">>) ELSE tree) = WithoutGit(root)
           ELSE tree = root /\ <<".git">> \in root
    /\ companion => SubTree(tree, <<"companion">>) = WithoutGit(ClonedTree)
=============================================================================
