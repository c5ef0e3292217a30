--------------------------- MODULE GitReviewCache ---------------------------
(***************************************************************************)
(* The code review cache of one source, on a disk that several API         *)
(* processes share.  A process runs one task on the entry at a time (the   *)
(* promise chain of cacheLocks); between processes a directory is the      *)
(* lock, broken by whoever finds it old.  A task reads the entry, fills or *)
(* refreshes it while it awaits git or the object store, and hands out the *)
(* path.  cleanupGitReviewCache takes no lock: it looks for one.           *)
(***************************************************************************)
EXTENDS Naturals, FiniteSets

CONSTANTS
  Servers,     \* API processes
  MaxMishaps   \* bound on what goes wrong: deaths, errors, locks that grow stale

ASSUME CacheAssumption == "none" \notin Servers /\ MaxMishaps \in Nat

VARIABLES
  entry,      \* of the entry on disk: what is there, refresh due, not read for days
  lock,       \* the lock's directory: who made it, and that its age passed the limit
  task,       \* of each server: its task and where it is
  sweeping,   \* servers whose cleanup has seen no lock on the entry
  mishaps,
  disturbed   \* history: something else than a lone task has touched the entry

cacheVars == <<entry, lock, task, sweeping, mishaps, disturbed>>

NoTask   == [of |-> "none", at |-> "idle"]
NoLock == [by |-> "none", stale |-> FALSE]
\* A caller that needs the entry ready, one that waits until it is filled, and the
\* mirror's refresh in the background.
Tasks  == {"ready", "fill", "refresh"}

CacheType ==
  /\ entry \in [is : {"missing", "empty", "partial", "whole"}, mirror : BOOLEAN,
                due : BOOLEAN, old : BOOLEAN]
  /\ lock \in [by : Servers, stale : BOOLEAN] \union {NoLock}
  /\ task \in [Servers -> [of : Tasks, at : {"locking", "breaking", "looking", "filling",
                                             "fetching", "touching", "served"}] \union {NoTask}]
  /\ sweeping \subseteq Servers
  /\ mishaps \in 0 .. MaxMishaps
  /\ disturbed \in BOOLEAN

CacheInit ==
  /\ entry \in [is : {"missing"}, mirror : BOOLEAN, due : {FALSE}, old : {FALSE}]
  /\ lock = NoLock
  /\ task = [s \in Servers |-> NoTask]
  /\ sweeping = {}
  /\ mishaps = 0
  /\ disturbed = FALSE

Mishap == mishaps < MaxMishaps /\ mishaps' = mishaps + 1
Inside == {s \in Servers : task[s].at \in {"looking", "filling", "fetching", "touching"}}
GoTo(s, at) == task' = [task EXCEPT ![s].at = at]

\* The task is over: the lock's directory is removed, whoever made it.
Leave(s, next) ==
  /\ task' = [task EXCEPT ![s] = next]
  /\ lock' = NoLock
Served(s) == [of |-> task[s].of, at |-> "served"]

-----------------------------------------------------------------------------
(* withCacheLock and acquireFilesystemLock *)

Ask(s, t) ==
  /\ task[s] = NoTask /\ s \notin sweeping
  /\ task' = [task EXCEPT ![s] = [of |-> t, at |-> "locking"]]
  /\ UNCHANGED <<entry, lock, sweeping, mishaps, disturbed>>

\* Mutant: a directory that is there does not keep the task out.
AcquireAnyway(s) ==
  /\ task[s].at = "locking"
  /\ lock' = [by |-> s, stale |-> FALSE]
  /\ GoTo(s, "looking")
  /\ disturbed' = (disturbed \/ sweeping # {})
  /\ UNCHANGED <<entry, sweeping, mishaps>>

\* mkdir succeeds.
Acquire(s) ==
  /\ task[s].at = "locking"
  /\ lock = NoLock
  /\ lock' = [by |-> s, stale |-> FALSE]
  /\ GoTo(s, "looking")
  /\ disturbed' = (disturbed \/ sweeping # {})
  /\ UNCHANGED <<entry, sweeping, mishaps>>

\* mkdir fails: an old directory is to be removed, or thirty seconds have passed.
Wait(s) ==
  /\ task[s].at = "locking"
  /\ lock # NoLock
  /\ \/ lock.stale /\ GoTo(s, "breaking")
     \/ ~ lock.stale /\ task' = [task EXCEPT ![s] = NoTask]
  /\ UNCHANGED <<entry, lock, sweeping, mishaps, disturbed>>

\* By now it may be another one; and the owner of the old one may be alive.
BreakLock(s) ==
  /\ task[s].at = "breaking"
  /\ lock' = NoLock
  /\ GoTo(s, "locking")
  /\ disturbed' = (disturbed \/ Inside # {})
  /\ UNCHANGED <<entry, sweeping, mishaps>>

LockStep(s) ==
  \/ \E t \in {"ready", "fill"} : Ask(s, t)
  \/ Acquire(s) \/ Wait(s) \/ BreakLock(s)

-----------------------------------------------------------------------------
(* The tasks: ensureMirrorCache, ensureArchiveCache, materializeArchiveCache *)

\* What counts as filled: a mirror's directory, an archive's .git.
Usable == IF entry.mirror THEN entry.is # "missing" ELSE entry.is \in {"partial", "whole"}

\* Nothing usable: a fill begins, an archive's with an empty directory.  Other tasks end.
LookAndMiss(s) ==
  /\ task[s].at = "looking" /\ ~ Usable
  /\ IF task[s].of = "fill"
     THEN /\ GoTo(s, "filling")
          /\ entry' = [entry EXCEPT !.is = IF entry.mirror THEN @ ELSE "empty"]
          /\ UNCHANGED lock
     ELSE Leave(s, NoTask) /\ UNCHANGED entry
  /\ UNCHANGED <<sweeping, mishaps, disturbed>>

\* The refresh looks again whether it is due.
LookAndUse(s) ==
  /\ task[s].at = "looking" /\ Usable
  /\ IF task[s].of # "refresh"
     THEN GoTo(s, "touching") /\ UNCHANGED lock
     ELSE IF entry.due THEN GoTo(s, "fetching") /\ UNCHANGED lock ELSE Leave(s, NoTask)
  /\ UNCHANGED <<entry, sweeping, mishaps, disturbed>>

\* touchCacheAccess, which makes the directory if it is gone.  A mirror that is due is
\* fetched now, or later, and then the caller gets an error.
Touch(s) ==
  /\ task[s].at = "touching"
  /\ entry' = [entry EXCEPT !.is = IF @ = "missing" THEN "empty" ELSE @, !.old = FALSE]
  /\ IF ~ (entry.mirror /\ entry.due) THEN Leave(s, Served(s))
     ELSE IF task[s].of = "fill" THEN GoTo(s, "fetching") /\ UNCHANGED lock
     ELSE Leave(s, [of |-> "refresh", at |-> "locking"])
  /\ UNCHANGED <<sweeping, mishaps, disturbed>>

\* refreshMirrorCache: remote set-url and fetch, which fail in an empty directory.
FetchEnds(s) ==
  /\ task[s].at = "fetching"
  /\ \/ /\ entry.is \in {"partial", "whole"}
        /\ entry' = [entry EXCEPT !.due = FALSE]
        /\ Leave(s, IF task[s].of = "fill" THEN Served(s) ELSE NoTask)
        /\ UNCHANGED mishaps
     \/ /\ Mishap \/ (entry.is \in {"missing", "empty"} /\ UNCHANGED mishaps)
        /\ Leave(s, NoTask)
        /\ UNCHANGED entry
  /\ UNCHANGED <<sweeping, disturbed>>

\* git clone, or the archive's extraction, has written something ...
FillBegins(s) ==
  /\ task[s].at = "filling" /\ entry.is # "partial"
  /\ entry' = [entry EXCEPT !.is = "partial"]
  /\ UNCHANGED <<lock, task, sweeping, mishaps, disturbed>>

\* ... and ends, or throws: git removes what it cloned, an extraction does not.
FillEnds(s) ==
  /\ task[s].at = "filling" /\ entry.is = "partial"
  /\ \/ /\ entry' = [entry EXCEPT !.is = "whole", !.due = FALSE, !.old = FALSE]
        /\ Leave(s, Served(s))
        /\ UNCHANGED <<mishaps, disturbed>>
     \/ /\ Mishap
        /\ entry' = [entry EXCEPT !.is = IF entry.mirror THEN "missing" ELSE @]
        /\ Leave(s, NoTask)
        /\ disturbed' = (disturbed \/ ~ entry.mirror)
  /\ UNCHANGED sweeping

\* The download of the archive throws, or what came is refused; the clone fails at once.
FillFails(s) ==
  /\ task[s].at = "filling" /\ entry.is # "partial"
  /\ Mishap
  /\ Leave(s, NoTask)
  /\ UNCHANGED <<entry, sweeping, disturbed>>

Answer(s) ==
  /\ task[s].at = "served"
  /\ task' = [task EXCEPT ![s] = NoTask]
  /\ UNCHANGED <<entry, lock, sweeping, mishaps, disturbed>>

TaskStep(s) ==
  \/ LookAndMiss(s) \/ LookAndUse(s) \/ Touch(s) \/ FetchEnds(s)
  \/ FillBegins(s) \/ FillEnds(s) \/ FillFails(s) \/ Answer(s)

-----------------------------------------------------------------------------
(* Cleanup, time and death *)

\* cleanupGitReviewCache, in a process without a task on the entry: no lock is there ...
SeeNoLock(s) ==
  /\ s \notin sweeping
  /\ task[s] = NoTask /\ lock = NoLock
  /\ entry.is # "missing"
  /\ sweeping' = sweeping \union {s}
  /\ UNCHANGED <<entry, lock, task, mishaps, disturbed>>

\* ... and an entry nobody used for days goes.
Sweep(s) ==
  /\ s \in sweeping
  /\ sweeping' = sweeping \ {s}
  /\ entry' = IF entry.old THEN [entry EXCEPT !.is = "missing", !.old = FALSE] ELSE entry
  /\ UNCHANGED <<lock, task, mishaps, disturbed>>

\* Fifteen minutes after a fetch; days after the last use.
TimePasses ==
  /\ entry.is # "missing"
  /\ \/ entry' = [entry EXCEPT !.due = TRUE]
     \/ (\A s \in Servers : task[s] = NoTask) /\ entry' = [entry EXCEPT !.due = TRUE, !.old = TRUE]
  /\ UNCHANGED <<lock, task, sweeping, mishaps, disturbed>>

\* Ten minutes after the lock was made, by a task that is slow or died.
LockAges ==
  /\ lock # NoLock /\ ~ lock.stale
  /\ Mishap
  /\ lock' = [lock EXCEPT !.stale = TRUE]
  /\ UNCHANGED <<entry, task, sweeping, disturbed>>

\* A process dies: its lock stays, and what it had written.
Die(s) ==
  /\ task[s] # NoTask
  /\ Mishap
  /\ task' = [task EXCEPT ![s] = NoTask]
  /\ disturbed' = (disturbed \/ task[s].at = "filling")
  /\ UNCHANGED <<entry, lock, sweeping>>

CacheNext ==
  \/ \E s \in Servers : LockStep(s) \/ TaskStep(s) \/ SeeNoLock(s) \/ Sweep(s) \/ Die(s)
  \/ TimePasses \/ LockAges

-----------------------------------------------------------------------------
(* Properties *)

\* Unless a fill broke off half way, a lock was taken from a task that still ran, or a
\* cleanup overlapped: one task at a time is on the entry, and the path that is handed
\* out has the whole repository.
LoneTaskServesWhole ==
  disturbed \/ /\ Cardinality(Inside) <= 1
               /\ \A s \in Servers : task[s].at = "served" => entry.is = "whole"
=============================================================================
