--------------------------- MODULE RoleExecution ---------------------------
(***************************************************************************)
(* executeRole: what becomes of one role that the scheduler launched.  A   *)
(* role runs a native executor, or Codex, or a native executor and then    *)
(* Codex ("hybrid"), and Codex is tried up to MaxCodexAttempts times.      *)
(* body[r] is the role's promise:                                          *)
(*                                                                         *)
(*   at        "idle", then the await it is in, then how it settled        *)
(*   attempts  Codex runs started                                          *)
(*   native    whether the native executor left an output                  *)
(***************************************************************************)
EXTENDS RoleGraph

CONSTANT MaxCodexAttempts   \* AI_WORKER_CODEX_MAX_ATTEMPTS

ASSUME MaxCodexAttemptsAssumption == MaxCodexAttempts \in Nat \ {0}

VARIABLE body

Settled == {"output", "error"}

Body(at, attempts, native) == [at |-> at, attempts |-> attempts, native |-> native]

BodyType ==
  [at       : {"idle", "native", "codex", "finish"} \union Settled,
   attempts : 0 .. MaxCodexAttempts,
   native   : BOOLEAN]

IdleBody == Body("idle", 0, FALSE)

\* The first await of executeRole for a role of this kind.
StartedBody(kind) == Body(IF kind = "codex" THEN "codex" ELSE "native", 0, FALSE)

-----------------------------------------------------------------------------
(* Codex runs *)

\* A run that exits with 0 leaves a valid output or an invalid one; another one
\* times out, fails for a reason that may pass, for want of a valid token, or else.
CodexRuns == {"valid", "invalid", "timeout", "transient", "auth", "fatal"}

\* isRetryableCodexFailure
IsRetryable(run) == run \in {"timeout", "transient"}

\* Mutant: the attempt counter is compared before this run is counted.
RetryOnceMore(b, run, kind) ==
  /\ b.attempts - 1 < MaxCodexAttempts
  /\ IsRetryable(run) \/ run = "invalid"

\* Whether another attempt follows a run: an invalid output is retried too, unless
\* the native executor's output can stand in for it.
Retries(b, run, kind) ==
  /\ b.attempts < MaxCodexAttempts
  /\ \/ IsRetryable(run)
     \/ run = "invalid" /\ ~ (kind = "hybrid" /\ b.native)

\* Where the role stands after a run.
AfterRun(b, run, kind) ==
  CASE run = "valid"                                     -> "finish"
    [] Retries(b, run, kind)                             -> "codex"
    [] run = "invalid" /\ kind = "hybrid" /\ b.native    -> "finish"
    [] OTHER                                             -> "error"

-----------------------------------------------------------------------------
(* Steps of a launched role *)

\* executeNativeRole returns.  A hybrid role whose native output satisfies its
\* contract may end here (shouldUseHybridNativeFastPath).
NativeSucceeds(r, kind) ==
  /\ body[r].at = "native"
  /\ \E next \in IF kind = "native" THEN {"finish"} ELSE {"output", "codex"} :
       body' = [body EXCEPT ![r] = Body(next, 0, TRUE)]

\* executeNativeRole throws: fatal for a native role, while a hybrid one goes on.
NativeFails(r, kind) ==
  /\ body[r].at = "native"
  /\ body' = [body EXCEPT ![r].at = IF kind = "native" THEN "error" ELSE "codex"]

\* One turn of the attempt loop.
CodexAttempt(r, kind) ==
  /\ body[r].at = "codex"
  /\ \E run \in CodexRuns :
       LET b == [body[r] EXCEPT !.attempts = @ + 1]
       IN  body' = [body EXCEPT ![r] = [b EXCEPT !.at = AfterRun(b, run, kind)]]

\* Evidence, validation, handoff execution and the output contract; each may throw.
FinishRole(r) ==
  /\ body[r].at = "finish"
  /\ \E end \in Settled : body' = [body EXCEPT ![r].at = end]

RoleStep(r, kind) ==
  \/ NativeSucceeds(r, kind)
  \/ NativeFails(r, kind)
  \/ CodexAttempt(r, kind)
  \/ FinishRole(r)

\* A role in its attempt loop has an attempt left, and none was made before it.
AttemptsInv ==
  \A r \in Roles :
    /\ body[r].at = "native" => body[r].attempts = 0
    /\ body[r].at = "codex" => body[r].attempts < MaxCodexAttempts
=============================================================================
