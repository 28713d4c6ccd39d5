--------------------------- MODULE StoreOpenRetry ---------------------------
(***************************************************************************)
(* createStoreOpenRetryScheduler of src/src/index/index-store-lock.ts, as  *)
(* src/src/main.ts drives it (beginIndexStoreLocked, retryIndexStoreOpen,  *)
(* clearIndexStoreLocked): the search index could not be opened; timers    *)
(* try again at fixed delays, then down a backoff chain, and when the      *)
(* chain is used up the database is reset.                                 *)
(*                                                                         *)
(* Time is kept as order.  Timers and attempts are numbered as they are    *)
(* created.  The initial timers fire in that order (their delays grow).    *)
(* main.ts gives an attempt 8 s and the shortest backoff delay is 30 s, so *)
(* a backoff timer fires when every attempt older than it is over.         *)
(***************************************************************************)
EXTENDS Integers, FiniteSets

CONSTANTS
    Fixed,       \* storeOpenRetryDelaysMs().length
    Stages,      \* storeOpenBackoffDelaysMs().length
    MaxRetries   \* bound: how often the user asks for a retry

ASSUME RetryConstants ==
    Fixed \in Nat \ {0} /\ Stages \in Nat \ {0} /\ MaxRetries \in Nat

VARIABLES
    timers,         \* timerIds that have not fired, with what they run
    attempts,       \* ensureOpen calls in flight, with who made them
    disposed,
    exhausted,
    backoffIndex,
    current,        \* isCurrent(): the session that began the lock is alive
    nextId,         \* numbers timers and attempts
    retries,        \* how often retryNow was asked for
    exhaustions,    \* onExhausted calls since start or the last retryNow
    successes       \* onSuccess calls

srVars == <<timers, attempts, disposed, exhausted, backoffIndex, current, nextId,
          retries, exhaustions, successes>>

Entry(kind, n) == [kind |-> kind, id |-> n]

SrTypeOK ==
    /\ timers \subseteq [kind : {"fixed", "starter", "backoff"}, id : Nat]
    /\ attempts \subseteq [kind : {"fixed", "backoff"}, id : Nat]
    /\ disposed \in BOOLEAN
    /\ exhausted \in BOOLEAN
    /\ backoffIndex \in 0..Stages
    /\ current \in BOOLEAN
    /\ nextId \in Nat
    /\ retries \in 0..MaxRetries
    /\ exhaustions \in Nat
    /\ successes \in Nat

(* start(): the fixed delays in parallel, and the starter of the chain. *)
SrInit ==
    /\ timers = {Entry("fixed", i) : i \in 1..Fixed} \cup {Entry("starter", Fixed + 1)}
    /\ attempts = {}
    /\ disposed = FALSE
    /\ exhausted = FALSE
    /\ backoffIndex = 0
    /\ current = TRUE
    /\ nextId = Fixed + 2
    /\ retries = 0
    /\ exhaustions = 0
    /\ successes = 0

-----------------------------------------------------------------------------

(* tryOnceFixed, tryOnceBackoff up to the await of ensureOpen: a torn-down *)
(* session makes no attempt.                                               *)
Try(kind) ==
    IF current /\ ~disposed
    THEN attempts' = attempts \cup {Entry(kind, nextId)} /\ nextId' = nextId + 1
    ELSE UNCHANGED <<attempts, nextId>>

FireFixed(t) ==
    /\ t.kind = "fixed"
    /\ \A u \in timers : t.id <= u.id
    /\ timers' = timers \ {t}
    /\ Try("fixed")
    /\ UNCHANGED <<disposed, exhausted, backoffIndex, current, retries, exhaustions,
                   successes>>

(* A mutated form: the starter does not schedule the first backoff attempt. *)
FireStarterForgets(t) ==
    /\ t.kind = "starter"
    /\ \A u \in timers : t.id <= u.id
    /\ timers' = timers \ {t}
    /\ backoffIndex' = backoffIndex + 1
    /\ UNCHANGED <<attempts, disposed, exhausted, current, nextId, retries, exhaustions,
                   successes>>

FireStarter(t) ==
    /\ t.kind = "starter"
    /\ \A u \in timers : t.id <= u.id
    /\ timers' = (timers \ {t}) \cup {Entry("backoff", nextId)}
    /\ nextId' = nextId + 1
    /\ backoffIndex' = backoffIndex + 1
    /\ UNCHANGED <<attempts, disposed, exhausted, current, retries, exhaustions, successes>>

FireBackoff(t) ==
    /\ t.kind = "backoff"
    /\ \A a \in attempts : t.id < a.id
    /\ timers' = timers \ {t}
    /\ Try("backoff")
    /\ UNCHANGED <<disposed, exhausted, backoffIndex, current, retries, exhaustions,
                   successes>>

(* A mutated form: an attempt that resolves late does not look at disposed. *)
AttemptOpensLate(a) ==
    /\ attempts' = attempts \ {a}
    /\ IF current
       THEN /\ disposed' = TRUE
            /\ timers' = {}
            /\ successes' = successes + 1
       ELSE UNCHANGED <<disposed, timers, successes>>
    /\ UNCHANGED <<exhausted, backoffIndex, current, nextId, retries, exhaustions>>

(* ensureOpen resolved: dispose() cancels the timers, onSuccess is called. *)
AttemptOpens(a) ==
    /\ attempts' = attempts \ {a}
    /\ IF current /\ ~disposed
       THEN /\ disposed' = TRUE
            /\ timers' = {}
            /\ successes' = successes + 1
       ELSE UNCHANGED <<disposed, timers, successes>>
    /\ UNCHANGED <<exhausted, backoffIndex, current, nextId, retries, exhaustions>>

Exhaust ==
    /\ exhausted' = TRUE
    /\ exhaustions' = exhaustions + 1
    /\ UNCHANGED <<timers, nextId, backoffIndex>>

NextStage ==
    /\ timers' = timers \cup {Entry("backoff", nextId)}
    /\ nextId' = nextId + 1
    /\ backoffIndex' = backoffIndex + 1
    /\ UNCHANGED <<exhausted, exhaustions>>

NoStage == UNCHANGED <<timers, nextId, backoffIndex, exhausted, exhaustions>>

(* A mutated form: every failure that finds no stage left reports it. *)
ScheduleEveryTime ==
    \/ (disposed \/ ~current) /\ NoStage
    \/ ~disposed /\ current /\ backoffIndex >= Stages /\ Exhaust
    \/ ~disposed /\ current /\ backoffIndex < Stages /\ NextStage

(* A mutated form: the failure of a disposed scheduler's attempt goes on. *)
ScheduleWhenDisposed ==
    \/ (~current \/ exhausted) /\ NoStage
    \/ current /\ ~exhausted /\ backoffIndex >= Stages /\ Exhaust
    \/ current /\ ~exhausted /\ backoffIndex < Stages /\ NextStage

(* A mutated form: the index runs past the last stage. *)
ScheduleOneTooMany ==
    \/ (disposed \/ ~current \/ exhausted) /\ NoStage
    \/ ~disposed /\ current /\ ~exhausted /\ backoffIndex > Stages /\ Exhaust
    \/ ~disposed /\ current /\ ~exhausted /\ backoffIndex <= Stages /\ NextStage

scheduleNextBackoff ==
    \/ (disposed \/ ~current \/ exhausted) /\ NoStage
    \/ ~disposed /\ current /\ ~exhausted /\ backoffIndex >= Stages /\ Exhaust
    \/ ~disposed /\ current /\ ~exhausted /\ backoffIndex < Stages /\ NextStage

(* ensureOpen rejected, or its 8 s ran out: a fixed attempt leaves it to    *)
(* the next timer, an attempt of the chain schedules the next.             *)
AttemptFails(a) ==
    /\ attempts' = attempts \ {a}
    /\ IF a.kind = "backoff" THEN scheduleNextBackoff
       ELSE UNCHANGED <<timers, nextId, backoffIndex, exhausted, exhaustions>>
    /\ UNCHANGED <<disposed, current, retries, successes>>

(* "Retry opening the search index": the timers go, the attempt starts now. *)
RetryNow ==
    /\ ~disposed
    /\ retries < MaxRetries
    /\ retries' = retries + 1
    /\ timers' = {}
    /\ exhausted' = FALSE
    /\ exhaustions' = 0
    /\ backoffIndex' = 0
    /\ Try("backoff")
    /\ UNCHANGED <<disposed, current, successes>>

(* The lock is cleared by another path (a reset that worked, an unload). *)
Dispose ==
    /\ ~disposed
    /\ disposed' = TRUE
    /\ timers' = {}
    /\ UNCHANGED <<attempts, exhausted, backoffIndex, current, nextId, retries,
                   exhaustions, successes>>

(* A reload or an abort bumps loadGeneration. *)
SessionEnds ==
    /\ current
    /\ current' = FALSE
    /\ UNCHANGED <<timers, attempts, disposed, exhausted, backoffIndex, nextId, retries,
                   exhaustions, successes>>

Fire    == \E t \in timers : FireFixed(t) \/ FireStarter(t) \/ FireBackoff(t)
SrSettle  == \E a \in attempts : AttemptOpens(a) \/ AttemptFails(a)

SrNext == Fire \/ SrSettle \/ RetryNow \/ Dispose \/ SessionEnds

(* Timers fire and every attempt settles (the 8 s race). *)
SrFairness == WF_srVars(Fire) /\ WF_srVars(SrSettle)

SrSpec == SrInit /\ [][SrNext]_srVars /\ SrFairness

-----------------------------------------------------------------------------

(* onSuccess resumes the boot; two attempts that both open the store must  *)
(* not resume it twice (dispose comes before onSuccess, each looks at it). *)
SuccessOnce == successes <= 1

(* onExhausted resets the database; two chains that both run out of stages *)
(* must not reset it twice before the user asks again.                     *)
ExhaustedOnce == exhaustions <= 1

(* A scheduler that is done, because it opened the store or because main   *)
(* dropped it, leaves no timer behind, whatever attempts are in flight.    *)
QuietWhenDisposed == disposed => timers = {}

(* The wait for the lock ends: the store opens, the reset is called for,   *)
(* or nobody waits any more.                                               *)
LockEnds == <>(disposed \/ exhausted \/ ~current)

(* The inductive invariant behind the three.                               *)
RetryInv ==
    /\ QuietWhenDisposed
    /\ ~disposed => successes = 0
    /\ SuccessOnce
    /\ exhaustions = IF exhausted THEN 1 ELSE 0

-----------------------------------------------------------------------------
(* What the comments say, and the code does not keep.                      *)

(* "When all stages exhaust, onExhausted fires": the database is not reset *)
(* while a retry of the same lock is still to come or under way.           *)
ExhaustedAfterAll ==
    exhausted => /\ \A t \in timers : t.kind # "backoff"
                 /\ \A a \in attempts : a.kind # "backoff"

=============================================================================
