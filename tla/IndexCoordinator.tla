-------------------------- MODULE IndexCoordinator --------------------------
(***************************************************************************)
(* The write mutex of src/src/index/index-coordinator.ts.                  *)
(*                                                                         *)
(* runExclusive keeps no queue: each call chains on the promise its        *)
(* predecessor will resolve.  A call                                       *)
(*   1. reads this.writeLock into prev and replaces this.writeLock by a    *)
(*      fresh promise of its own, both before its first await;             *)
(*   2. waits until prev has settled;                                      *)
(*   3. counts itself in _activeWriters and runs the critical section;     *)
(*   4. in a finally block, whether the section returned or threw,         *)
(*      uncounts itself and resolves its own promise.                      *)
(* Promises are numbered in creation order; 0 is the Promise.resolve() the *)
(* field starts with.                                                      *)
(***************************************************************************)
EXTENDS Naturals

CONSTANTS
    Callers,    \* the call sites: reindexAll, reindexDelta, hydrate, sweep...
    MaxCalls,   \* bound on the promises created in a run
    NoCaller    \* stands for "no holder" in the queue the promises implement

ASSUME MaxCallsAssumption == MaxCalls \in Nat
ASSUME NoCallerAssumption == NoCaller \notin Callers

VARIABLES
    pc,             \* pc[c] : where call site c is
    writeLock,      \* the promise the next call will chain on
    resolved,       \* the promises that have been resolved
    prev,           \* prev[c] : the promise c waits for
    own,            \* own[c]  : the promise c resolves when it is done
    activeWriters,  \* _activeWriters
    threw           \* threw[c] : the last critical section of c rejected

icVars == <<pc, writeLock, resolved, prev, own, activeWriters, threw>>

Promises == 0 .. MaxCalls

IcTypeOK ==
    /\ pc \in [Callers -> {"idle", "queued", "running"}]
    /\ writeLock \in Promises
    /\ resolved \subseteq Promises
    /\ prev \in [Callers -> Promises]
    /\ own \in [Callers -> Promises]
    /\ activeWriters \in Nat
    /\ threw \in [Callers -> BOOLEAN]

IcInit ==
    /\ pc = [c \in Callers |-> "idle"]
    /\ writeLock = 0
    /\ resolved = {0}
    /\ prev = [c \in Callers |-> 0]
    /\ own = [c \in Callers |-> 0]
    /\ activeWriters = 0
    /\ threw = [c \in Callers |-> FALSE]

(* A mutated form: the caller chains on the promise the field started with. *)
CallOnFirstPromise(c) ==
    /\ pc[c] = "idle"
    /\ writeLock < MaxCalls
    /\ prev' = [prev EXCEPT ![c] = 0]
    /\ own' = [own EXCEPT ![c] = writeLock + 1]
    /\ writeLock' = writeLock + 1
    /\ pc' = [pc EXCEPT ![c] = "queued"]
    /\ UNCHANGED <<resolved, activeWriters, threw>>

(* A mutated form: the call counts itself as a writer before it has the lock. *)
CallCountsAtOnce(c) ==
    /\ pc[c] = "idle"
    /\ writeLock < MaxCalls
    /\ prev' = [prev EXCEPT ![c] = writeLock]
    /\ own' = [own EXCEPT ![c] = writeLock + 1]
    /\ writeLock' = writeLock + 1
    /\ pc' = [pc EXCEPT ![c] = "queued"]
    /\ activeWriters' = activeWriters + 1
    /\ UNCHANGED <<resolved, threw>>

(* Lines 80-84: the synchronous prefix of runExclusive. *)
Call(c) ==
    /\ pc[c] = "idle"
    /\ writeLock < MaxCalls
    /\ prev' = [prev EXCEPT ![c] = writeLock]
    /\ own' = [own EXCEPT ![c] = writeLock + 1]
    /\ writeLock' = writeLock + 1
    /\ pc' = [pc EXCEPT ![c] = "queued"]
    /\ UNCHANGED <<resolved, activeWriters, threw>>

(* A mutated form: the section starts without waiting for prev. *)
AcquireAtOnce(c) ==
    /\ pc[c] = "queued"
    /\ activeWriters' = activeWriters + 1
    /\ pc' = [pc EXCEPT ![c] = "running"]
    /\ UNCHANGED <<writeLock, resolved, prev, own, threw>>

(* A mutated form: the caller polls the counter instead of awaiting prev. *)
AcquireWhenIdle(c) ==
    /\ pc[c] = "queued"
    /\ activeWriters = 0
    /\ activeWriters' = activeWriters + 1
    /\ pc' = [pc EXCEPT ![c] = "running"]
    /\ UNCHANGED <<writeLock, resolved, prev, own, threw>>

(* Lines 85-90: prev has settled, the critical section starts. *)
Acquire(c) ==
    /\ pc[c] = "queued"
    /\ prev[c] \in resolved
    /\ activeWriters' = activeWriters + 1
    /\ pc' = [pc EXCEPT ![c] = "running"]
    /\ UNCHANGED <<writeLock, resolved, prev, own, threw>>

(* A mutated form: release() after the await, outside any finally block. *)
SettleWithoutFinally(c, failed) ==
    /\ pc[c] = "running"
    /\ activeWriters' = activeWriters - 1
    /\ resolved' = IF failed THEN resolved ELSE resolved \cup {own[c]}
    /\ threw' = [threw EXCEPT ![c] = failed]
    /\ pc' = [pc EXCEPT ![c] = "idle"]
    /\ UNCHANGED <<writeLock, prev, own>>

(* A mutated form: a catch block and the finally block both uncount. *)
SettleUncountsTwice(c, failed) ==
    /\ pc[c] = "running"
    /\ activeWriters' = activeWriters - (IF failed THEN 2 ELSE 1)
    /\ resolved' = resolved \cup {own[c]}
    /\ threw' = [threw EXCEPT ![c] = failed]
    /\ pc' = [pc EXCEPT ![c] = "idle"]
    /\ UNCHANGED <<writeLock, prev, own>>

(* Lines 91-96: the finally block, reached by a return or by a throw. *)
Settle(c, failed) ==
    /\ pc[c] = "running"
    /\ activeWriters' = activeWriters - 1
    /\ resolved' = resolved \cup {own[c]}
    /\ threw' = [threw EXCEPT ![c] = failed]
    /\ pc' = [pc EXCEPT ![c] = "idle"]
    /\ UNCHANGED <<writeLock, prev, own>>

Return(c) == Settle(c, FALSE)
Throw(c)  == Settle(c, TRUE)

IcNext ==
    \E c \in Callers : Call(c) \/ Acquire(c) \/ Return(c) \/ Throw(c)

(* A settled prev wakes its waiter (the event loop), and every critical    *)
(* section ends, by returning or by throwing.  Nobody has to call.         *)
Fairness ==
    \A c \in Callers : WF_icVars(Acquire(c)) /\ WF_icVars(Return(c) \/ Throw(c))

IcSpec == IcInit /\ [][IcNext]_icVars /\ Fairness

-----------------------------------------------------------------------------
(* isWriting(), lines 60-62. *)
isWriting == activeWriters > 0

Running == {c \in Callers : pc[c] = "running"}

(* Two critical sections never overlap: what every store mutation of the   *)
(* plugin relies on.  It follows from no single line: it needs the chain   *)
(* of promises to be a chain, each resolved by its owner alone.            *)
MutualExclusion ==
    \A c, d \in Callers : pc[c] = "running" /\ pc[d] = "running" => c = d

(* isWriting() is true exactly while some critical section runs: the       *)
(* reconcile poll and ensureFrame read it as that, and a call that is only *)
(* queued must not raise it.                                               *)
WritingIsAccurate ==
    /\ activeWriters \in {0, 1}
    /\ isWriting <=> Running # {}

(* The calls enter in the order they were made, whoever throws in between: *)
(* an orphan-sweep batch cannot overtake the delta queued before it.       *)
FifoOrder ==
    [][\A c, d \in Callers :
          (/\ pc[c] = "queued" /\ pc'[c] = "running"
           /\ pc[d] = "queued" /\ d # c) => own[c] < own[d]]_icVars

(* A section that throws does not wedge the queue: every call that is      *)
(* queued runs.                                                            *)
EveryCallRuns ==
    \A c \in Callers : pc[c] = "queued" ~> pc[c] = "running"

-----------------------------------------------------------------------------
(* The inductive invariant.  The promises are resolved in the order they   *)
(* were made; a pending call owns the successor of the promise it waits    *)
(* for, nobody else owns it, and it is not resolved yet.                   *)
Pending(c) == pc[c] # "idle"

ChainInv ==
    /\ IcTypeOK
    /\ \A n \in resolved : \A m \in 0 .. n : m \in resolved
    /\ \A n \in resolved : n <= writeLock
    /\ \A c \in Callers : Pending(c) =>
          /\ own[c] = prev[c] + 1
          /\ own[c] <= writeLock
          /\ own[c] \notin resolved
    /\ \A c, d \in Callers : Pending(c) /\ Pending(d) /\ own[c] = own[d] => c = d
    /\ \A c \in Callers : pc[c] = "running" => prev[c] \in resolved
    /\ activeWriters = IF \E c \in Callers : pc[c] = "running" THEN 1 ELSE 0

-----------------------------------------------------------------------------
(* The queue that the chain of promises stands for.  The resolved promises *)
(* are the first ones; one more is granted while a section runs; the calls *)
(* that wait own the rest, in the order they were made.                    *)
LastResolved == CHOOSE n \in resolved : n + 1 \notin resolved

Granted == LastResolved + activeWriters

Owners(n)  == {c \in Callers : Pending(c) /\ own[c] = n}
OwnerOf(n) == IF Owners(n) = {} THEN NoCaller ELSE CHOOSE c \in Owners(n) : TRUE

QueueOf == [i \in 1 .. (writeLock - Granted) |-> OwnerOf(Granted + i)]

HolderOf == IF Running = {} THEN NoCaller ELSE OwnerOf(Granted)

Fifo == INSTANCE FifoLock WITH queue <- QueueOf, holder <- HolderOf
=============================================================================
