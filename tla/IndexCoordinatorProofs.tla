----------------------- MODULE IndexCoordinatorProofs -----------------------
(* Proofs about the write mutex, for every set of call sites and every     *)
(* number of calls.  The promises are resolved in the order of their       *)
(* creation (ChainInv), so two running calls would own the same promise.   *)
(* Then the refinement: every step of the chain of promises is a step of   *)
(* the FIFO lock, or none.                                                 *)
EXTENDS IndexCoordinator, TLAPS, SequenceTheorems

(* The chain holds at start: only the initial promise exists, resolved.    *)
LEMMA ChainInit == IcInit => ChainInv
<1>1. MaxCalls \in Nat
  BY MaxCallsAssumption
<1>2. QED
  BY <1>1 DEF IcInit, ChainInv, IcTypeOK, Promises, Pending

(* A new call (lines 80-84) extends the chain at its end.                  *)
LEMMA CallKeepsChain ==
  ASSUME ChainInv, NEW c \in Callers, Call(c)
  PROVE  ChainInv'
<1> USE DEF Call, ChainInv, IcTypeOK, Promises, Pending
<1>0. MaxCalls \in Nat
  BY MaxCallsAssumption
<1>1. IcTypeOK'
  BY <1>0
<1>2. (\A n \in resolved : n <= writeLock)'
  BY <1>0
<1>3. ASSUME NEW d \in Callers, pc'[d] # "idle"
      PROVE  own'[d] = prev'[d] + 1 /\ own'[d] <= writeLock' /\ own'[d] \notin resolved'
  <2>1. CASE d = c
    BY <1>0, <2>1
  <2>2. CASE d # c
    BY <1>0, <1>3, <2>2
  <2>3. QED
    BY <2>1, <2>2
<1>4. ASSUME NEW d \in Callers, NEW e \in Callers,
             pc'[d] # "idle", pc'[e] # "idle", own'[d] = own'[e]
      PROVE  d = e
  BY <1>0, <1>4
<1>5. \A d \in Callers : pc'[d] = "running" => pc[d] = "running" /\ prev'[d] = prev[d]
  BY <1>0
<1>6. (\E d \in Callers : pc'[d] = "running") <=> (\E d \in Callers : pc[d] = "running")
  BY <1>0
<1>7. QED
  BY <1>1, <1>2, <1>3, <1>4, <1>5, <1>6

(* A running call has every older promise behind it, and none resolved     *)
(* beyond its own: it is alone.                                            *)
LEMMA ChainExcludes == ChainInv => MutualExclusion
<1> SUFFICES ASSUME ChainInv, NEW c \in Callers, NEW d \in Callers,
                    pc[c] = "running", pc[d] = "running"
             PROVE  c = d
  BY DEF MutualExclusion
<1>1. /\ own[c] \in Nat /\ own[d] \in Nat /\ prev[c] \in Nat /\ prev[d] \in Nat
      /\ own[c] = prev[c] + 1 /\ own[d] = prev[d] + 1
      /\ own[c] \notin resolved /\ own[d] \notin resolved
      /\ prev[c] \in resolved /\ prev[d] \in resolved
  BY MaxCallsAssumption DEF ChainInv, IcTypeOK, Promises, Pending
<1>2. ~(own[c] <= prev[d]) /\ ~(own[d] <= prev[c])
  BY <1>1 DEF ChainInv
<1>3. own[c] = own[d]
  BY <1>1, <1>2
<1>4. QED
  BY <1>3 DEF ChainInv, Pending

(* Entering the section (lines 85-90).                                     *)
LEMMA AcquireKeepsChain ==
  ASSUME ChainInv, NEW c \in Callers, Acquire(c)
  PROVE  ChainInv'
<1> USE DEF Acquire, ChainInv, IcTypeOK, Promises, Pending
<1>0. MaxCalls \in Nat
  BY MaxCallsAssumption
<1>1. ASSUME NEW d \in Callers, pc[d] = "running" PROVE FALSE
  <2>1. /\ own[c] \in Nat /\ own[d] \in Nat /\ prev[c] \in Nat /\ prev[d] \in Nat
        /\ own[c] = prev[c] + 1 /\ own[d] = prev[d] + 1
        /\ own[c] \notin resolved /\ own[d] \notin resolved
        /\ prev[c] \in resolved /\ prev[d] \in resolved
    BY <1>0, <1>1
  <2>2. ~(own[c] <= prev[d]) /\ ~(own[d] <= prev[c])
    BY <2>1
  <2>3. own[c] = own[d]
    BY <2>1, <2>2
  <2>4. c = d
    BY <2>3, <1>1
  <2>5. QED
    BY <2>4, <1>1
<1>2. activeWriters = 0 /\ activeWriters' = 1
  BY <1>1
<1>3. IcTypeOK'
  BY <1>2, <1>0
<1>4. \A d \in Callers : pc'[d] # "idle" <=> pc[d] # "idle"
  BY <1>0
<1>5. (\A d \in Callers : pc[d] = "running" => prev[d] \in resolved)'
  BY <1>0
<1>6. \E d \in Callers : pc'[d] = "running"
  BY <1>0
<1>7. QED
  BY <1>2, <1>3, <1>4, <1>5, <1>6

(* Leaving it (lines 91-96), by a return or by a throw.                    *)
LEMMA SettleKeepsChain ==
  ASSUME ChainInv, NEW c \in Callers, NEW failed \in BOOLEAN, Settle(c, failed)
  PROVE  ChainInv'
<1>a. own[c] \in Promises /\ resolved \subseteq Promises /\ resolved' = resolved \cup {own[c]}
  BY DEF Settle, ChainInv, IcTypeOK
<1>b. resolved' \subseteq Promises
  BY <1>a
<1> USE DEF Settle, ChainInv, IcTypeOK, Promises, Pending
<1>0. MaxCalls \in Nat
  BY MaxCallsAssumption
<1>1. \A d \in Callers : pc[d] = "running" => d = c
  BY ChainExcludes DEF MutualExclusion
<1>2. activeWriters = 1 /\ activeWriters' = 0
  BY <1>0
<1>3. IcTypeOK'
  <2>1. resolved' \subseteq Promises
    BY <1>b
  <2>2. pc' \in [Callers -> {"idle", "queued", "running"}] /\ threw' \in [Callers -> BOOLEAN]
    BY <1>0
  <2>3. activeWriters' \in Nat
    BY <1>2
  <2>4. QED
    BY <2>1, <2>2, <2>3
<1>4. (\A n \in resolved : \A m \in 0 .. n : m \in resolved)'
  <2>1. own[c] = prev[c] + 1 /\ prev[c] \in resolved /\ prev[c] \in Nat
    BY <1>0
  <2>2. \A m \in 0 .. own[c] : m = own[c] \/ m \in 0 .. prev[c]
    BY <2>1
  <2>3. QED
    BY <2>1, <2>2
<1>5. (\A n \in resolved : n <= writeLock)'
  BY <1>0
<1>6. ASSUME NEW d \in Callers, pc'[d] # "idle"
      PROVE  /\ d # c /\ pc'[d] = pc[d]
             /\ own'[d] = prev'[d] + 1 /\ own'[d] <= writeLock' /\ own'[d] \notin resolved'
  BY <1>0, <1>6
<1>7. \A d \in Callers : pc'[d] # "running"
  BY <1>1, <1>6
<1>8. QED
  BY <1>2, <1>3, <1>4, <1>5, <1>6, <1>7

LEMMA ChainStep == ChainInv /\ [IcNext]_icVars => ChainInv'
<1> SUFFICES ASSUME ChainInv, [IcNext]_icVars PROVE ChainInv'
  OBVIOUS
<1>1. CASE UNCHANGED icVars
  BY <1>1 DEF icVars, ChainInv, IcTypeOK, Promises, Pending
<1>2. CASE IcNext
  <2> PICK c \in Callers : Call(c) \/ Acquire(c) \/ Return(c) \/ Throw(c)
    BY <1>2 DEF IcNext
  <2>1. CASE Call(c)
    BY <2>1, CallKeepsChain
  <2>2. CASE Acquire(c)
    BY <2>2, AcquireKeepsChain
  <2>3. CASE Return(c) \/ Throw(c)
    BY <2>3, SettleKeepsChain DEF Return, Throw
  <2>4. QED
    BY <2>1, <2>2, <2>3
<1>3. QED
  BY <1>1, <1>2

(* The promise chain is an invariant of the mutex.                         *)
THEOREM ChainInvariant == IcSpec => []ChainInv
<1>1. QED
  BY ChainInit, ChainStep, PTL DEF IcSpec

(* runExclusive never lets two critical sections overlap, for any number   *)
(* of call sites and of calls.                                             *)
THEOREM ExclusionHolds == IcSpec => []MutualExclusion
<1>1. QED
  BY ChainInvariant, ChainExcludes, PTL

(* isWriting() tells exactly whether a critical section is running.        *)
THEOREM WritingHolds == IcSpec => []WritingIsAccurate
<1>1. ChainInv => WritingIsAccurate
  BY DEF ChainInv, IcTypeOK, WritingIsAccurate, isWriting, Running
<1>2. QED
  BY <1>1, ChainInvariant, PTL

(* The calls enter in the order they were made: an entering call has its   *)
(* prev resolved, hence every promise before its own, while the promise of *)
(* a call still queued is not.                                             *)
THEOREM OrderHolds == IcSpec => FifoOrder
<1> DEFINE Order == \A c, d \in Callers :
          (/\ pc[c] = "queued" /\ pc'[c] = "running"
           /\ pc[d] = "queued" /\ d # c) => own[c] < own[d]
<1>1. ChainInv /\ [IcNext]_icVars => [Order]_icVars
  <2> SUFFICES ASSUME ChainInv, IcNext, NEW c \in Callers, NEW d \in Callers,
                      pc[c] = "queued", pc'[c] = "running", pc[d] = "queued", d # c
               PROVE  own[c] < own[d]
    OBVIOUS
  <2>1. prev[c] \in resolved
    <3> PICK e \in Callers : Call(e) \/ Acquire(e) \/ Return(e) \/ Throw(e)
      BY DEF IcNext
    <3>1. QED
      BY DEF Call, Acquire, Return, Throw, Settle, ChainInv, IcTypeOK
  <2>2. /\ own[c] \in Nat /\ own[d] \in Nat /\ prev[c] \in Nat
        /\ own[c] = prev[c] + 1 /\ own[d] \notin resolved /\ own[c] # own[d]
    BY MaxCallsAssumption DEF ChainInv, IcTypeOK, Promises, Pending
  <2>3. ~(own[d] <= prev[c])
    BY <2>1, <2>2 DEF ChainInv
  <2>4. QED
    BY <2>2, <2>3
<1>2. QED
  BY <1>1, ChainInvariant, PTL DEF IcSpec, FifoOrder

-----------------------------------------------------------------------------
(* The refinement.  The chain has no hole: the resolved promises are the   *)
(* first ones, and each of the others is owned by a call that is pending.  *)
OwnedInv ==
    /\ \E k \in 0 .. writeLock : resolved = 0 .. k
    /\ \A n \in 1 .. writeLock :
          n \in resolved \/ \E c \in Callers : Pending(c) /\ own[c] = n

LEMMA OwnedInit == IcInit => OwnedInv
<1> SUFFICES ASSUME IcInit PROVE OwnedInv
  OBVIOUS
<1>1. writeLock = 0 /\ resolved = 0 .. 0
  BY DEF IcInit
<1>2. QED
  BY <1>1 DEF OwnedInv

LEMMA OwnedStep ==
  ASSUME ChainInv, OwnedInv, [IcNext]_icVars
  PROVE  OwnedInv'
<1> USE DEF OwnedInv, Pending
<1>0. MaxCalls \in Nat /\ writeLock \in Nat
  BY MaxCallsAssumption DEF ChainInv, IcTypeOK, Promises
<1>1. CASE UNCHANGED icVars
  BY <1>1 DEF icVars
<1>2. ASSUME NEW c \in Callers, Call(c)
      PROVE  OwnedInv'
  <2>1. /\ writeLock' = writeLock + 1 /\ UNCHANGED resolved
        /\ pc'[c] # "idle" /\ own'[c] = writeLock + 1
        /\ \A d \in Callers \ {c} : pc'[d] = pc[d] /\ own'[d] = own[d]
        /\ pc[c] = "idle"
    BY <1>2 DEF Call, ChainInv, IcTypeOK
  <2>2. \A n \in 1 .. writeLock' : n \in 1 .. writeLock \/ n = writeLock + 1
    BY <1>0, <2>1
  <2>3. \E k \in 0 .. writeLock' : resolved' = 0 .. k
    <3>1. PICK k \in 0 .. writeLock : resolved = 0 .. k
      OBVIOUS
    <3>2. k \in 0 .. writeLock'
      BY <1>0, <2>1
    <3>3. QED
      BY <2>1, <3>1, <3>2
  <2>4. \A n \in 1 .. writeLock' : n \in resolved' \/ \E d \in Callers : pc'[d] # "idle" /\ own'[d] = n
    BY <2>1, <2>2
  <2>5. QED
    BY <2>3, <2>4
<1>3. ASSUME NEW c \in Callers, Acquire(c)
      PROVE  OwnedInv'
  <2>1. /\ UNCHANGED <<writeLock, resolved, own>>
        /\ \A d \in Callers : pc[d] # "idle" => pc'[d] # "idle"
    BY <1>3 DEF Acquire, ChainInv, IcTypeOK
  <2>2. QED
    BY <2>1
<1>4. ASSUME NEW c \in Callers, NEW failed \in BOOLEAN, Settle(c, failed)
      PROVE  OwnedInv'
  <2>1. /\ UNCHANGED <<writeLock, own>> /\ resolved' = resolved \cup {own[c]}
        /\ \A d \in Callers \ {c} : pc'[d] = pc[d]
        /\ pc[c] = "running"
    BY <1>4 DEF Settle, ChainInv, IcTypeOK
  <2>2. PICK k \in 0 .. writeLock : resolved = 0 .. k
    OBVIOUS
  <2>3. own[c] = k + 1 /\ own[c] \in 0 .. writeLock
    BY <1>0, <2>1, <2>2, MaxCallsAssumption DEF ChainInv, IcTypeOK, Promises
  <2>4. resolved' = 0 .. (k + 1)
    BY <2>1, <2>2, <2>3
  <2>5. QED
    BY <2>1, <2>3, <2>4
<1>5. QED
  BY <1>1, <1>2, <1>3, <1>4 DEF IcNext, Return, Throw

(* What the mapping is, in a state of the chain.                           *)
Mapped ==
    /\ LastResolved \in 0 .. writeLock /\ resolved = 0 .. LastResolved
    /\ Granted \in 0 .. writeLock
    /\ QueueOf \in Seq(Callers) /\ Len(QueueOf) = writeLock - Granted
    /\ \A i \in 1 .. Len(QueueOf) :
          pc[QueueOf[i]] = "queued" /\ own[QueueOf[i]] = Granted + i
    /\ \A c \in Callers : pc[c] = "running" => own[c] = Granted /\ HolderOf = c
    /\ \A c \in Callers : pc[c] = "queued" => own[c] \in Granted + 1 .. writeLock
    /\ (\A c \in Callers : pc[c] # "running") => HolderOf = NoCaller /\ activeWriters = 0

(* The resolved promises are those up to the last one.                     *)
LEMMA ResolvedIsPrefix ==
  ASSUME ChainInv, OwnedInv
  PROVE  LastResolved \in 0 .. writeLock /\ resolved = 0 .. LastResolved
<1>1. writeLock \in Nat
  BY MaxCallsAssumption DEF ChainInv, IcTypeOK, Promises
<1>2. PICK k \in 0 .. writeLock : resolved = 0 .. k
  BY DEF OwnedInv
<1>3. \A n \in resolved : n + 1 \notin resolved <=> n = k
  BY <1>1, <1>2
<1>4. LastResolved = k
  BY <1>1, <1>2, <1>3 DEF LastResolved
<1>5. QED
  BY <1>2, <1>4

LEMMA IsMapped == ChainInv /\ OwnedInv => Mapped
<1> SUFFICES ASSUME ChainInv, OwnedInv PROVE Mapped
  OBVIOUS
<1>1. LastResolved \in 0 .. writeLock /\ resolved = 0 .. LastResolved /\ writeLock \in Nat
  BY MaxCallsAssumption, ResolvedIsPrefix DEF ChainInv, IcTypeOK, Promises
<1>2. /\ \A c \in Callers : pc[c] = "running" => own[c] = LastResolved + 1 /\ activeWriters = 1
      /\ (\A c \in Callers : pc[c] # "running") => activeWriters = 0 /\ Running = {}
      /\ \A c \in Callers : Pending(c) => own[c] \in LastResolved + 1 .. writeLock
  <2>1. \A c \in Callers : Pending(c) =>
           /\ own[c] \in Nat /\ own[c] <= writeLock /\ own[c] \notin 0 .. LastResolved
           /\ prev[c] \in Nat /\ own[c] = prev[c] + 1
    BY <1>1, MaxCallsAssumption DEF ChainInv, IcTypeOK, Promises
  <2>2. \A c \in Callers : pc[c] = "running" => prev[c] \in 0 .. LastResolved /\ Pending(c)
    BY <1>1 DEF ChainInv, Pending
  <2>3. \A c \in Callers : pc[c] = "running" => activeWriters = 1
    BY DEF ChainInv
  <2>4. (\A c \in Callers : pc[c] # "running") => activeWriters = 0 /\ Running = {}
    BY DEF ChainInv, Running
  <2>5. \A c \in Callers : Pending(c) => own[c] \in LastResolved + 1 .. writeLock
    BY <1>1, <2>1
  <2>6. \A c \in Callers : pc[c] = "running" => own[c] = LastResolved + 1
    BY <1>1, <2>1, <2>2
  <2>7. QED
    BY <2>3, <2>4, <2>5, <2>6
<1>3. \A c \in Callers : pc[c] \in {"idle", "queued", "running"}
  BY DEF ChainInv, IcTypeOK
<1>4. Granted \in 0 .. writeLock /\ activeWriters \in {0, 1}
  <2>1. CASE \E c \in Callers : pc[c] = "running"
    BY <1>1, <1>2, <2>1 DEF Granted, Pending
  <2>2. CASE \A c \in Callers : pc[c] # "running"
    BY <1>1, <1>2, <2>2 DEF Granted
  <2>3. QED
    BY <2>1, <2>2
<1>5. \A c, d \in Callers : Pending(c) /\ Pending(d) /\ own[c] = own[d] => c = d
  BY DEF ChainInv
<1>6. \A c \in Callers : pc[c] = "running" => own[c] = Granted /\ HolderOf = c
  <2> SUFFICES ASSUME NEW c \in Callers, pc[c] = "running"
               PROVE  own[c] = Granted /\ HolderOf = c
    OBVIOUS
  <2>1. own[c] = Granted /\ Running # {}
    BY <1>2 DEF Granted, Running
  <2>2. c \in Owners(Granted) /\ \A d \in Owners(Granted) : d = c
    BY <1>5, <2>1 DEF Owners, Pending
  <2>3. OwnerOf(Granted) = c
    BY <2>2 DEF OwnerOf
  <2>4. QED
    BY <2>1, <2>3 DEF HolderOf
<1>7. \A c \in Callers : pc[c] = "queued" => own[c] \in Granted + 1 .. writeLock
  <2> SUFFICES ASSUME NEW c \in Callers, pc[c] = "queued"
               PROVE  own[c] \in Granted + 1 .. writeLock
    OBVIOUS
  <2>1. own[c] \in LastResolved + 1 .. writeLock
    BY <1>2 DEF Pending
  <2>2. CASE \E d \in Callers : pc[d] = "running"
    <3> PICK d \in Callers : pc[d] = "running"
      BY <2>2
    <3>1. own[c] # own[d] /\ own[d] = LastResolved + 1 /\ Granted = LastResolved + 1
      BY <1>2, <1>5 DEF Granted, Pending
    <3>2. QED
      BY <1>1, <2>1, <3>1
  <2>3. CASE \A d \in Callers : pc[d] # "running"
    <3>1. Granted = LastResolved
      BY <1>1, <1>2, <2>3 DEF Granted
    <3>2. QED
      BY <2>1, <3>1
  <2>4. QED
    BY <2>2, <2>3
<1>8. ASSUME NEW n \in Granted + 1 .. writeLock
      PROVE  OwnerOf(n) \in Callers /\ pc[OwnerOf(n)] = "queued" /\ own[OwnerOf(n)] = n
  <2>1. n \notin resolved /\ n \in 1 .. writeLock
    BY <1>1, <1>4 DEF Granted
  <2>2. Owners(n) # {}
    BY <2>1 DEF OwnedInv, Owners
  <2>3. OwnerOf(n) \in Owners(n)
    BY <2>2 DEF OwnerOf
  <2>4. OwnerOf(n) \in Callers /\ Pending(OwnerOf(n)) /\ own[OwnerOf(n)] = n
    BY <2>3 DEF Owners
  <2>5. n # Granted
    BY <1>4
  <2>6. QED
    BY <1>3, <1>6, <2>4, <2>5 DEF Pending
<1>9. QueueOf \in Seq(Callers) /\ Len(QueueOf) = writeLock - Granted
  <2>1. writeLock - Granted \in Nat
    BY <1>1, <1>4
  <2>2. \A i \in 1 .. writeLock - Granted : Granted + i \in Granted + 1 .. writeLock
    BY <1>1, <1>4
  <2>3. \A i \in 1 .. writeLock - Granted : OwnerOf(Granted + i) \in Callers
    BY <1>8, <2>2
  <2>4. QueueOf \in [1 .. writeLock - Granted -> Callers]
    BY <2>3 DEF QueueOf
  <2>5. QED
    BY <2>1, <2>4
<1>10. ASSUME NEW i \in 1 .. Len(QueueOf)
       PROVE  pc[QueueOf[i]] = "queued" /\ own[QueueOf[i]] = Granted + i
  <2>1. QueueOf[i] = OwnerOf(Granted + i) /\ Granted + i \in Granted + 1 .. writeLock
    BY <1>1, <1>4, <1>9 DEF QueueOf
  <2>2. QED
    BY <1>8, <2>1
<1>11. (\A c \in Callers : pc[c] # "running") => HolderOf = NoCaller /\ activeWriters = 0
  BY <1>2 DEF HolderOf
<1>12. QED
  BY <1>1, <1>4, <1>6, <1>7, <1>9, <1>10, <1>11 DEF Mapped

(* The initial states map to the initial state of the lock.                *)
LEMMA InitImplements == IcInit => Fifo!Init
<1> SUFFICES ASSUME IcInit PROVE Fifo!Init
  OBVIOUS
<1>1. Mapped
  BY ChainInit, OwnedInit, IsMapped
<1>2. writeLock = 0 /\ Granted = 0
  BY <1>1 DEF IcInit, Mapped
<1>3. QueueOf = <<>>
  BY <1>1, <1>2 DEF Mapped
<1>4. HolderOf = NoCaller
  BY <1>1 DEF IcInit, Mapped
<1>5. QED
  BY <1>3, <1>4 DEF Fifo!Init

(* The call sites of the queue's entries are told by the promises they own. *)
Alone == \A c, d \in Callers : Pending(c) /\ Pending(d) /\ own[c] = own[d] => c = d

LEMMA CallImplements ==
  ASSUME ChainInv, Mapped, Mapped', Alone', NEW c \in Callers, Call(c)
  PROVE  Fifo!Enqueue(c)
<1>0. MaxCalls \in Nat /\ writeLock \in Nat
  BY MaxCallsAssumption DEF ChainInv, IcTypeOK, Promises
<1>1. /\ pc[c] = "idle" /\ writeLock' = writeLock + 1
      /\ pc'[c] = "queued" /\ own'[c] = writeLock + 1
      /\ \A d \in Callers \ {c} : pc'[d] = pc[d] /\ own'[d] = own[d]
      /\ UNCHANGED <<resolved, activeWriters>>
  BY DEF Call, ChainInv, IcTypeOK
<1>2. Granted' = Granted /\ Granted \in Nat
  <2>1. LastResolved' = LastResolved
    BY <1>1 DEF LastResolved
  <2>2. Granted \in Nat
    BY <1>0 DEF Mapped
  <2>3. QED
    BY <1>1, <2>1, <2>2 DEF Granted
<1>3. HolderOf' = HolderOf /\ HolderOf # c
  <2>1. CASE \E d \in Callers : pc[d] = "running"
    <3> PICK d \in Callers : pc[d] = "running"
      BY <2>1
    <3>1. d # c /\ pc'[d] = "running"
      BY <1>1
    <3>2. QED
      BY <3>1 DEF Mapped
  <2>2. CASE \A d \in Callers : pc[d] # "running"
    <3>1. \A d \in Callers : pc'[d] # "running"
      BY <1>1, <2>2
    <3>2. QED
      BY <2>2, <3>1, NoCallerAssumption DEF Mapped
  <2>3. QED
    BY <2>1, <2>2
<1>4. QueueOf \in Seq(Callers) /\ Len(QueueOf) \in Nat /\ QueueOf' \in Seq(Callers)
  BY DEF Mapped
<1>5. \A i \in 1 .. Len(QueueOf) : QueueOf[i] \in Callers /\ pc[QueueOf[i]] = "queued" /\ QueueOf[i] # c
  BY <1>1, <1>4 DEF Mapped
<1>6. c \notin Fifo!Waiting \cup {HolderOf}
  <2>1. DOMAIN QueueOf = 1 .. Len(QueueOf)
    BY <1>4
  <2>2. QED
    BY <1>3, <1>5, <2>1 DEF Fifo!Waiting
<1>7. QueueOf' = Append(QueueOf, c)
  <2>1. Len(QueueOf') = Len(QueueOf) + 1
    BY <1>0, <1>1, <1>2 DEF Mapped
  <2>2. /\ Append(QueueOf, c) \in Seq(Callers) /\ Len(Append(QueueOf, c)) = Len(QueueOf) + 1
        /\ \A i \in 1 .. Len(QueueOf) : Append(QueueOf, c)[i] = QueueOf[i]
        /\ Append(QueueOf, c)[Len(QueueOf) + 1] = c
    BY <1>4, AppendProperties
  <2>3. ASSUME NEW i \in 1 .. Len(QueueOf')
        PROVE  QueueOf'[i] = Append(QueueOf, c)[i]
    <3>1. QueueOf'[i] \in Callers /\ pc'[QueueOf'[i]] = "queued" /\ own'[QueueOf'[i]] = Granted + i
      BY <1>2, <1>4 DEF Mapped
    <3>2. CASE i = Len(QueueOf) + 1
      <4>1. Granted + i = writeLock + 1
        BY <1>0, <1>2, <1>4, <3>2 DEF Mapped
      <4>2. QueueOf'[i] = c
        BY <1>1, <3>1, <4>1 DEF Alone, Pending
      <4>3. QED
        BY <2>2, <3>2, <4>2
    <3>3. CASE i \in 1 .. Len(QueueOf)
      <4>1. /\ QueueOf[i] \in Callers /\ pc'[QueueOf[i]] = "queued"
            /\ own'[QueueOf[i]] = Granted + i
        BY <1>1, <1>5, <3>3 DEF Mapped
      <4>2. QueueOf'[i] = QueueOf[i]
        BY <3>1, <4>1 DEF Alone, Pending
      <4>3. QED
        BY <2>2, <3>3, <4>2
    <3>4. QED
      BY <1>4, <2>1, <3>2, <3>3
  <2>4. QED
    BY <1>4, <2>1, <2>2, <2>3, SeqEqual
<1>8. QED
  BY <1>3, <1>6, <1>7 DEF Fifo!Enqueue

LEMMA AcquireImplements ==
  ASSUME ChainInv, Mapped, Mapped', Alone', NEW c \in Callers, Acquire(c)
  PROVE  Fifo!Grant
<1>0. MaxCalls \in Nat /\ writeLock \in Nat
  BY MaxCallsAssumption DEF ChainInv, IcTypeOK, Promises
<1>1. /\ pc[c] = "queued" /\ prev[c] \in resolved /\ pc'[c] = "running"
      /\ \A d \in Callers \ {c} : pc'[d] = pc[d]
      /\ UNCHANGED <<own, writeLock, resolved>> /\ activeWriters' = activeWriters + 1
      /\ own[c] = prev[c] + 1 /\ prev[c] \in Nat
  BY MaxCallsAssumption DEF Acquire, ChainInv, IcTypeOK, Promises, Pending
<1>2. LastResolved \in Nat /\ own[c] = LastResolved + 1 /\ own[c] \in Granted + 1 .. writeLock
  <2>1. own[c] \in Granted + 1 .. writeLock /\ own[c] <= LastResolved + 1 /\ LastResolved \in Nat
    <3>1. own[c] \in Granted + 1 .. writeLock
      BY <1>1 DEF Mapped
    <3>2. LastResolved \in 0 .. writeLock /\ prev[c] \in 0 .. LastResolved
      BY <1>1 DEF Mapped
    <3>3. QED
      BY <1>0, <1>1, <3>1, <3>2
  <2>2. activeWriters \in Nat
    BY DEF ChainInv, IcTypeOK
  <2>3. Granted \in Nat /\ LastResolved <= Granted /\ own[c] \in Nat
    BY <1>0, <1>1, <2>1, <2>2 DEF Granted
  <2>4. Granted + 1 <= own[c]
    BY <1>0, <2>1, <2>3
  <2>5. QED
    BY <2>1, <2>3, <2>4
<1>3. activeWriters = 0 /\ Granted = LastResolved /\ Granted' = Granted + 1 /\ Granted \in Nat
  <2>1. activeWriters \in Nat
    BY DEF ChainInv, IcTypeOK
  <2>2. LastResolved' = LastResolved
    BY <1>1 DEF LastResolved
  <2>3. QED
    BY <1>1, <1>2, <2>1, <2>2 DEF Granted
<1>4. HolderOf = NoCaller /\ HolderOf' = c
  <2>1. \A d \in Callers : pc[d] # "running"
    BY <1>3 DEF ChainInv
  <2>2. QED
    BY <1>1, <2>1 DEF Mapped
<1>5. QueueOf \in Seq(Callers) /\ Len(QueueOf) \in Nat \ {0} /\ QueueOf' \in Seq(Callers) /\ QueueOf # <<>>
  <2>1. QueueOf \in Seq(Callers) /\ QueueOf' \in Seq(Callers) /\ Len(QueueOf) = writeLock - Granted
    BY DEF Mapped
  <2>2. Len(QueueOf) \in Nat \ {0}
    BY <1>0, <1>2, <1>3, <2>1
  <2>3. QED
    BY <2>1, <2>2, EmptySeq
<1>6. \A i \in 1 .. Len(QueueOf) : /\ QueueOf[i] \in Callers /\ pc[QueueOf[i]] = "queued"
                                   /\ own[QueueOf[i]] = Granted + i
  BY <1>5 DEF Mapped
<1>7. Alone
  BY DEF ChainInv, Alone
<1>8. Head(QueueOf) = c
  <2>1. QueueOf[1] = c
    BY <1>1, <1>2, <1>3, <1>5, <1>6, <1>7 DEF Alone, Pending
  <2>2. QED
    BY <1>5, <2>1
<1>9. QueueOf' = Tail(QueueOf)
  <2>1. Len(QueueOf') = Len(QueueOf) - 1
    BY <1>0, <1>1, <1>3 DEF Mapped
  <2>2. /\ Tail(QueueOf) \in Seq(Callers) /\ Len(Tail(QueueOf)) = Len(QueueOf) - 1
        /\ \A i \in 1 .. Len(Tail(QueueOf)) : Tail(QueueOf)[i] = QueueOf[i + 1]
    BY <1>5, HeadTailProperties
  <2>3. ASSUME NEW i \in 1 .. Len(QueueOf')
        PROVE  QueueOf'[i] = Tail(QueueOf)[i]
    <3>1. QueueOf'[i] \in Callers /\ pc'[QueueOf'[i]] = "queued" /\ own'[QueueOf'[i]] = Granted + 1 + i
      BY <1>3, <1>5 DEF Mapped
    <3>2. i + 1 \in 1 .. Len(QueueOf)
      BY <1>5, <2>1
    <3>3. own[QueueOf[i + 1]] = Granted + (i + 1) /\ pc[QueueOf[i + 1]] = "queued" /\ QueueOf[i + 1] \in Callers
      BY <1>6, <3>2
    <3>4. Granted + (i + 1) = Granted + 1 + i
      BY <1>3
    <3>5. pc[QueueOf'[i]] # "idle"
      BY <1>1, <3>1
    <3>6. QueueOf'[i] = QueueOf[i + 1]
      BY <1>1, <1>7, <3>1, <3>3, <3>4, <3>5 DEF Alone, Pending
    <3>7. QED
      BY <2>1, <2>2, <3>6
  <2>4. QED
    BY <1>5, <2>1, <2>2, <2>3, SeqEqual
<1>10. QED
  BY <1>4, <1>5, <1>8, <1>9 DEF Fifo!Grant

LEMMA SettleImplements ==
  ASSUME ChainInv, Mapped, Mapped', Alone', NEW c \in Callers, NEW failed, Settle(c, failed)
  PROVE  Fifo!Release
<1>0. MaxCalls \in Nat /\ writeLock \in Nat
  BY MaxCallsAssumption DEF ChainInv, IcTypeOK, Promises
<1>1. /\ pc[c] = "running" /\ pc'[c] = "idle"
      /\ \A d \in Callers \ {c} : pc'[d] = pc[d]
      /\ UNCHANGED <<own, writeLock>> /\ activeWriters' = activeWriters - 1
      /\ resolved' = resolved \cup {own[c]}
  BY DEF Settle, ChainInv, IcTypeOK
<1>2. activeWriters = 1 /\ activeWriters' = 0 /\ HolderOf = c /\ own[c] = Granted
  <2>1. activeWriters = 1
    BY <1>1 DEF ChainInv
  <2>2. QED
    BY <1>1, <2>1 DEF Mapped
<1>3. \A d \in Callers : pc'[d] # "running"
  BY <1>1, ChainExcludes DEF MutualExclusion
<1>4. HolderOf' = NoCaller
  BY <1>3 DEF Mapped
<1>5. Granted' = Granted /\ Granted \in Nat
  <2>1. LastResolved \in Nat /\ Granted = LastResolved + 1 /\ resolved = 0 .. LastResolved
    BY <1>0, <1>2 DEF Granted, Mapped
  <2>2. resolved' = 0 .. Granted
    BY <1>1, <1>2, <2>1
  <2>3. LastResolved' \in Nat /\ resolved' = 0 .. LastResolved'
    BY <1>0, <1>1 DEF Mapped
  <2>4. LastResolved' = Granted
    <3>1. Granted \in Nat /\ Granted \in 0 .. Granted /\ LastResolved' \in 0 .. LastResolved'
      BY <2>1, <2>3
    <3>2. Granted \in 0 .. LastResolved' /\ LastResolved' \in 0 .. Granted
      BY <2>2, <2>3, <3>1
    <3>3. QED
      BY <2>3, <3>1, <3>2
  <2>5. QED
    BY <1>2, <2>1, <2>4 DEF Granted
<1>6. QueueOf' = QueueOf
  <2>1. QueueOf \in Seq(Callers) /\ QueueOf' \in Seq(Callers) /\ Len(QueueOf') = Len(QueueOf)
    BY <1>1, <1>5 DEF Mapped
  <2>2. ASSUME NEW i \in 1 .. Len(QueueOf') PROVE QueueOf'[i] = QueueOf[i]
    <3>1. QueueOf'[i] \in Callers /\ pc'[QueueOf'[i]] = "queued" /\ own[QueueOf'[i]] = Granted + i
      BY <1>1, <1>5, <2>1 DEF Mapped
    <3>2. QueueOf[i] \in Callers /\ pc[QueueOf[i]] = "queued" /\ own[QueueOf[i]] = Granted + i
      BY <2>1 DEF Mapped
    <3>3. pc'[QueueOf[i]] = "queued"
      BY <1>1, <3>2
    <3>4. QED
      BY <1>1, <3>1, <3>2, <3>3 DEF Alone, Pending
  <2>3. QED
    BY <2>1, <2>2, SeqEqual
<1>7. QED
  BY <1>2, <1>4, <1>6, NoCallerAssumption DEF Fifo!Release

LEMMA StepImplements ==
  ASSUME ChainInv, Mapped, Mapped', Alone', [IcNext]_icVars
  PROVE  [Fifo!Next]_(Fifo!vars)
<1>1. CASE UNCHANGED icVars
  <2>1. UNCHANGED <<QueueOf, HolderOf>>
    BY <1>1 DEF icVars, QueueOf, HolderOf, OwnerOf, Owners, Pending, Granted, LastResolved,
       Running
  <2>2. QED
    BY <2>1 DEF Fifo!vars
<1>2. ASSUME NEW c \in Callers, Call(c) PROVE Fifo!Next
  BY <1>2, CallImplements DEF Fifo!Next
<1>3. ASSUME NEW c \in Callers, Acquire(c) PROVE Fifo!Next
  BY <1>3, AcquireImplements DEF Fifo!Next
<1>4. ASSUME NEW c \in Callers, Return(c) \/ Throw(c) PROVE Fifo!Next
  BY <1>4, SettleImplements DEF Return, Throw, Fifo!Next
<1>5. QED
  BY <1>1, <1>2, <1>3, <1>4 DEF IcNext

(* The chain of promises of runExclusive is a FIFO lock: a call joins the  *)
(* end of the queue, the head of the queue is the next holder, and only a  *)
(* section that ends, by returning or by throwing, releases.               *)
THEOREM ChainIsFifoLock == IcSpec => Fifo!Init /\ [][Fifo!Next]_(Fifo!vars)
<1>1. IcSpec => [](ChainInv /\ OwnedInv)
  <2>1. ChainInv /\ OwnedInv /\ [IcNext]_icVars => ChainInv' /\ OwnedInv'
    BY ChainStep, OwnedStep
  <2>2. QED
    BY ChainInit, OwnedInit, <2>1, PTL DEF IcSpec
<1>2. ChainInv /\ OwnedInv => Mapped /\ Alone
  BY IsMapped DEF ChainInv, Alone
<1>3. ChainInv /\ Mapped /\ Mapped' /\ Alone' /\ [IcNext]_icVars => [Fifo!Next]_(Fifo!vars)
  BY StepImplements
<1>4. QED
  BY <1>1, <1>2, <1>3, InitImplements, PTL DEF IcSpec
=============================================================================
