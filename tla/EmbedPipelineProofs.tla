------------------------- MODULE EmbedPipelineProofs -------------------------
(***************************************************************************)
(* The embedding pass for any number of files, chunks, slots and flushes:  *)
(* every slot is held by the batch that writes, and every chunk has one    *)
(* fate.                                                                   *)
(*                                                                         *)
(* Both rest on where a chunk is: in the buffer, in one batch, or not yet  *)
(* pushed (PiPlaces); on what a batch has still to resolve (PiTodo); and   *)
(* on what cannot be lost while nothing broke (PiKept).                    *)
(*                                                                         *)
(* Then the rows it feeds (RowSpaces), for any chunks: one numbering of    *)
(* the frame and of the index (Joined), the one a rebuild would show.      *)
(***************************************************************************)
EXTENDS EmbedPipeline, RowSpaces, SequenceTheorems, FiniteSetTheorems, TLAPS

Phases == OnGpu \cup {"persist", "done"}
Batches == [chunks : Seq(PassChunks), phase : Phases, solo : Nat, out : {"ok", "null"},
            inline : BOOLEAN]
InFile == {"push", "ahead", "await", "inline"}
Draining == {"drainFlushes", "drainBuckets", "inlineDrain", "drainPersist", "gate", "done"}
FileStates == {"waiting", "open", "skipped", "committed", "quarantined", "failed", "unwound", "kept"}

WellFormed(b) == Len(b.chunks) > 0 /\ b.solo <= Len(b.chunks)

PiTypes ==
  /\ pipeMode \in {"full", "incremental"}
  /\ main \in {"idle", "loop", "thrown"} \cup InFile \cup Draining
  /\ nextFile \in 1..(PFiles + 1) /\ pushed \in 0..ChunksPer
  /\ fileState \in [PassFiles -> FileStates]
  /\ vec \in [PassChunks -> {"none", "ok", "null"}]
  /\ buffer \in Seq(PassChunks)
  /\ batches \in Seq(Batches) /\ \A k \in DOMAIN batches : WellFormed(batches[k])
  /\ awaited \in Nat \ {0}
  /\ slotsInUse \in Nat
  /\ chain \in Seq(Nat)
  /\ persistFatal \in BOOLEAN /\ pipeDisposed \in BOOLEAN

(* What the place of the loop says of its variables. *)
PiMain ==
  /\ main \in InFile => nextFile <= PFiles
  /\ main \in {"idle", "loop"} \cup Draining => pushed = 0
  /\ main = "idle" => batches = <<>> /\ chain = <<>>
  /\ main \in {"ahead", "await"} => pipeMode = "full"
  /\ main = "inline" => pipeMode = "incremental"
  /\ main = "await" => awaited <= Len(batches)
  /\ main \in {"inline", "inlineDrain"} => Len(batches) > 0
  /\ main \in {"drainPersist", "gate", "done"} => buffer = <<>> \/ pipeDisposed
  /\ main \in {"gate", "done"} => ~persistFatal /\ \A k \in DOMAIN batches : batches[k].phase = "done"
  /\ main = "done" => Cardinality(Quarantined) <= QuarantineCap

(* The slots. *)
Persisting(s) == {k \in DOMAIN s : s[k].phase = "persist"}
PiSlots ==
  /\ slotsInUse = Cardinality(Persisting(batches))
  /\ slotsInUse <= InflightMax
  /\ pipeMode = "incremental" => Len(chain) = slotsInUse

(* How far the loop is ahead. *)
PendingOf(s) == {k \in DOMAIN s : Pending(s[k])}
PiAhead ==
  /\ PendingFlushes <= AheadCap
  /\ main \in {"loop", "push"} => PendingFlushes < AheadCap
  /\ awaited <= Len(batches) + 1 /\ \A k \in PendingOf(batches) : k >= awaited
  /\ main \in {"loop", "push"} /\ pipeMode = "incremental" => PendingOf(batches) = {}
  /\ main \in {"drainBuckets", "drainPersist", "gate", "done"} => PendingOf(batches) = {}
  /\ main \in {"inline", "inlineDrain"} => PendingOf(batches) \subseteq {Len(batches)}

(* Where a chunk is. *)
Pushed(c) == c[1] < nextFile \/ (c[1] = nextFile /\ c[2] <= pushed)
Occurs(s, c) == \E i \in DOMAIN s : s[i] = c
Buffered(c) == Occurs(buffer, c)
Has(b, c) == Occurs(b.chunks, c)
Dispatched(c) == \E k \in DOMAIN batches : Has(batches[k], c)
Injective(s) == \A i, j \in DOMAIN s : s[i] = s[j] => i = j

PiPlaces ==
  /\ Injective(buffer)
  /\ \A k \in DOMAIN batches : Injective(batches[k].chunks)
  /\ \A c \in PassChunks : Buffered(c) \/ Dispatched(c) => Pushed(c)
  /\ \A c \in PassChunks : ~(Buffered(c) /\ Dispatched(c))
  /\ \A k, l \in DOMAIN batches : \A c \in PassChunks :
       Has(batches[k], c) /\ Has(batches[l], c) => k = l
  /\ \A c \in PassChunks : vec[c] # "none" => Dispatched(c)

(* What a batch has still to resolve. *)
Settled == {"committed", "quarantined", "unwound", "kept"}
Redone(b) == b.out = "null" /\ b.phase \in {"acquire", "persist"} /\ pipeDisposed
Ahead(b) ==
  IF b.solo = 0
  THEN /\ vec[Last(b.chunks)] = "none"
       /\ b.phase # "persist" => \A i \in DOMAIN b.chunks : vec[b.chunks[i]] = "none"
  ELSE \A i \in DOMAIN b.chunks : i >= b.solo =>
         \/ vec[b.chunks[i]] = "none"
         \/ i = b.solo /\ Redone(b) /\ fileState[b.chunks[i][1]] \notin Settled

PiTodo == \A k \in DOMAIN batches : batches[k].phase # "done" => Ahead(batches[k])

(* What happened to a chunk, unless the pass broke. *)
Broken == persistFatal \/ pipeDisposed \/ main = "thrown"
Kept == \A c \in PassChunks :
          Pushed(c) /\ fileState[c[1]] = "open" => Buffered(c) \/ Dispatched(c)
Resolved == \A k \in DOMAIN batches : \A i \in DOMAIN batches[k].chunks :
              batches[k].phase = "done" \/ i < batches[k].solo => vec[batches[k].chunks[i]] # "none"
PiKept == Broken \/ (Kept /\ Resolved)

PiFates ==
  \A f \in PassFiles :
    /\ fileState[f] = "committed" => \A c \in PassChunks : c[1] = f => vec[c] = "ok"
    /\ fileState[f] \in {"quarantined", "unwound", "kept"} =>
         \E c \in PassChunks : c[1] = f /\ vec[c] = "null"
    /\ fileState[f] \in Settled => Unresolved(vec, f) = {}
    /\ fileState[f] = "open" /\ ~pipeDisposed => Unresolved(vec, f) # {}
    /\ fileState[f] = "open" => f <= nextFile
    /\ fileState[f] = "open" /\ f = nextFile => main \in InFile \cup {"thrown"}
    /\ f > nextFile \/ (f = nextFile /\ main \in {"idle", "loop"}) => fileState[f] = "waiting"

PiInv == PiTypes /\ PiMain /\ PiSlots /\ PiAhead /\ PiPlaces /\ PiTodo /\ PiKept /\ PiFates

-----------------------------------------------------------------------------
(* Sequences, chunks and least indices.                                    *)

LEMMA Nats ==
  /\ PFiles \in Nat \ {0} /\ ChunksPer \in Nat \ {0} /\ RollingBatch \in Nat \ {0}
  /\ InflightMax \in Nat \ {0} /\ EmbedSlots \in Nat \ {0} /\ AheadCap \in Nat \ {0}
  /\ QuarantineCap \in Nat
  BY PipeAssumption

LEMMA ChunkIsPair ==
  ASSUME NEW c \in PassChunks
  PROVE  c[1] \in PassFiles /\ c[2] \in 1..ChunksPer /\ c = <<c[1], c[2]>>
  BY DEF PassChunks

Below == {p \in Nat \X Nat : p[1] < p[2]}

LEMMA LeastIndex ==
  ASSUME NEW T \in SUBSET Nat, T # {}
  PROVE  \E x \in T : \A y \in T : x <= y
  <1>1. IsWellFoundedOn(Below, Nat)
    BY NatLessThanWellFounded DEF OpToRel, Below
  <1>2. \E x \in T : \A y \in T : ~ (<<y, x>> \in Below)
    BY <1>1, WFMin
  <1>3. \A x, y \in Nat : <<y, x>> \in Below <=> y < x
    BY DEF Below
  <1>4. PICK x \in T : \A y \in T : ~ (<<y, x>> \in Below)
    BY <1>2
  <1>5. \A y \in T : x <= y
    <2> SUFFICES ASSUME NEW y \in T  PROVE x <= y
      OBVIOUS
    <2>1. x \in Nat /\ y \in Nat /\ ~(y < x)
      BY <1>3, <1>4
    <2> QED
      BY <2>1
  <1> QED
    BY <1>5

(* One batch is replaced by another. *)
LEMMA BatchSet ==
  ASSUME batches \in Seq(Batches), NEW k \in DOMAIN batches, NEW d \in Batches,
         batches' = [batches EXCEPT ![k] = d]
  PROVE  /\ batches' \in Seq(Batches) /\ Len(batches') = Len(batches)
         /\ DOMAIN batches' = DOMAIN batches
         /\ batches'[k] = d
         /\ \A j \in DOMAIN batches : j # k => batches'[j] = batches[j]
  BY ExceptSeq

LEMMA BatchTyped ==
  ASSUME batches \in Seq(Batches), NEW k \in DOMAIN batches
  PROVE  batches[k] \in Batches /\ k \in Nat
  BY ElementOfSeq

(* A buffer splits into the next dispatch and the rest. *)
SplitAt(buf, h, r, n) ==
  /\ n \in 1..Len(buf)
  /\ h \in Seq(PassChunks) /\ Len(h) = n /\ \A i \in 1..n : h[i] = buf[i]
  /\ r \in Seq(PassChunks) /\ Len(r) = Len(buf) - n
  /\ \A i \in 1..(Len(buf) - n) : r[i] = buf[i + n]

LEMMA SpliceSplits ==
  ASSUME NEW buf \in Seq(PassChunks), buf # <<>>
  PROVE  \E n \in Nat :
           SplitAt(buf,
             SubSeq(buf, 1, IF Len(buf) < RollingBatch THEN Len(buf) ELSE RollingBatch),
             AfterSplice(buf), n)
  <1> DEFINE n == IF Len(buf) < RollingBatch THEN Len(buf) ELSE RollingBatch
             m == RollingBatch + 1
             h == SubSeq(buf, 1, n)
             r == SubSeq(buf, m, Len(buf))
  <1>1. Len(buf) \in Nat \ {0} /\ RollingBatch \in Nat \ {0}
    BY EmptySeq, Nats
  <1>2. n \in 1..Len(buf) /\ m \in Int /\ n \in Int /\ Len(buf) \in Int
    BY <1>1
  <1>3. \A i \in 1..Len(buf) : buf[i] \in PassChunks
    BY ElementOfSeq
  <1>4. \A i \in 1..n : buf[i] \in PassChunks
    BY <1>1, <1>2, <1>3
  <1>5. \A i \in m..Len(buf) : buf[i] \in PassChunks
    BY <1>1, <1>3
  <1>6. Len(buf) - n = IF m <= Len(buf) THEN Len(buf) - m + 1 ELSE 0
    <2>1. \A l, b \in Nat \ {0} : LET q == IF l < b THEN l ELSE b IN
            l - q = IF b + 1 <= l THEN l - (b + 1) + 1 ELSE 0
      OBVIOUS
    <2> QED
      BY <1>1, <2>1
  <1>7. n < m /\ (Len(buf) # n => n + 1 = m)
    BY <1>1
  <1> HIDE DEF n, m
  <1>8. /\ h \in Seq(PassChunks) /\ Len(h) = IF 1 <= n THEN n - 1 + 1 ELSE 0
        /\ \A i \in 1..(n - 1 + 1) : h[i] = buf[1 + i - 1]
    BY <1>2, <1>4, SubSeqProperties
  <1>9. /\ r \in Seq(PassChunks)
        /\ Len(r) = IF m <= Len(buf) THEN Len(buf) - m + 1 ELSE 0
        /\ \A i \in 1..(Len(buf) - m + 1) : r[i] = buf[m + i - 1]
    BY <1>2, <1>5, SubSeqProperties
  <1> HIDE DEF h, r
  <1>10. Len(h) = n /\ \A i \in 1..n : h[i] = buf[i]
    <2>1. Len(h) = n /\ n - 1 + 1 = n /\ \A i \in 1..n : 1 + i - 1 = i
      BY <1>2, <1>8
    <2> QED
      BY <1>2, <1>8, <2>1
  <1>11. Len(r) = Len(buf) - n
    BY <1>6, <1>7, <1>9
  <1>12. \A i \in 1..(Len(buf) - n) : r[i] = buf[i + n]
    <2> SUFFICES ASSUME NEW i \in 1..(Len(buf) - n)  PROVE r[i] = buf[i + n]
      OBVIOUS
    <2>1. i \in 1..(Len(buf) - m + 1) /\ m + i - 1 = i + n
      BY <1>1, <1>2, <1>7
    <2> QED
      BY <1>9, <2>1
  <1>13. SplitAt(buf, h, r, n)
    BY <1>2, <1>8, <1>9, <1>10, <1>11, <1>12 DEF SplitAt
  <1>14. n \in Nat
    BY <1>2
  <1> QED
    BY <1>13, <1>14 DEF h, r, m, n, AfterSplice

LEMMA SplitParts ==
  ASSUME NEW buf \in Seq(PassChunks), Injective(buf), NEW h, NEW r, NEW n \in Nat,
         SplitAt(buf, h, r, n)
  PROVE  /\ h \in Seq(PassChunks) /\ Len(h) > 0 /\ Injective(h)
         /\ r \in Seq(PassChunks) /\ Injective(r)
         /\ \A c : Occurs(buf, c) <=> Occurs(h, c) \/ Occurs(r, c)
         /\ \A c : ~(Occurs(h, c) /\ Occurs(r, c))
  <1>1. /\ n \in 1..Len(buf) /\ Len(buf) \in Nat
        /\ DOMAIN buf = 1..Len(buf) /\ DOMAIN h = 1..n /\ DOMAIN r = 1..(Len(buf) - n)
        /\ \A i \in 1..n : i \in 1..Len(buf) /\ h[i] = buf[i]
        /\ \A i \in 1..(Len(buf) - n) : i + n \in 1..Len(buf) /\ r[i] = buf[i + n]
    BY DEF SplitAt
  <1>2. Injective(h)
    BY <1>1 DEF Injective
  <1>3. Injective(r)
    <2> SUFFICES ASSUME NEW i \in DOMAIN r, NEW j \in DOMAIN r, r[i] = r[j]  PROVE i = j
      BY DEF Injective
    <2>1. buf[i + n] = buf[j + n] /\ i + n \in DOMAIN buf /\ j + n \in DOMAIN buf
      BY <1>1
    <2>2. i + n = j + n
      BY <2>1 DEF Injective
    <2> QED
      BY <1>1, <2>2
  <1>4. ASSUME NEW c, Occurs(buf, c)  PROVE Occurs(h, c) \/ Occurs(r, c)
    <2>1. PICK i \in 1..Len(buf) : buf[i] = c
      BY <1>1, <1>4 DEF Occurs
    <2>2. CASE i <= n
      BY <1>1, <2>1, <2>2 DEF Occurs
    <2>3. CASE i > n
      <3>1. i - n \in 1..(Len(buf) - n) /\ (i - n) + n = i
        BY <1>1, <2>3
      <3>2. i - n \in DOMAIN r /\ r[i - n] = c
        BY <1>1, <2>1, <3>1
      <3> QED
        BY <3>2 DEF Occurs
    <2> QED
      BY <1>1, <2>2, <2>3
  <1>5. ASSUME NEW c, Occurs(h, c)  PROVE Occurs(buf, c)
    BY <1>1, <1>5 DEF Occurs
  <1>6. ASSUME NEW c, Occurs(r, c)  PROVE Occurs(buf, c)
    BY <1>1, <1>6 DEF Occurs
  <1>7. ASSUME NEW c, Occurs(h, c), Occurs(r, c)  PROVE FALSE
    <2>1. PICK i \in DOMAIN h : h[i] = c
      BY <1>7 DEF Occurs
    <2>2. PICK j \in DOMAIN r : r[j] = c
      BY <1>7 DEF Occurs
    <2>3. buf[i] = buf[j + n] /\ i \in DOMAIN buf /\ j + n \in DOMAIN buf /\ i # j + n
      BY <1>1, <2>1, <2>2
    <2> QED
      BY <2>3 DEF Injective
  <1> QED
    BY <1>1, <1>2, <1>3, <1>4, <1>5, <1>6, <1>7 DEF SplitAt

(* The sets of batches that are counted. *)
LEMMA Counted ==
  ASSUME NEW s \in Seq(Batches), NEW T \in SUBSET (DOMAIN s)
  PROVE  IsFiniteSet(T) /\ Cardinality(T) \in Nat /\ (Cardinality(T) = 0 <=> T = {})
  <1>1. IsFiniteSet(DOMAIN s)
    <2>1. DOMAIN s = 1..Len(s) /\ 1 \in Int /\ Len(s) \in Int
      BY LenProperties
    <2> QED
      BY <2>1, FS_Interval
  <1>2. IsFiniteSet(T)
    BY <1>1, FS_Subset
  <1> QED
    BY <1>2, FS_CardinalityType, FS_EmptySet

LEMMA PendingCounted ==
  ASSUME NEW s \in Seq(Batches)
  PROVE  /\ IsFiniteSet(PendingOf(s)) /\ Cardinality(PendingOf(s)) \in Nat
         /\ Cardinality(PendingOf(s)) = 0 <=> PendingOf(s) = {}
         /\ IsFiniteSet(Persisting(s)) /\ Cardinality(Persisting(s)) \in Nat
         /\ Cardinality(Persisting(s)) = 0 <=> Persisting(s) = {}
  <1>1. PendingOf(s) \in SUBSET (DOMAIN s) /\ Persisting(s) \in SUBSET (DOMAIN s)
    BY DEF PendingOf, Persisting
  <1> QED
    BY <1>1, Counted

LEMMA FlushesCounted ==
  PendingFlushes = Cardinality(PendingOf(batches))
  BY DEF PendingFlushes, PendingOf

-----------------------------------------------------------------------------
(* What a step of a batch keeps.                                           *)

OnlyBatches == UNCHANGED <<pipeMode, loopVars, pipeDisposed>>

LEMMA MainStays ==
  ASSUME PiTypes, PiMain, NEW k \in DOMAIN batches, batches[k].phase # "done",
         batches' \in Seq(Batches), Len(batches') = Len(batches),
         main' \in {main, "thrown"}, OnlyBatches
  PROVE  PiMain' /\ main \notin {"idle", "gate", "done"}
  <1>1. main \notin {"idle", "gate", "done"}
    BY DEF PiMain
  <1>2. UNCHANGED <<pipeMode, nextFile, pushed, buffer, awaited, pipeDisposed>>
    BY DEF OnlyBatches, loopVars
  <1>3. main' \notin {"idle", "gate", "done"}
    BY <1>1
  <1> QED
    BY <1>1, <1>2, <1>3 DEF PiMain, PiTypes, InFile, Draining

LEMMA AheadShrinks ==
  ASSUME PiTypes, PiAhead, batches' \in Seq(Batches), Len(batches') = Len(batches),
         PendingOf(batches') \subseteq PendingOf(batches),
         main' \in {main, "thrown"}, OnlyBatches
  PROVE  PiAhead'
  <1>1. Cardinality(PendingOf(batches')) <= Cardinality(PendingOf(batches))
    BY PendingCounted, FS_Subset DEF PiTypes
  <1>2. /\ Cardinality(PendingOf(batches')) \in Nat /\ Cardinality(PendingOf(batches)) \in Nat
        /\ AheadCap \in Nat
    BY PendingCounted, Nats DEF PiTypes
  <1>3. PendingFlushes <= Cardinality(PendingOf(batches))
         /\ PendingFlushes = Cardinality(PendingOf(batches))
         /\ PendingFlushes' = Cardinality(PendingOf(batches'))
    BY <1>2, FlushesCounted DEF PendingFlushes, PendingOf
  <1>4. UNCHANGED <<pipeMode, awaited>>
    BY DEF OnlyBatches, loopVars
  <1>5. PendingFlushes' <= AheadCap /\ (main' \in {"loop", "push"} => PendingFlushes' < AheadCap)
    BY <1>1, <1>2, <1>3 DEF PiAhead
  <1>6. awaited' <= Len(batches') + 1 /\ \A k \in PendingOf(batches') : k >= awaited'
    BY <1>4 DEF PiAhead
  <1>7. /\ main' \in {"loop", "push"} /\ pipeMode' = "incremental" => PendingOf(batches') = {}
        /\ main' \in {"drainBuckets", "drainPersist", "gate", "done"} => PendingOf(batches') = {}
        /\ main' \in {"inline", "inlineDrain"} => PendingOf(batches') \subseteq {Len(batches')}
    BY <1>4 DEF PiAhead
  <1> QED
    BY <1>5, <1>6, <1>7 DEF PiAhead, PendingFlushes, PendingOf

SameChunks ==
  /\ batches' \in Seq(Batches) /\ Len(batches') = Len(batches)
  /\ \A j \in DOMAIN batches : batches'[j].chunks = batches[j].chunks

LEMMA SameParts ==
  ASSUME PiTypes, SameChunks, UNCHANGED <<buffer, nextFile, pushed>>
  PROVE  /\ DOMAIN batches' = DOMAIN batches
         /\ \A c : Buffered(c)' <=> Buffered(c)
         /\ \A c : Dispatched(c)' <=> Dispatched(c)
         /\ \A c : Pushed(c)' <=> Pushed(c)
  <1>1. DOMAIN batches' = DOMAIN batches
    BY DEF PiTypes, SameChunks
  <1> QED
    BY <1>1 DEF SameChunks, Buffered, Dispatched, Has, Occurs, Pushed

LEMMA PlacesStay ==
  ASSUME PiTypes, PiPlaces, SameChunks, OnlyBatches,
         \A c \in PassChunks : vec'[c] # "none" => vec[c] # "none" \/ Dispatched(c)
  PROVE  PiPlaces'
  <1>1. UNCHANGED <<buffer, nextFile, pushed>>
    BY DEF OnlyBatches, loopVars
  <1>2. /\ DOMAIN batches' = DOMAIN batches
        /\ \A c : Buffered(c)' <=> Buffered(c)
        /\ \A c : Dispatched(c)' <=> Dispatched(c)
        /\ \A c : Pushed(c)' <=> Pushed(c)
    BY <1>1, SameParts
  <1>3. Injective(buffer') /\ \A k \in DOMAIN batches' : Injective(batches'[k].chunks)
    BY <1>1, <1>2 DEF PiPlaces, SameChunks
  <1>4. \A k, l \in DOMAIN batches' : \A c \in PassChunks :
          Has(batches'[k], c) /\ Has(batches'[l], c) => k = l
    BY <1>2 DEF PiPlaces, SameChunks, Has
  <1>5. /\ \A c \in PassChunks : (Buffered(c) \/ Dispatched(c))' => Pushed(c)'
        /\ \A c \in PassChunks : ~(Buffered(c) /\ Dispatched(c))'
        /\ \A c \in PassChunks : vec'[c] # "none" => Dispatched(c)'
    BY <1>2 DEF PiPlaces
  <1> QED
    BY <1>3, <1>4, <1>5 DEF PiPlaces

-----------------------------------------------------------------------------
(* The steps of a batch up to its writes.                                  *)

(* A batch on the GPU moves on, at most into its solo retries. *)
Progress(b, d) ==
  /\ d \in Batches /\ d.chunks = b.chunks /\ d.inline = b.inline
  /\ b.phase \in OnGpu \ {"acquire"} /\ d.phase \in OnGpu
  /\ d.solo = b.solo \/ (b.solo = 0 /\ d.solo = 1)

LEMMA GpuKeeps ==
  ASSUME PiInv, NEW k \in DOMAIN batches, Progress(batches[k], batches'[k]),
         batches' \in Seq(Batches), Len(batches') = Len(batches),
         \A j \in DOMAIN batches :
           batches'[j] = batches[j] \/ Progress(batches[j], batches'[j]),
         UNCHANGED <<pipeMode, main, loopVars, fileState, vec, slotsInUse, chain, persistFatal,
                     pipeDisposed>>
  PROVE  PiInv'
  <1> USE DEF PiInv
  <1>1. /\ OnlyBatches /\ main' \in {main, "thrown"} /\ batches[k].phase # "done"
        /\ DOMAIN batches' = DOMAIN batches
        /\ UNCHANGED <<nextFile, pushed, buffer, awaited>>
    BY DEF OnlyBatches, Progress, OnGpu, PiTypes, loopVars
  <1>2. PiMain'
    BY <1>1, MainStays
  <1>3. SameChunks
    BY DEF SameChunks, Progress
  <1>4. PiPlaces'
    BY <1>1, <1>3, PlacesStay
  <1>5. PendingOf(batches') \subseteq PendingOf(batches)
    BY <1>1 DEF PendingOf, Pending, Progress
  <1>6. PiAhead'
    BY <1>1, <1>5, AheadShrinks
  <1>7. Persisting(batches') = Persisting(batches)
    BY <1>1 DEF Persisting, Progress, OnGpu
  <1>8. PiSlots'
    BY <1>7 DEF PiSlots
  <1>9. \A j \in DOMAIN batches : Len(batches[j].chunks) \in Nat \ {0} /\ WellFormed(batches'[j])
    <2> SUFFICES ASSUME NEW j \in DOMAIN batches
                 PROVE  Len(batches[j].chunks) \in Nat \ {0} /\ WellFormed(batches'[j])
      OBVIOUS
    <2>1. batches[j] \in Batches /\ WellFormed(batches[j])
      BY BatchTyped DEF PiTypes
    <2>2. Len(batches[j].chunks) \in Nat \ {0}
      BY <2>1 DEF Batches, WellFormed
    <2> QED
      BY <2>1, <2>2 DEF WellFormed, Progress
  <1>10. PiTypes'
    BY <1>1, <1>9 DEF PiTypes
  <1>11. PiTodo'
    <2> SUFFICES ASSUME NEW j \in DOMAIN batches, batches'[j].phase # "done"
                 PROVE  Ahead(batches[j])'
      BY <1>1 DEF PiTodo
    <2>1. Ahead(batches[j])
      BY DEF PiTodo, Progress, OnGpu
    <2>2. CASE batches'[j] = batches[j]
      BY <2>1, <2>2 DEF Ahead, Redone
    <2>3. CASE Progress(batches[j], batches'[j])
      <3>1. batches[j].phase # "persist" /\ ~Redone(batches[j])
        BY <2>3 DEF Progress, OnGpu, Redone
      <3>2. batches[j].solo \in Nat /\ Len(batches[j].chunks) \in Nat \ {0}
        BY <1>9, BatchTyped DEF PiTypes, Batches
      <3>3. CASE batches[j].solo = 0
        <4>1. \A i \in DOMAIN batches[j].chunks : vec[batches[j].chunks[i]] = "none"
          BY <2>1, <3>1, <3>3 DEF Ahead
        <4>2. vec[Last(batches[j].chunks)] = "none"
          BY <2>1, <3>3 DEF Ahead
        <4> QED
          BY <2>3, <4>1, <4>2 DEF Ahead, Progress
      <3>4. CASE batches[j].solo # 0
        <4>1. \A i \in DOMAIN batches[j].chunks :
                 i >= batches[j].solo => vec[batches[j].chunks[i]] = "none"
          BY <2>1, <3>1, <3>4 DEF Ahead
        <4> QED
          BY <2>3, <3>4, <4>1 DEF Ahead, Progress
      <3> QED
        BY <3>3, <3>4
    <2> QED
      BY <2>2, <2>3
  <1>12. PiKept'
    <2> SUFFICES ASSUME ~Broken'  PROVE (Kept /\ Resolved)'
      BY DEF PiKept
    <2>1. Kept /\ Resolved
      BY DEF PiKept, Broken
    <2>2. Kept'
      BY <1>1, <1>3, <2>1, SameParts DEF Kept
    <2>3. Resolved'
      <3> SUFFICES ASSUME NEW j \in DOMAIN batches, NEW i \in DOMAIN batches[j].chunks,
                          batches'[j].phase = "done" \/ i < batches'[j].solo
                   PROVE  vec[batches[j].chunks[i]] # "none"
        BY <1>1, <1>3 DEF Resolved, SameChunks
      <3>1. CASE batches'[j] = batches[j]
        BY <2>1, <3>1 DEF Resolved
      <3>2. CASE Progress(batches[j], batches'[j])
        <4>1. i \in Nat \ {0} /\ batches'[j].phase # "done"
          <5>1. batches[j].chunks \in Seq(PassChunks)
            BY BatchTyped DEF PiTypes, Batches
          <5> QED
            BY <3>2, <5>1 DEF Progress, OnGpu
        <4>2. batches'[j].solo = batches[j].solo
          BY <3>2, <4>1 DEF Progress
        <4> QED
          BY <2>1, <4>1, <4>2 DEF Resolved
      <3> QED
        BY <3>1, <3>2
    <2> QED
      BY <2>2, <2>3
  <1>13. PiFates'
    BY <1>1 DEF PiFates, Unresolved
  <1> QED
    BY <1>2, <1>4, <1>6, <1>8, <1>10, <1>11, <1>12, <1>13

LEMMA PhaseSet ==
  ASSUME PiTypes, NEW k \in DOMAIN batches, NEW ph \in Phases, SetPhase(k, ph)
  PROVE  /\ batches' \in Seq(Batches) /\ Len(batches') = Len(batches)
         /\ DOMAIN batches' = DOMAIN batches
         /\ \A j \in DOMAIN batches : j # k => batches'[j] = batches[j]
         /\ batches'[k] \in Batches /\ batches'[k].phase = ph
         /\ batches'[k].solo = batches[k].solo /\ batches'[k].chunks = batches[k].chunks
         /\ batches'[k].out = batches[k].out /\ batches'[k].inline = batches[k].inline
  <1> DEFINE d == [batches[k] EXCEPT !.phase = ph]
  <1>1. batches[k] \in Batches
    BY BatchTyped DEF PiTypes
  <1>2. /\ d \in Batches /\ d.phase = ph /\ d.solo = batches[k].solo
        /\ d.chunks = batches[k].chunks /\ d.out = batches[k].out /\ d.inline = batches[k].inline
    BY <1>1 DEF Batches
  <1>3. batches' = [batches EXCEPT ![k] = d]
    BY DEF SetPhase
  <1> HIDE DEF d
  <1> QED
    BY <1>2, <1>3, BatchSet DEF PiTypes

LEMMA ResultSet ==
  ASSUME PiTypes, NEW k \in DOMAIN batches, NEW ph \in Phases, NEW o \in {"ok", "null"},
         batches' = [batches EXCEPT ![k].phase = ph, ![k].out = o]
  PROVE  /\ batches' \in Seq(Batches) /\ Len(batches') = Len(batches)
         /\ DOMAIN batches' = DOMAIN batches
         /\ \A j \in DOMAIN batches : j # k => batches'[j] = batches[j]
         /\ batches'[k] \in Batches /\ batches'[k].phase = ph
         /\ batches'[k].solo = batches[k].solo /\ batches'[k].chunks = batches[k].chunks
         /\ batches'[k].out = o /\ batches'[k].inline = batches[k].inline
  <1> DEFINE d == [batches[k] EXCEPT !.phase = ph, !.out = o]
  <1>1. batches[k] \in Batches
    BY BatchTyped DEF PiTypes
  <1>2. /\ d \in Batches /\ d.phase = ph /\ d.solo = batches[k].solo
        /\ d.chunks = batches[k].chunks /\ d.out = o /\ d.inline = batches[k].inline
    BY <1>1 DEF Batches
  <1>3. batches' = [batches EXCEPT ![k] = d]
    <2>1. batches[k].phase = batches[k].phase
      OBVIOUS
    <2> QED
      BY <1>1, k \in DOMAIN batches DEF PiTypes
  <1> HIDE DEF d
  <1> QED
    BY <1>2, <1>3, BatchSet DEF PiTypes

LEMMA GaveUp ==
  ASSUME NEW b \in Batches, b.phase \in {"recycle", "retry"}
  PROVE  Progress(b, GiveUp(b))
  <1>1. {"embed", "acquire"} \subseteq Phases
    BY DEF Phases, OnGpu
  <1>2. CASE b.solo = 0
    <2> DEFINE d == [b EXCEPT !.phase = "embed", !.solo = 1]
    <2>1. d \in Batches /\ d.phase = "embed" /\ d.solo = 1 /\ d.chunks = b.chunks
          /\ d.inline = b.inline
      BY <1>1 DEF Batches
    <2>2. GiveUp(b) = d
      BY <1>2 DEF GiveUp, Batches
    <2> QED
      BY <1>2, <2>1, <2>2 DEF Progress, OnGpu
  <1>3. CASE b.solo # 0
    <2> DEFINE d == [b EXCEPT !.phase = "acquire", !.out = "null"]
    <2>1. d \in Batches /\ d.phase = "acquire" /\ d.solo = b.solo /\ d.chunks = b.chunks
          /\ d.inline = b.inline
      BY <1>1 DEF Batches
    <2>2. GiveUp(b) = d
      BY <1>3 DEF GiveUp, Batches
    <2> QED
      BY <2>1, <2>2 DEF Progress, OnGpu
  <1> QED
    BY <1>2, <1>3

LEMMA TakeKeeps ==
  ASSUME PiInv, NEW k \in DOMAIN batches, TakeEmbedSlot(k)
  PROVE  PiInv'
  <1>1. PiTypes /\ "embed" \in Phases /\ SetPhase(k, "embed") /\ batches[k].phase = "queued"
    BY DEF PiInv, TakeEmbedSlot, Phases, OnGpu
  <1>2. Progress(batches[k], batches'[k])
    BY <1>1, PhaseSet DEF Progress, OnGpu
  <1>3. /\ batches' \in Seq(Batches) /\ Len(batches') = Len(batches)
        /\ \A j \in DOMAIN batches : batches'[j] = batches[j] \/ Progress(batches[j], batches'[j])
    BY <1>1, <1>2, PhaseSet
  <1> QED
    BY <1>2, <1>3, GpuKeeps DEF TakeEmbedSlot

LEMMA EmbedOkKeeps ==
  ASSUME PiInv, NEW k \in DOMAIN batches, EmbedOk(k)
  PROVE  PiInv'
  <1>1. /\ PiTypes /\ "acquire" \in Phases /\ batches[k].phase \in {"embed", "retry"}
        /\ batches' = [batches EXCEPT ![k].phase = "acquire", ![k].out = "ok"]
    BY DEF PiInv, EmbedOk, Embedding, Phases, OnGpu
  <1>2. Progress(batches[k], batches'[k])
    BY <1>1, ResultSet DEF Progress, OnGpu
  <1>3. /\ batches' \in Seq(Batches) /\ Len(batches') = Len(batches)
        /\ \A j \in DOMAIN batches : batches'[j] = batches[j] \/ Progress(batches[j], batches'[j])
    BY <1>1, <1>2, ResultSet
  <1> QED
    BY <1>2, <1>3, GpuKeeps DEF EmbedOk

(* The recycle touches every dispatch under way. *)
LEMMA EmbedFailsKeeps ==
  ASSUME PiInv, NEW k \in DOMAIN batches, EmbedFails(k)
  PROVE  PiInv'
  <1>1. /\ batches \in Seq(Batches) /\ DOMAIN batches = 1..Len(batches) /\ Len(batches) \in Nat
        /\ batches[k].phase = "embed"
    BY DEF PiInv, PiTypes, EmbedFails
  <1> DEFINE d(j) == IF j = k THEN [batches[j] EXCEPT !.phase = "recycle"]
                     ELSE IF j \in Embedding THEN [batches[j] EXCEPT !.phase = "rejected"]
                     ELSE batches[j]
  <1>2. batches' = [j \in 1..Len(batches) |-> d(j)]
    BY <1>1 DEF EmbedFails
  <1>3. \A j \in DOMAIN batches : d(j) = batches[j] \/ Progress(batches[j], d(j))
    <2> SUFFICES ASSUME NEW j \in DOMAIN batches
                 PROVE  d(j) = batches[j] \/ Progress(batches[j], d(j))
      OBVIOUS
    <2>1. batches[j] \in Batches /\ {"recycle", "rejected"} \subseteq Phases
      BY <1>1, BatchTyped DEF Phases, OnGpu
    <2>2. j = k \/ j \in Embedding => batches[j].phase \in {"embed", "retry"}
      BY <1>1 DEF Embedding
    <2> DEFINE e == [batches[j] EXCEPT !.phase = "recycle"]
               g == [batches[j] EXCEPT !.phase = "rejected"]
    <2>3. /\ e \in Batches /\ e.phase = "recycle" /\ e.solo = batches[j].solo
          /\ e.chunks = batches[j].chunks /\ e.inline = batches[j].inline
          /\ g \in Batches /\ g.phase = "rejected" /\ g.solo = batches[j].solo
          /\ g.chunks = batches[j].chunks /\ g.inline = batches[j].inline
      BY <2>1 DEF Batches
    <2>4. d(j) \in {e, g, batches[j]} /\ (d(j) # batches[j] => j = k \/ j \in Embedding)
      OBVIOUS
    <2> QED
      BY <2>2, <2>3, <2>4 DEF Progress, OnGpu
  <1>4. \A j \in 1..Len(batches) : d(j) \in Batches
    BY <1>1, <1>3, BatchTyped DEF Progress
  <1>5. d(k).phase = "recycle"
    BY <1>1, BatchTyped DEF Phases, OnGpu, Batches
  <1> HIDE DEF d
  <1>6. batches' \in Seq(Batches) /\ Len(batches') = Len(batches)
    BY <1>1, <1>2, <1>4
  <1>7. \A j \in DOMAIN batches : batches'[j] = d(j)
    BY <1>1, <1>2
  <1>8. Progress(batches[k], batches'[k])
    BY <1>1, <1>3, <1>5, <1>7
  <1>9. \A j \in DOMAIN batches : batches'[j] = batches[j] \/ Progress(batches[j], batches'[j])
    BY <1>3, <1>7
  <1> QED
    BY <1>6, <1>8, <1>9, GpuKeeps DEF EmbedFails

LEMMA GiveUpKeeps ==
  ASSUME PiInv, NEW k \in DOMAIN batches, RecycleEnds(k) \/ RetryFails(k)
  PROVE  PiInv'
  <1>1. PiTypes /\ batches[k] \in Batches /\ batches[k].phase \in {"recycle", "retry"}
    BY BatchTyped DEF PiInv, PiTypes, RecycleEnds, RetryFails
  <1>2. CASE SetPhase(k, "retry")
    <2>1. "retry" \in Phases
      BY DEF Phases, OnGpu
    <2>2. Progress(batches[k], batches'[k])
      BY <1>1, <1>2, <2>1, PhaseSet DEF Progress, OnGpu
    <2>3. /\ batches' \in Seq(Batches) /\ Len(batches') = Len(batches)
          /\ \A j \in DOMAIN batches : batches'[j] = batches[j] \/ Progress(batches[j], batches'[j])
      BY <1>1, <1>2, <2>1, <2>2, PhaseSet
    <2> QED
      BY <2>2, <2>3, GpuKeeps DEF RecycleEnds, RetryFails
  <1>3. CASE batches' = [batches EXCEPT ![k] = GiveUp(@)]
    <2>1. Progress(batches[k], GiveUp(batches[k]))
      BY <1>1, GaveUp
    <2>2. GiveUp(batches[k]) \in Batches /\ batches' = [batches EXCEPT ![k] = GiveUp(batches[k])]
      BY <1>3, <2>1 DEF Progress
    <2>3. /\ batches' \in Seq(Batches) /\ Len(batches') = Len(batches)
          /\ batches'[k] = GiveUp(batches[k])
          /\ \A j \in DOMAIN batches : j # k => batches'[j] = batches[j]
      BY <1>1, <2>2, BatchSet DEF PiTypes
    <2>4. /\ Progress(batches[k], batches'[k])
          /\ \A j \in DOMAIN batches : batches'[j] = batches[j] \/ Progress(batches[j], batches'[j])
      BY <2>1, <2>3
    <2> QED
      BY <2>3, <2>4, GpuKeeps DEF RecycleEnds, RetryFails
  <1> QED
    BY <1>2, <1>3 DEF RecycleEnds, RetryFails

-----------------------------------------------------------------------------
(* A flush that raises, and the slot.                                      *)

LEMMA FatesStay ==
  ASSUME PiFates, UNCHANGED <<fileState, vec, nextFile, pipeDisposed>>, main' \in {main, "thrown"}
  PROVE  PiFates'
  BY DEF PiFates, Unresolved, InFile

(* A batch but k stays, and so does what it has still to resolve. *)
LEMMA TodoStays ==
  ASSUME PiTodo, NEW k \in DOMAIN batches, DOMAIN batches' = DOMAIN batches,
         \A j \in DOMAIN batches : j # k => batches'[j] = batches[j],
         batches'[k].phase = "done",
         UNCHANGED <<vec, fileState, pipeDisposed>>
  PROVE  PiTodo'
  <1>1. \A j \in DOMAIN batches : j # k /\ batches[j].phase # "done" => Ahead(batches[j])'
    BY DEF PiTodo, Ahead, Redone
  <1> QED
    BY <1>1 DEF PiTodo

LEMMA DisposedKeeps ==
  ASSUME PiInv, NEW k \in DOMAIN batches, DisposedRaises(k)
  PROVE  PiInv'
  <1> USE DEF PiInv
  <1>1. /\ PiTypes /\ "done" \in Phases /\ SetPhase(k, "done")
        /\ batches[k].phase \in OnGpu \ {"acquire"}
    BY DEF DisposedRaises, Phases, OnGpu, Embedding
  <1>2. /\ batches' \in Seq(Batches) /\ Len(batches') = Len(batches)
        /\ DOMAIN batches' = DOMAIN batches
        /\ \A j \in DOMAIN batches : j # k => batches'[j] = batches[j]
        /\ batches'[k] \in Batches /\ batches'[k].phase = "done"
        /\ batches'[k].solo = batches[k].solo /\ batches'[k].chunks = batches[k].chunks
    BY <1>1, PhaseSet
  <1>3. /\ OnlyBatches /\ main' \in {main, "thrown"} /\ batches[k].phase # "done"
        /\ UNCHANGED <<pipeMode, nextFile, pushed, buffer, awaited, fileState, vec, slotsInUse,
                       chain, pipeDisposed>>
    BY <1>1 DEF OnlyBatches, DisposedRaises, Raise, OnGpu, loopVars
  <1>4. PiMain' /\ main \notin {"idle", "gate", "done"}
    BY <1>2, <1>3, MainStays
  <1>5. Broken'
    BY <1>4 DEF DisposedRaises, Raise, Running, Broken, PiTypes
  <1>6. SameChunks
    BY <1>2 DEF SameChunks
  <1>7. PiPlaces'
    BY <1>3, <1>6, PlacesStay
  <1>8. PiAhead'
    <2>1. PendingOf(batches') \subseteq PendingOf(batches)
      BY <1>2 DEF PendingOf, Pending, OnGpu
    <2> QED
      BY <1>2, <1>3, <2>1, AheadShrinks
  <1>9. PiSlots'
    <2>1. Persisting(batches') = Persisting(batches)
      BY <1>1, <1>2 DEF Persisting, OnGpu
    <2> QED
      BY <1>3, <2>1 DEF PiSlots
  <1>10. PiTypes'
    <2>1. main' \in {"idle", "loop", "thrown"} \cup InFile \cup Draining
      BY <1>3 DEF PiTypes
    <2>2. persistFatal' \in BOOLEAN
      BY DEF DisposedRaises, Raise, PiTypes
    <2>3. \A j \in DOMAIN batches' : WellFormed(batches'[j])
      BY <1>2 DEF WellFormed, PiTypes
    <2> QED
      BY <1>2, <1>3, <2>1, <2>2, <2>3 DEF PiTypes
  <1>11. PiTodo'
    BY <1>2, <1>3, TodoStays
  <1>12. PiFates'
    BY <1>3, FatesStay
  <1> QED
    BY <1>4, <1>5, <1>7, <1>8, <1>9, <1>10, <1>11, <1>12 DEF PiKept

LEMMA AcquireKeeps ==
  ASSUME PiInv, NEW k \in DOMAIN batches, Acquire(k)
  PROVE  PiInv'
  <1> USE DEF PiInv
  <1>1. PiTypes /\ "persist" \in Phases /\ SetPhase(k, "persist") /\ batches[k].phase = "acquire"
    BY DEF Acquire, Phases
  <1>2. /\ batches' \in Seq(Batches) /\ Len(batches') = Len(batches)
        /\ DOMAIN batches' = DOMAIN batches
        /\ \A j \in DOMAIN batches : j # k => batches'[j] = batches[j]
        /\ batches'[k] \in Batches /\ batches'[k].phase = "persist"
        /\ batches'[k].solo = batches[k].solo /\ batches'[k].chunks = batches[k].chunks
        /\ batches'[k].out = batches[k].out
    BY <1>1, PhaseSet
  <1>3. /\ OnlyBatches /\ main' \in {main, "thrown"} /\ batches[k].phase # "done"
        /\ UNCHANGED <<pipeMode, main, nextFile, pushed, buffer, awaited, fileState, vec,
                       persistFatal, pipeDisposed>>
    BY <1>1 DEF OnlyBatches, Acquire, loopVars
  <1>4. PiMain' /\ main \notin {"idle", "gate", "done"}
    BY <1>2, <1>3, MainStays
  <1>5. SameChunks
    BY <1>2 DEF SameChunks
  <1>6. PiPlaces'
    BY <1>3, <1>5, PlacesStay
  <1>7. PiAhead'
    <2>1. PendingOf(batches') \subseteq PendingOf(batches)
      BY <1>1, <1>2 DEF PendingOf, Pending, OnGpu
    <2> QED
      BY <1>2, <1>3, <2>1, AheadShrinks
  <1>8. PiSlots' /\ slotsInUse' \in Nat /\ chain' \in Seq(Nat)
    <2>1. Persisting(batches') = Persisting(batches) \cup {k} /\ k \notin Persisting(batches)
      BY <1>1, <1>2 DEF Persisting
    <2>2. Cardinality(Persisting(batches')) = Cardinality(Persisting(batches)) + 1
      BY <2>1, PendingCounted, FS_AddElement DEF PiTypes
    <2>3. slotsInUse \in Nat /\ slotsInUse' = slotsInUse + 1 /\ slotsInUse < InflightMax
          /\ InflightMax \in Nat
      BY Nats DEF Acquire, PiTypes
    <2>4. slotsInUse' = Cardinality(Persisting(batches')) /\ slotsInUse' <= InflightMax
      BY <2>2, <2>3 DEF PiSlots
    <2>5. k \in Nat /\ chain \in Seq(Nat)
      BY BatchTyped DEF PiTypes
    <2>6. chain' \in Seq(Nat) /\ (pipeMode = "incremental" => Len(chain') = Len(chain) + 1)
      BY <2>5, AppendProperties DEF Acquire
    <2> QED
      BY <1>3, <2>3, <2>4, <2>6 DEF PiSlots
  <1>9. PiTypes'
    <2>1. \A j \in DOMAIN batches' : WellFormed(batches'[j])
      BY <1>2 DEF WellFormed, PiTypes
    <2> QED
      BY <1>2, <1>3, <1>8, <2>1 DEF PiTypes
  <1>10. PiTodo'
    <2> SUFFICES ASSUME NEW j \in DOMAIN batches, batches'[j].phase # "done"
                 PROVE  Ahead(batches[j])'
      BY <1>2 DEF PiTodo
    <2>1. Ahead(batches[j])
      BY <1>2, <1>3 DEF PiTodo
    <2>2. CASE j # k
      BY <1>2, <1>3, <2>1, <2>2 DEF Ahead, Redone
    <2>3. CASE j = k
      BY <1>1, <1>2, <1>3, <2>1, <2>3 DEF Ahead, Redone
    <2> QED
      BY <2>2, <2>3
  <1>11. PiKept'
    <2> SUFFICES ASSUME ~Broken'  PROVE (Kept /\ Resolved)'
      BY DEF PiKept
    <2>1. Kept /\ Resolved
      BY <1>3 DEF PiKept, Broken
    <2>2. Kept'
      BY <1>3, <1>5, <2>1, SameParts DEF Kept
    <2>3. Resolved'
      BY <1>1, <1>2, <1>3, <1>5, <2>1 DEF Resolved, SameChunks
    <2> QED
      BY <2>2, <2>3
  <1>12. PiFates'
    BY <1>3, FatesStay
  <1> QED
    BY <1>4, <1>6, <1>7, <1>8, <1>9, <1>10, <1>11, <1>12

LEMMA SlotReleased ==
  ASSUME PiTypes, PiSlots, NEW k \in DOMAIN batches, batches[k].phase = "persist",
         batches' \in Seq(Batches), Len(batches') = Len(batches),
         DOMAIN batches' = DOMAIN batches,
         \A j \in DOMAIN batches : j # k => batches'[j] = batches[j],
         batches'[k].phase # "persist", Release(k), UNCHANGED pipeMode
  PROVE  PiSlots' /\ slotsInUse' \in Nat /\ chain' \in Seq(Nat)
  <1>1. Persisting(batches') = Persisting(batches) \ {k} /\ k \in Persisting(batches)
    BY DEF Persisting
  <1>2. Cardinality(Persisting(batches')) = Cardinality(Persisting(batches)) - 1
    <2>1. IsFiniteSet(Persisting(batches))
      BY PendingCounted DEF PiTypes
    <2>2. Cardinality(Persisting(batches) \ {k}) = Cardinality(Persisting(batches)) - 1
      BY <1>1, <2>1, FS_RemoveElement
    <2> QED
      BY <1>1, <2>2
  <1>3. Cardinality(Persisting(batches)) \in Nat \ {0}
    BY <1>1, PendingCounted DEF PiTypes
  <1>4. slotsInUse' = Cardinality(Persisting(batches')) /\ slotsInUse' \in Nat
    BY <1>2, <1>3 DEF PiSlots, Release
  <1>5. slotsInUse' <= InflightMax
    BY <1>2, <1>3, <1>4, Nats DEF PiSlots
  <1>6. CASE pipeMode = "incremental"
    <2>1. chain \in Seq(Nat) /\ chain # <<>> /\ Len(chain) = slotsInUse
      BY <1>3, <1>6, EmptySeq DEF PiSlots, PiTypes
    <2>2. chain' \in Seq(Nat) /\ Len(chain') = Len(chain) - 1
      BY <1>6, <2>1, HeadTailProperties DEF Release
    <2> QED
      BY <1>4, <1>5, <2>1, <2>2 DEF PiSlots, Release
  <1>7. CASE pipeMode # "incremental"
    BY <1>4, <1>5, <1>7 DEF PiSlots, Release, PiTypes
  <1> QED
    BY <1>6, <1>7

-----------------------------------------------------------------------------
(* The writes.                                                             *)

(* The chunk the writes have come to is one of the batch: the next solo    *)
(* chunk, or the first that is unresolved.                                 *)
LEMMA TargetIs ==
  ASSUME PiInv, NEW k \in DOMAIN batches, batches[k].phase = "persist"
  PROVE  \E i \in DOMAIN batches[k].chunks :
           /\ Target(batches[k]) = batches[k].chunks[i]
           /\ batches[k].solo > 0 => i = batches[k].solo
           /\ batches[k].solo = 0 =>
                /\ vec[batches[k].chunks[i]] = "none"
                /\ \A j \in 1..(i - 1) : vec[batches[k].chunks[j]] # "none"
  <1> DEFINE b == batches[k]
             ch == b.chunks
  <1>1. /\ ch \in Seq(PassChunks) /\ Len(ch) \in Nat \ {0} /\ DOMAIN ch = 1..Len(ch)
        /\ b.solo \in 0..Len(ch)
    BY BatchTyped DEF PiInv, PiTypes, WellFormed, Batches
  <1>2. CASE b.solo > 0
    BY <1>1, <1>2 DEF Target
  <1>3. CASE b.solo = 0
    <2>1. vec[ch[Len(ch)]] = "none"
      BY <1>3 DEF PiInv, PiTodo, Ahead, Last
    <2> DEFINE T == {i \in 1..Len(ch) : vec[ch[i]] = "none"}
    <2>2. T \in SUBSET Nat /\ T # {}
      BY <1>1, <2>1
    <2>3. PICK i \in T : \A j \in T : i <= j
      BY <2>2, LeastIndex
    <2>4. \E n \in DOMAIN ch : vec[ch[n]] = "none" /\ \A j \in 1..(n - 1) : vec[ch[j]] # "none"
      <3>1. i \in DOMAIN ch /\ vec[ch[i]] = "none"
        BY <1>1
      <3>2. \A j \in 1..(i - 1) : vec[ch[j]] # "none"
        <4> SUFFICES ASSUME NEW j \in 1..(i - 1), vec[ch[j]] = "none"  PROVE FALSE
          OBVIOUS
        <4>1. j \in T /\ j < i
          BY <1>1
        <4>2. i <= j /\ i \in Nat /\ j \in Nat
          BY <2>3, <4>1
        <4> QED
          BY <4>1, <4>2
      <3> QED
        BY <3>1, <3>2
    <2> DEFINE n == CHOOSE i_1 \in DOMAIN ch :
                      vec[ch[i_1]] = "none" /\ \A j \in 1..(i_1 - 1) : vec[ch[j]] # "none"
    <2>5. n \in DOMAIN ch /\ vec[ch[n]] = "none" /\ \A j \in 1..(n - 1) : vec[ch[j]] # "none"
      BY <2>4
    <2>6. Target(b) = ch[n]
      BY <1>3 DEF Target
    <2> HIDE DEF n
    <2> QED
      BY <1>3, <2>5, <2>6
  <1> QED
    BY <1>1, <1>2, <1>3

(* What resolving the target of batch k does to the chunks, with vector o. *)
Resolving(k, i, v) ==
  /\ batches[k].phase = "persist" /\ i \in DOMAIN batches[k].chunks
  /\ Target(batches[k]) = batches[k].chunks[i]
  /\ batches[k].solo > 0 => i = batches[k].solo
  /\ batches[k].solo = 0 =>
       /\ vec[batches[k].chunks[i]] = "none"
       /\ \A j \in 1..(i - 1) : vec[batches[k].chunks[j]] # "none"
  /\ v = [vec EXCEPT ![batches[k].chunks[i]] = batches[k].out]

LEMMA ResolvingIs ==
  ASSUME PiInv, NEW k \in DOMAIN batches, NEW i, NEW v, Resolving(k, i, v)
  PROVE  LET c == batches[k].chunks[i] IN
         /\ i \in Nat \ {0} /\ i <= Len(batches[k].chunks)
         /\ c \in PassChunks /\ Has(batches[k], c) /\ Dispatched(c) /\ Pushed(c)
         /\ v \in [PassChunks -> {"none", "ok", "null"}]
         /\ v[c] = batches[k].out /\ v[c] \in {"ok", "null"}
         /\ \A d \in PassChunks : d # c => v[d] = vec[d]
         /\ fileState[c[1]] \notin Settled
         /\ c = Last(batches[k].chunks) <=> i = Len(batches[k].chunks)
         /\ vec[c] = "none" \/ pipeDisposed
  <1> DEFINE b == batches[k]
             c == b.chunks[i]
  <1>1. /\ b \in Batches /\ b.chunks \in Seq(PassChunks) /\ b.out \in {"ok", "null"}
        /\ DOMAIN b.chunks = 1..Len(b.chunks) /\ Len(b.chunks) \in Nat \ {0}
        /\ b.solo \in Nat
    BY BatchTyped DEF PiInv, PiTypes, Batches, WellFormed
  <1>2. i \in 1..Len(b.chunks) /\ c \in PassChunks
    BY <1>1, ElementOfSeq DEF Resolving
  <1>3. Has(b, c) /\ Dispatched(c) /\ Pushed(c)
    BY <1>1, <1>2 DEF Has, Occurs, Dispatched, PiInv, PiPlaces
  <1>4. vec[c] = "none" \/ (Redone(b) /\ fileState[c[1]] \notin Settled)
    <2>1. Ahead(b)
      BY DEF PiInv, PiTodo, Resolving
    <2>2. CASE b.solo = 0
      BY <2>2 DEF Resolving
    <2>3. CASE b.solo # 0
      <3>1. b.solo > 0 /\ i = b.solo /\ i \in DOMAIN b.chunks
        BY <1>1, <2>3 DEF Resolving
      <3>2. i >= b.solo
        BY <1>1, <3>1
      <3> QED
        BY <2>1, <2>3, <3>1, <3>2 DEF Ahead
    <2> QED
      BY <2>2, <2>3
  <1>5. fileState[c[1]] \notin Settled
    <2>1. CASE vec[c] = "none"
      <3>1. c[1] \in PassFiles /\ c \in Unresolved(vec, c[1])
        BY <1>2, <2>1, ChunkIsPair DEF Unresolved
      <3> QED
        BY <3>1 DEF PiInv, PiFates
    <2> QED
      BY <1>4, <2>1
  <1>6. c = Last(b.chunks) <=> i = Len(b.chunks)
    <2>1. Injective(b.chunks)
      BY DEF PiInv, PiPlaces
    <2> QED
      BY <1>1, <1>2, <2>1 DEF Injective, Last
  <1>7. /\ v \in [PassChunks -> {"none", "ok", "null"}]
        /\ v[c] = b.out /\ \A d \in PassChunks : d # c => v[d] = vec[d]
    BY <1>1, <1>2 DEF Resolving, PiInv, PiTypes
  <1> QED
    BY <1>1, <1>2, <1>3, <1>4, <1>5, <1>6, <1>7 DEF Redone

(* The other batches still have to resolve what they had to. *)
LEMMA TodoOfOthers ==
  ASSUME PiInv, NEW k \in DOMAIN batches, NEW i, Resolving(k, i, vec'),
         NEW j \in DOMAIN batches, j # k, batches'[j] = batches[j], batches[j].phase # "done",
         UNCHANGED pipeDisposed, pipeDisposed => UNCHANGED fileState
  PROVE  Ahead(batches[j])'
  <1> DEFINE c == batches[k].chunks[i]
             b == batches[j]
  <1>1. c \in PassChunks /\ Has(batches[k], c) /\ \A d \in PassChunks : d # c => vec'[d] = vec[d]
    BY ResolvingIs
  <1>2. \A n \in DOMAIN b.chunks : b.chunks[n] # c
    BY <1>1 DEF PiInv, PiPlaces, Has, Occurs
  <1>3. /\ b.chunks \in Seq(PassChunks) /\ DOMAIN b.chunks = 1..Len(b.chunks)
        /\ Len(b.chunks) \in Nat \ {0}
    BY BatchTyped DEF PiInv, PiTypes, Batches, WellFormed
  <1>4. \A n \in DOMAIN b.chunks : vec'[b.chunks[n]] = vec[b.chunks[n]]
    BY <1>1, <1>2, <1>3
  <1>5. vec'[Last(b.chunks)] = vec[Last(b.chunks)]
    BY <1>3, <1>4 DEF Last
  <1>6. Ahead(b)
    BY DEF PiInv, PiTodo
  <1> HIDE DEF c
  <1>7. CASE b.solo = 0
    BY <1>4, <1>5, <1>6, <1>7 DEF Ahead
  <1>8. CASE b.solo # 0
    <2> SUFFICES ASSUME NEW n \in DOMAIN b.chunks, n >= b.solo
                 PROVE  \/ vec'[b.chunks[n]] = "none"
                        \/ n = b.solo /\ Redone(b)' /\ fileState'[b.chunks[n][1]] \notin Settled
      BY <1>8 DEF Ahead
    <2> QED
      BY <1>4, <1>6, <1>8 DEF Ahead, Redone
  <1> QED
    BY <1>7, <1>8

(* The fate of a file, as PiFates has it. *)
Fate(f) ==
  /\ fileState[f] = "committed" => \A c \in PassChunks : c[1] = f => vec[c] = "ok"
  /\ fileState[f] \in {"quarantined", "unwound", "kept"} =>
       \E c \in PassChunks : c[1] = f /\ vec[c] = "null"
  /\ fileState[f] \in Settled => Unresolved(vec, f) = {}
  /\ fileState[f] = "open" /\ ~pipeDisposed => Unresolved(vec, f) # {}
  /\ fileState[f] = "open" => f <= nextFile
  /\ fileState[f] = "open" /\ f = nextFile => main \in InFile \cup {"thrown"}
  /\ f > nextFile \/ (f = nextFile /\ main \in {"idle", "loop"}) => fileState[f] = "waiting"

LEMMA FatesAre == PiFates <=> \A f \in PassFiles : Fate(f)
  BY DEF PiFates, Fate

LEMMA FateOfOthers ==
  ASSUME PiInv, NEW k \in DOMAIN batches, NEW i, Resolving(k, i, vec'),
         NEW f \in PassFiles, f # batches[k].chunks[i][1], fileState'[f] = fileState[f],
         UNCHANGED <<nextFile, pipeDisposed>>, main' \in {main, "thrown"}
  PROVE  Fate(f)'
  <1> DEFINE c == batches[k].chunks[i]
  <1>1. \A d \in PassChunks : d # c => vec'[d] = vec[d]
    BY ResolvingIs
  <1>2. \A d \in PassChunks : d[1] = f => vec'[d] = vec[d]
    BY <1>1
  <1>3. Unresolved(vec', f) = Unresolved(vec, f)
    BY <1>2 DEF Unresolved
  <1>4. Fate(f)
    BY FatesAre DEF PiInv
  <1> HIDE DEF c
  <1> QED
    BY <1>2, <1>3, <1>4 DEF Fate, InFile

(* The file of the chunk is not settled before, and what the writes make of *)
(* it fits its chunks.                                                      *)
LEMMA FateOfTarget ==
  ASSUME PiInv, NEW k \in DOMAIN batches, NEW i, Resolving(k, i, vec'),
         UNCHANGED <<nextFile, pushed, pipeDisposed>>, main' \in {main, "thrown"},
         NEW f, f = batches[k].chunks[i][1],
         \/ /\ fileState'[f] = fileState[f]
            /\ Unresolved(vec', f) # {} \/ pipeDisposed
         \/ /\ Unresolved(vec', f) = {}
            /\ fileState'[f] = "failed" \/
               fileState'[f] = (IF \E d \in PassChunks : d[1] = f /\ vec'[d] = "null"
                                THEN "quarantined" ELSE "committed")
  PROVE  Fate(f)'
  <1> DEFINE c == batches[k].chunks[i]
  <1>1. /\ c \in PassChunks /\ Pushed(c) /\ fileState[f] \notin Settled
        /\ vec' \in [PassChunks -> {"none", "ok", "null"}]
    BY ResolvingIs
  <1>2. f \in PassFiles /\ f \in Nat /\ c[2] \in Nat \ {0} /\ nextFile \in Nat /\ pushed \in Nat
    <2>1. c[1] \in PassFiles /\ c[2] \in 1..ChunksPer
      BY <1>1, ChunkIsPair
    <2>2. nextFile \in 1..(PFiles + 1) /\ pushed \in 0..ChunksPer
      BY DEF PiInv, PiTypes
    <2> QED
      BY <2>1, <2>2, Nats DEF PassFiles
  <1>3. f <= nextFile /\ (f = nextFile => pushed # 0)
    BY <1>1, <1>2 DEF Pushed
  <1>4. ~(f > nextFile) /\ ~(f = nextFile /\ main \in {"idle", "loop"})
    BY <1>2, <1>3 DEF PiInv, PiMain
  <1>5. Fate(f)
    BY <1>2, FatesAre DEF PiInv
  <1> HIDE DEF c
  <1>6. CASE /\ fileState'[f] = fileState[f]
             /\ Unresolved(vec', f) # {} \/ pipeDisposed
    BY <1>1, <1>4, <1>5, <1>6 DEF Fate, Settled, InFile
  <1>7. CASE /\ Unresolved(vec', f) = {}
             /\ fileState'[f] = "failed" \/
                fileState'[f] = (IF \E d \in PassChunks : d[1] = f /\ vec'[d] = "null"
                                 THEN "quarantined" ELSE "committed")
    <2>1. ~(f > nextFile') /\ ~(f = nextFile' /\ main' \in {"idle", "loop"})
      BY <1>4
    <2>2. CASE fileState'[f] = "failed"
      BY <1>7, <2>1, <2>2 DEF Fate, Settled
    <2>3. CASE \E d \in PassChunks : d[1] = f /\ vec'[d] = "null"
      BY <1>7, <2>1, <2>2, <2>3 DEF Fate, Settled
    <2>4. CASE fileState'[f] # "failed" /\ ~\E d \in PassChunks : d[1] = f /\ vec'[d] = "null"
      <3>1. fileState'[f] = "committed"
        BY <1>7, <2>4
      <3>2. \A d \in PassChunks : d[1] = f => vec'[d] = "ok"
        BY <1>1, <1>7, <2>4 DEF Unresolved
      <3> QED
        BY <1>7, <2>1, <3>1, <3>2 DEF Fate
    <2> QED
      BY <2>2, <2>3, <2>4
  <1> QED
    BY <1>6, <1>7

(* What the writes of one chunk keep, whatever becomes of the batch. *)
LEMMA WritesKeep ==
  ASSUME PiInv, NEW k \in DOMAIN batches, NEW i, Resolving(k, i, vec'),
         batches' \in Seq(Batches), Len(batches') = Len(batches),
         \A j \in DOMAIN batches : j # k => batches'[j] = batches[j],
         batches'[k].chunks = batches[k].chunks, batches'[k].solo <= Len(batches[k].chunks),
         batches[k].solo = 0 => batches'[k].phase \in {"done", "persist"} /\ batches'[k].solo = 0,
         OnlyBatches, main' \in {main, "thrown"}
  PROVE  /\ PiMain' /\ PiPlaces' /\ PiAhead'
         /\ DOMAIN batches' = DOMAIN batches /\ SameChunks
         /\ \A j \in DOMAIN batches' : WellFormed(batches'[j])
  <1> USE DEF PiInv
  <1>1. DOMAIN batches' = DOMAIN batches /\ SameChunks
    BY DEF PiTypes, SameChunks
  <1>2. batches[k].phase = "persist"
    BY DEF Resolving
  <1>3. PiMain'
    BY <1>2, MainStays
  <1>4. PiPlaces'
    <2>1. \A d \in PassChunks : vec'[d] # "none" => vec[d] # "none" \/ Dispatched(d)
      BY ResolvingIs
    <2> QED
      BY <1>1, <2>1, PlacesStay
  <1>5. PiAhead'
    <2>1. batches[k].solo \in Nat
      BY BatchTyped DEF PiTypes, Batches
    <2>2. PendingOf(batches') \subseteq PendingOf(batches)
      <3> SUFFICES ASSUME NEW j \in DOMAIN batches, Pending(batches'[j])
                   PROVE  Pending(batches[j])
        BY <1>1 DEF PendingOf
      <3>1. CASE j # k
        BY <3>1
      <3>2. CASE j = k /\ batches[k].solo > 0
        BY <1>2, <3>2 DEF Pending
      <3>3. CASE j = k /\ batches[k].solo = 0
        BY <3>3 DEF Pending, OnGpu
      <3> QED
        BY <2>1, <3>1, <3>2, <3>3
    <2> QED
      BY <2>2, AheadShrinks
  <1>6. \A j \in DOMAIN batches' : WellFormed(batches'[j])
    BY <1>1 DEF WellFormed, PiTypes
  <1> QED
    BY <1>1, <1>3, <1>4, <1>5, <1>6

(* The chunk a batch stands at is resolved, and the batch stays, goes on to *)
(* the next solo chunk, or is done.                                         *)
LEMMA NextIs ==
  ASSUME PiInv, NEW k \in DOMAIN batches, NEW i, NEW v, Resolving(k, i, v),
         NEW b, b = batches[k], NEW d, d = NextOf(b, b.chunks[i])
  PROVE  /\ d \in Batches /\ d.chunks = b.chunks /\ d.out = b.out /\ d.inline = b.inline
         /\ \/ /\ b.solo = 0 /\ i # Len(b.chunks) /\ d = b
               /\ b.chunks[i] # Last(b.chunks)
            \/ /\ b.solo = 0 /\ i = Len(b.chunks) /\ d.phase = "done" /\ d.solo = 0
               /\ b.chunks[i] = Last(b.chunks)
            \/ /\ b.solo > 0 /\ i = b.solo /\ i = Len(b.chunks)
               /\ d.phase = "done" /\ d.solo = b.solo
            \/ /\ b.solo > 0 /\ i = b.solo /\ i < Len(b.chunks)
               /\ d.phase = "embed" /\ d.solo = i + 1
  <1>1. b \in Batches /\ b.solo \in Nat /\ Len(b.chunks) \in Nat /\ {"done", "embed"} \subseteq Phases
    BY BatchTyped DEF PiInv, PiTypes, Batches, Phases, OnGpu
  <1>2. /\ i \in Nat \ {0} /\ i <= Len(b.chunks)
        /\ b.chunks[i] = Last(b.chunks) <=> i = Len(b.chunks)
    BY ResolvingIs
  <1>3. b.solo > 0 => i = b.solo
    BY DEF Resolving
  <1>4. CASE b.solo = 0 /\ i # Len(b.chunks)
    BY <1>1, <1>2, <1>4 DEF NextOf
  <1>5. CASE b.solo = 0 /\ i = Len(b.chunks)
    <2>1. d = [b EXCEPT !.phase = "done"]
      BY <1>2, <1>5 DEF NextOf
    <2> QED
      BY <1>1, <1>2, <1>5, <2>1 DEF Batches
  <1>6. CASE b.solo # 0 /\ i = Len(b.chunks)
    <2>1. b.solo > 0 /\ i = b.solo
      BY <1>1, <1>3, <1>6
    <2>2. d = [b EXCEPT !.phase = "done"]
      BY <1>6, <2>1 DEF NextOf
    <2> QED
      BY <1>1, <1>6, <2>1, <2>2 DEF Batches
  <1>7. CASE b.solo # 0 /\ i # Len(b.chunks)
    <2>1. b.solo > 0 /\ i = b.solo /\ i < Len(b.chunks)
      BY <1>1, <1>2, <1>3, <1>7
    <2>2. d = [b EXCEPT !.phase = "embed", !.solo = b.solo + 1]
      BY <1>1, <1>7, <2>1 DEF NextOf, Batches
    <2>3. b.solo + 1 \in Nat
      BY <1>1
    <2> DEFINE n == b.solo + 1
    <2>4. n \in Nat /\ d = [b EXCEPT !.phase = "embed", !.solo = n] /\ n = i + 1
      BY <2>1, <2>2, <2>3
    <2> HIDE DEF n
    <2>5. /\ d \in Batches /\ d.chunks = b.chunks /\ d.out = b.out /\ d.inline = b.inline
          /\ d.phase = "embed" /\ d.solo = n
      BY <1>1, <2>4 DEF Batches
    <2> QED
      BY <2>1, <2>4, <2>5
  <1> QED
    BY <1>4, <1>5, <1>6, <1>7

LEMMA ResolveKeeps ==
  ASSUME PiInv, NEW k \in DOMAIN batches, ResolveChunk(k)
  PROVE  PiInv'
  <1> USE DEF PiInv
  <1> DEFINE b == batches[k]
  <1>1. b.phase = "persist"
    BY DEF ResolveChunk
  <1>2. PICK i \in DOMAIN b.chunks :
           /\ Target(b) = b.chunks[i]
           /\ b.solo > 0 => i = b.solo
           /\ b.solo = 0 => /\ vec[b.chunks[i]] = "none"
                            /\ \A j \in 1..(i - 1) : vec[b.chunks[j]] # "none"
    BY <1>1, TargetIs
  <1> DEFINE c == b.chunks[i]
             d == NextOf(b, c)
             f == c[1]
  <1>3. /\ Resolving(k, i, vec')
        /\ batches' = [batches EXCEPT ![k] = NextOf(b, c)]
        /\ ~(Unresolved(vec', f) = {} /\ pipeDisposed)
        /\ IF b.solo > 0 \/ c = Last(b.chunks) THEN Release(k) ELSE UNCHANGED <<slotsInUse, chain>>
    BY <1>1, <1>2 DEF ResolveChunk, Resolving
  <1>4. /\ d \in Batches /\ d.chunks = b.chunks /\ d.out = b.out /\ d.inline = b.inline
        /\ \/ /\ b.solo = 0 /\ i # Len(b.chunks) /\ d = b
              /\ c # Last(b.chunks)
           \/ /\ b.solo = 0 /\ i = Len(b.chunks) /\ d.phase = "done" /\ d.solo = 0
              /\ c = Last(b.chunks)
           \/ /\ b.solo > 0 /\ i = b.solo /\ i = Len(b.chunks)
              /\ d.phase = "done" /\ d.solo = b.solo
           \/ /\ b.solo > 0 /\ i = b.solo /\ i < Len(b.chunks)
              /\ d.phase = "embed" /\ d.solo = i + 1
    BY <1>3, NextIs
  <1>5. /\ batches' \in Seq(Batches) /\ Len(batches') = Len(batches)
        /\ DOMAIN batches' = DOMAIN batches
        /\ batches'[k] = d
        /\ \A j \in DOMAIN batches : j # k => batches'[j] = batches[j]
    BY <1>3, <1>4, BatchSet DEF PiTypes
  <1>6. /\ c \in PassChunks /\ f \in PassFiles /\ i \in Nat \ {0} /\ i <= Len(b.chunks)
        /\ vec' \in [PassChunks -> {"none", "ok", "null"}]
        /\ vec'[c] # "none" /\ \A e \in PassChunks : e # c => vec'[e] = vec[e]
        /\ fileState[f] \notin Settled
    BY <1>3, ResolvingIs, ChunkIsPair
  <1>7. /\ OnlyBatches /\ main' = main
        /\ UNCHANGED <<pipeMode, nextFile, pushed, buffer, awaited, persistFatal, pipeDisposed>>
    BY DEF ResolveChunk, OnlyBatches, loopVars
  <1>8. \/ /\ fileState' = fileState /\ Unresolved(vec', f) # {}
        \/ /\ Unresolved(vec', f) = {} /\ ~pipeDisposed
           /\ \E s \in {"failed", "quarantined", "committed"} :
                /\ fileState' = [fileState EXCEPT ![f] = s]
                /\ s = "failed" \/
                   s = (IF \E e \in PassChunks : e[1] = f /\ vec'[e] = "null"
                        THEN "quarantined" ELSE "committed")
    <2>1. vec' = [vec EXCEPT ![c] = b.out]
      BY <1>3 DEF Resolving
    <2>2. CASE Unresolved(vec', f) = {}
      <3>1. \E s \in {"written", "failed"} :
               fileState' = [fileState EXCEPT ![f] =
                    IF s = "failed" THEN "failed"
                    ELSE IF \E e \in PassChunks : e[1] = f /\ vec'[e] = "null" THEN "quarantined"
                    ELSE "committed"]
        BY <1>2, <2>1, <2>2 DEF ResolveChunk
      <3> QED
        BY <1>3, <2>2, <3>1
    <2>3. CASE Unresolved(vec', f) # {}
      BY <1>2, <2>1, <2>3 DEF ResolveChunk
    <2> QED
      BY <2>2, <2>3
  <1> HIDE DEF d, c, f
  <1>9. /\ PiMain' /\ PiPlaces' /\ PiAhead' /\ SameChunks
        /\ \A j \in DOMAIN batches' : WellFormed(batches'[j])
    <2>1. /\ batches'[k].chunks = b.chunks /\ batches'[k].solo <= Len(b.chunks)
          /\ b.solo = 0 => batches'[k].phase \in {"done", "persist"} /\ batches'[k].solo = 0
      <3>1. b.solo \in Nat /\ Len(b.chunks) \in Nat /\ b.solo <= Len(b.chunks)
        BY BatchTyped DEF PiTypes, Batches, WellFormed
      <3> QED
        BY <1>1, <1>4, <1>5, <1>6, <3>1
    <2> QED
      BY <1>3, <1>5, <1>7, <2>1, WritesKeep
  <1>10. PiSlots' /\ slotsInUse' \in Nat /\ chain' \in Seq(Nat)
    <2>1. CASE d = b /\ b.solo = 0 /\ c # Last(b.chunks)
      <3>1. UNCHANGED <<slotsInUse, chain>>
        BY <1>3, <2>1
      <3>2. Persisting(batches') = Persisting(batches)
        BY <1>5, <2>1 DEF Persisting
      <3> QED
        BY <1>7, <3>1, <3>2 DEF PiSlots, PiTypes
    <2>2. CASE d.phase # "persist" /\ (b.solo > 0 \/ c = Last(b.chunks))
      BY <1>1, <1>3, <1>5, <1>7, <2>2, SlotReleased
    <2> QED
      BY <1>4, <2>1, <2>2
  <1>11. fileState' \in [PassFiles -> FileStates]
    BY <1>8, <1>6 DEF PiTypes, FileStates
  <1>12. PiTypes'
    BY <1>5, <1>6, <1>7, <1>9, <1>10, <1>11 DEF PiTypes
  <1>13. PiTodo'
    <2>1. \A j \in DOMAIN batches : j # k /\ batches[j].phase # "done" => Ahead(batches[j])'
      BY <1>3, <1>5, <1>7, <1>8, TodoOfOthers
    <2>2. d.phase # "done" => Ahead(batches[k])'
      <3>1. Ahead(b) /\ Injective(b.chunks) /\ b.solo \in Nat /\ Len(b.chunks) \in Nat \ {0}
            /\ b.chunks \in Seq(PassChunks) /\ DOMAIN b.chunks = 1..Len(b.chunks)
        BY <1>1, BatchTyped DEF PiTodo, PiPlaces, PiTypes, Batches, WellFormed
      <3>2. CASE b.solo = 0 /\ d = b /\ c # Last(b.chunks)
        <4>1. Last(b.chunks) \in PassChunks /\ vec[Last(b.chunks)] = "none"
          BY <3>1, <3>2 DEF Ahead, Last
        <4>2. vec'[Last(b.chunks)] = "none"
          BY <1>6, <3>2, <4>1
        <4> QED
          BY <1>1, <1>5, <3>2, <4>2 DEF Ahead
      <3>3. CASE /\ b.solo > 0 /\ i = b.solo /\ i < Len(b.chunks)
                 /\ d.phase = "embed" /\ d.solo = i + 1
        <4>1. \A n \in DOMAIN b.chunks : n > i => vec[b.chunks[n]] = "none" /\ b.chunks[n] # c
          BY <3>1, <3>3 DEF Ahead, Injective, c
        <4>2. \A n \in DOMAIN b.chunks : n > i => vec'[b.chunks[n]] = "none"
          BY <1>6, <3>1, <4>1
        <4>3. \A n \in DOMAIN b.chunks : n >= i + 1 => n > i
          BY <1>6, <3>1
        <4>4. i + 1 # 0
          BY <1>6
        <4> QED
          BY <1>4, <1>5, <3>3, <4>2, <4>3, <4>4 DEF Ahead
      <3> QED
        BY <1>4, <3>2, <3>3
    <2> QED
      BY <1>5, <2>1, <2>2 DEF PiTodo
  <1>14. PiKept'
    <2> SUFFICES ASSUME ~Broken'  PROVE (Kept /\ Resolved)'
      BY DEF PiKept
    <2>1. Kept /\ Resolved
      BY <1>7 DEF PiKept, Broken
    <2>2. Kept'
      <3>1. \A e \in PassChunks : fileState'[e[1]] = "open" => fileState[e[1]] = "open"
        BY <1>6, <1>8, ChunkIsPair DEF PiTypes
      <3> QED
        BY <1>7, <1>9, <2>1, <3>1, SameParts DEF Kept
    <2>3. \A e \in PassChunks : vec[e] # "none" => vec'[e] # "none"
      BY <1>6
    <2>4. Resolved'
      <3> SUFFICES ASSUME NEW j \in DOMAIN batches, NEW n \in DOMAIN batches[j].chunks,
                          batches'[j].phase = "done" \/ n < batches'[j].solo
                   PROVE  vec'[batches[j].chunks[n]] # "none"
        BY <1>5, <1>9 DEF Resolved, SameChunks
      <3>1. batches[j].chunks[n] \in PassChunks /\ n \in Nat \ {0} /\ n <= Len(batches[j].chunks)
        <4>1. batches[j].chunks \in Seq(PassChunks)
          BY BatchTyped DEF PiTypes, Batches
        <4>2. n \in 1..Len(batches[j].chunks) /\ Len(batches[j].chunks) \in Nat
          BY <4>1, LenProperties
        <4> QED
          BY <4>1, <4>2, ElementOfSeq
      <3>2. CASE j # k
        BY <1>5, <2>1, <2>3, <3>1, <3>2 DEF Resolved
      <3>3. CASE j = k
        <4>1. n = i \/ (n < i /\ b.solo = 0 /\ i = Len(b.chunks)) \/ (n < i /\ i = b.solo)
              \/ (d = b /\ n < b.solo)
          <5>1. d.phase = "done" \/ n < d.solo
            BY <1>5, <3>3
          <5> QED
            BY <1>1, <1>4, <1>6, <3>1, <3>3, <5>1
        <4>2. CASE n = i
          BY <1>6, <3>3, <4>2 DEF c
        <4>3. CASE n < i /\ b.solo = 0
          <5>1. n \in 1..(i - 1)
            BY <1>6, <3>1, <4>3
          <5> QED
            BY <1>2, <2>3, <3>1, <3>3, <4>3, <5>1
        <4>4. CASE n < b.solo
          BY <2>1, <2>3, <3>1, <3>3, <4>4 DEF Resolved
        <4> QED
          BY <4>1, <4>2, <4>3, <4>4
      <3> QED
        BY <3>2, <3>3
    <2> QED
      BY <2>2, <2>4
  <1>15. PiFates'
    <2> SUFFICES ASSUME NEW g \in PassFiles  PROVE Fate(g)'
      BY FatesAre DEF PiFates, Fate
    <2>1. main' \in {main, "thrown"}
      BY <1>7
    <2>2. CASE g # f
      <3>1. fileState'[g] = fileState[g]
        BY <1>6, <1>8, <2>2 DEF PiTypes
      <3> QED
        BY <1>3, <1>7, <2>1, <2>2, <3>1, FateOfOthers DEF f, c
    <2>3. CASE g = f
      <3>1. \/ /\ fileState'[f] = fileState[f]
               /\ Unresolved(vec', f) # {} \/ pipeDisposed
            \/ /\ Unresolved(vec', f) = {}
               /\ fileState'[f] = "failed" \/
                  fileState'[f] = (IF \E e \in PassChunks : e[1] = f /\ vec'[e] = "null"
                                   THEN "quarantined" ELSE "committed")
        BY <1>6, <1>8 DEF PiTypes
      <3>2. f = batches[k].chunks[i][1]
        BY DEF f, c
      <3> QED
        BY <1>3, <1>7, <2>1, <2>3, <3>1, <3>2, FateOfTarget
    <2> QED
      BY <2>2, <2>3
  <1> QED
    BY <1>9, <1>10, <1>12, <1>13, <1>14, <1>15

LEMMA CommitKeeps ==
  ASSUME PiInv, NEW k \in DOMAIN batches, CommitClosed(k)
  PROVE  PiInv'
  <1> USE DEF PiInv
  <1> DEFINE b == batches[k]
  <1>1. b.phase = "persist" /\ pipeDisposed
    BY DEF CommitClosed
  <1>2. PICK i \in DOMAIN b.chunks :
           /\ Target(b) = b.chunks[i]
           /\ b.solo > 0 => i = b.solo
           /\ b.solo = 0 => /\ vec[b.chunks[i]] = "none"
                            /\ \A j \in 1..(i - 1) : vec[b.chunks[j]] # "none"
    BY <1>1, TargetIs
  <1> DEFINE c == b.chunks[i]
             f == c[1]
             redo == b.solo > 0 /\ b.out = "ok"
  <1>3. Resolving(k, i, vec') /\ Release(k) /\ Unresolved(vec', f) = {}
    BY <1>1, <1>2 DEF CommitClosed, Resolving
  <1>4. {"acquire", "done"} \subseteq Phases
    BY DEF Phases, OnGpu
  <1>5. /\ batches' \in Seq(Batches) /\ Len(batches') = Len(batches)
        /\ DOMAIN batches' = DOMAIN batches
        /\ \A j \in DOMAIN batches : j # k => batches'[j] = batches[j]
        /\ batches'[k].solo = b.solo /\ batches'[k].chunks = b.chunks
        /\ \/ redo /\ batches'[k].phase = "acquire" /\ batches'[k].out = "null"
           \/ ~redo /\ batches'[k].phase = "done"
    <2>1. CASE redo
      <3>1. batches' = [batches EXCEPT ![k].phase = "acquire", ![k].out = "null"]
        BY <2>1 DEF CommitClosed
      <3> HIDE DEF redo
      <3> QED
        BY <1>4, <2>1, <3>1, ResultSet
    <2>2. CASE ~redo
      <3>1. SetPhase(k, "done")
        BY <2>2 DEF CommitClosed
      <3> HIDE DEF redo
      <3> QED
        BY <1>4, <2>2, <3>1, PhaseSet
    <2> QED
      BY <2>1, <2>2
  <1>6. /\ OnlyBatches /\ main' \in {main, "thrown"} /\ persistFatal' \in BOOLEAN
        /\ UNCHANGED <<pipeMode, nextFile, pushed, buffer, awaited, fileState, pipeDisposed>>
    BY DEF CommitClosed, OnlyBatches, Raise, loopVars, PiTypes
  <1>7. /\ c \in PassChunks /\ f \in PassFiles /\ i \in Nat \ {0} /\ i <= Len(b.chunks)
        /\ vec' \in [PassChunks -> {"none", "ok", "null"}]
        /\ \A e \in PassChunks : e # c => vec'[e] = vec[e]
        /\ fileState[f] \notin Settled
    BY <1>3, ResolvingIs, ChunkIsPair
  <1>8. /\ b.chunks \in Seq(PassChunks) /\ b.solo \in Nat /\ Len(b.chunks) \in Nat
        /\ b.solo <= Len(b.chunks) /\ DOMAIN b.chunks = 1..Len(b.chunks)
    BY BatchTyped DEF PiTypes, Batches, WellFormed
  <1> HIDE DEF c, f
  <1>9. /\ PiMain' /\ PiPlaces' /\ PiAhead' /\ SameChunks
        /\ \A j \in DOMAIN batches' : WellFormed(batches'[j])
    <2>1. b.solo = 0 => batches'[k].phase \in {"done", "persist"} /\ batches'[k].solo = 0
      BY <1>5
    <2> QED
      BY <1>3, <1>5, <1>6, <1>8, <2>1, WritesKeep
  <1>10. PiSlots' /\ slotsInUse' \in Nat /\ chain' \in Seq(Nat)
    <2>1. batches'[k].phase # "persist"
      BY <1>5
    <2> QED
      BY <1>1, <1>3, <1>5, <1>6, <2>1, SlotReleased
  <1>11. PiTypes'
    <2>1. main' \in {"idle", "loop", "thrown"} \cup InFile \cup Draining
      BY <1>6 DEF PiTypes
    <2> QED
      BY <1>5, <1>6, <1>7, <1>9, <1>10, <2>1 DEF PiTypes
  <1>12. PiTodo'
    <2>1. \A j \in DOMAIN batches : j # k /\ batches[j].phase # "done" => Ahead(batches[j])'
      BY <1>3, <1>5, <1>6, TodoOfOthers
    <2>2. redo => Ahead(batches[k])'
      <3> SUFFICES ASSUME redo  PROVE Ahead(batches[k])'
        OBVIOUS
      <3>1. Ahead(b) /\ Injective(b.chunks) /\ b.solo > 0 /\ i = b.solo
        BY <1>1, <1>2 DEF PiTodo, PiPlaces
      <3>2. \A n \in DOMAIN b.chunks : n >= i /\ n # i =>
               vec[b.chunks[n]] = "none" /\ b.chunks[n] # c
        BY <1>7, <1>8, <3>1 DEF Ahead, Injective, c
      <3>3. \A n \in DOMAIN b.chunks : n >= i /\ n # i => vec'[b.chunks[n]] = "none"
        BY <1>7, <1>8, <3>2
      <3>4. Redone(b)'
        BY <1>1, <1>5, <1>6 DEF Redone
      <3>5. fileState'[b.chunks[i][1]] \notin Settled
        BY <1>6, <1>7 DEF f, c
      <3> QED
        BY <1>5, <1>7, <3>1, <3>3, <3>4, <3>5 DEF Ahead
    <2> QED
      BY <1>5, <2>1, <2>2 DEF PiTodo
  <1>13. PiKept'
    BY <1>1, <1>6 DEF PiKept, Broken
  <1>14. PiFates'
    <2> SUFFICES ASSUME NEW g \in PassFiles  PROVE Fate(g)'
      BY FatesAre DEF PiFates, Fate
    <2>1. CASE g # f
      BY <1>3, <1>6, <2>1, FateOfOthers DEF f, c
    <2>2. CASE g = f
      BY <1>1, <1>3, <1>6, <2>2, FateOfTarget DEF f, c
    <2> QED
      BY <2>1, <2>2
  <1> QED
    BY <1>9, <1>10, <1>11, <1>12, <1>13, <1>14

-----------------------------------------------------------------------------
(* The steps of the loop that only move it.                                *)

LEMMA NoFlush ==
  ASSUME PiTypes
  PROVE  /\ PendingOf(batches) = {} <=> PendingFlushes = 0
         /\ PendingFlushes \in Nat
  BY PendingCounted, FlushesCounted DEF PiTypes

LEMMA MainMoves ==
  ASSUME PiInv, main # "thrown", main' \in {"loop", "thrown"} \cup InFile \cup Draining,
         UNCHANGED <<nextFile, pushed, buffer, fileState, batchVars, pipeDisposed>>,
         pipeMode' = pipeMode \/ (main = "idle" /\ pipeMode' \in {"full", "incremental"}),
         awaited' \in Nat \ {0},
         main' = "loop" => main = "idle",
         main \in InFile => main' \in InFile \cup {"thrown"},
         PiMain', PiAhead'
  PROVE  PiInv'
  <1> USE DEF PiInv
  <1>1. UNCHANGED <<vec, batches, slotsInUse, chain, persistFatal>>
    BY DEF batchVars
  <1>2. PiTypes'
    BY <1>1 DEF PiTypes
  <1>3. PiSlots'
    <2>1. CASE pipeMode' = pipeMode
      BY <1>1, <2>1 DEF PiSlots
    <2>2. CASE main = "idle"
      <3>1. batches = <<>> /\ chain = <<>>
        BY <2>2 DEF PiMain
      <3>2. Persisting(batches) = {} /\ Len(chain) = 0
        BY <3>1, EmptySeq DEF Persisting
      <3>3. slotsInUse = 0
        BY <3>2, FS_EmptySet DEF PiSlots
      <3> QED
        BY <1>1, <3>2, <3>3 DEF PiSlots
    <2> QED
      BY <2>1, <2>2
  <1>4. PiPlaces'
    BY <1>1 DEF PiPlaces, Buffered, Dispatched, Pushed
  <1>5. PiTodo'
    BY <1>1 DEF PiTodo, Ahead, Redone
  <1>6. PiKept'
    BY <1>1 DEF PiKept, Broken, Kept, Resolved, Buffered, Dispatched, Pushed
  <1>7. PiFates'
    <2>1. ASSUME NEW f \in PassFiles, Fate(f)  PROVE Fate(f)'
      BY <1>1, <2>1 DEF Fate, InFile, Draining
    <2> QED
      BY <2>1, FatesAre DEF PiFates, Fate
  <1> QED
    BY <1>2, <1>3, <1>4, <1>5, <1>6, <1>7

LEMMA StartKeeps ==
  ASSUME PiInv, NEW mode \in {"full", "incremental"}, StartPass(mode)
  PROVE  PiInv'
  <1>1. /\ main = "idle" /\ main' = "loop" /\ batches = <<>> /\ batches' = batches
        /\ UNCHANGED <<nextFile, pushed, buffer, awaited, fileState, batchVars, pipeDisposed>>
        /\ pipeMode' = mode /\ awaited \in Nat \ {0} /\ UNCHANGED chain
    BY DEF PiInv, PiMain, PiTypes, StartPass, loopVars, batchVars
  <1>2. PendingOf(batches') = {}
    BY <1>1 DEF PendingOf
  <1>3. PendingFlushes = 0 /\ PendingFlushes' = PendingFlushes
    BY <1>1, <1>2, NoFlush DEF PiInv, PendingFlushes
  <1>4. PiAhead'
    BY <1>1, <1>2, <1>3, Nats DEF PiAhead, PiInv
  <1>5. PiMain'
    BY <1>1 DEF PiMain, PiInv, InFile, Draining
  <1> QED
    BY <1>1, <1>4, <1>5, MainMoves DEF InFile

LEMMA EndsKeeps ==
  ASSUME PiInv, LoopEnds
  PROVE  PiInv'
  <1>1. /\ main = "loop" /\ main' \in {"thrown", "drainFlushes"}
        /\ UNCHANGED <<pipeMode, nextFile, pushed, buffer, awaited, fileState, batchVars,
                       pipeDisposed, batches>>
        /\ awaited \in Nat \ {0}
    BY DEF PiInv, PiTypes, LoopEnds, loopVars, batchVars
  <1>2. PiMain'
    BY <1>1 DEF PiMain, PiInv, InFile, Draining
  <1>3. PiAhead'
    BY <1>1 DEF PiAhead, PiInv, PendingFlushes
  <1> QED
    BY <1>1, <1>2, <1>3, MainMoves DEF InFile, Draining

LEMMA RoomKeeps ==
  ASSUME PiInv, RoomAhead
  PROVE  PiInv'
  <1>1. /\ main = "ahead" /\ main' \in {"await", "push"}
        /\ UNCHANGED <<pipeMode, nextFile, pushed, buffer, awaited, fileState, batchVars,
                       pipeDisposed, batches>>
        /\ awaited \in Nat \ {0} /\ pipeMode = "full"
        /\ batches \in Seq(Batches)
    BY DEF PiInv, PiTypes, PiMain, RoomAhead, loopVars, batchVars
  <1>2. PiMain'
    BY <1>1 DEF PiMain, PiInv, InFile, Draining, RoomAhead
  <1>3. main' = "push" => PendingFlushes < AheadCap
    <2>1. CASE PendingFlushes >= AheadCap /\ awaited <= Len(batches)
      BY <2>1 DEF RoomAhead
    <2>2. CASE ~(PendingFlushes >= AheadCap)
      BY <2>2, NoFlush, Nats DEF PiInv
    <2>3. CASE ~(awaited <= Len(batches))
      <3>1. PendingOf(batches) = {}
        <4> SUFFICES ASSUME NEW k \in PendingOf(batches)  PROVE FALSE
          OBVIOUS
        <4>1. k \in 1..Len(batches) /\ k >= awaited /\ Len(batches) \in Nat
          BY <1>1 DEF PendingOf, PiInv, PiAhead
        <4> QED
          BY <1>1, <2>3, <4>1
      <3> QED
        BY <3>1, NoFlush, Nats DEF PiInv
    <2> QED
      BY <2>1, <2>2, <2>3
  <1>4. PiAhead'
    BY <1>1, <1>3 DEF PiAhead, PiInv, PendingFlushes
  <1> QED
    BY <1>1, <1>2, <1>4, MainMoves DEF InFile, Draining

LEMMA OldestKeeps ==
  ASSUME PiInv, OldestSettles
  PROVE  PiInv'
  <1>1. /\ main = "await" /\ main' = "ahead" /\ awaited' = awaited + 1
        /\ UNCHANGED <<pipeMode, nextFile, pushed, buffer, fileState, batchVars,
                       pipeDisposed, batches>>
        /\ awaited \in Nat \ {0} /\ awaited' \in Nat \ {0} /\ pipeMode = "full"
        /\ ~Pending(batches[awaited]) /\ batches \in Seq(Batches)
    BY DEF PiInv, PiTypes, PiMain, OldestSettles, batchVars
  <1>2. PiMain'
    BY <1>1 DEF PiMain, PiInv, InFile, Draining
  <1>3. \A k \in PendingOf(batches) : k >= awaited + 1
    <2> SUFFICES ASSUME NEW k \in PendingOf(batches)  PROVE k >= awaited + 1
      OBVIOUS
    <2>1. k >= awaited /\ k \in 1..Len(batches) /\ Len(batches) \in Nat /\ k # awaited
      BY <1>1 DEF PendingOf, PiInv, PiAhead
    <2> QED
      BY <1>1, <2>1
  <1>4. awaited + 1 <= Len(batches) + 1
    BY <1>1 DEF PiInv, PiMain
  <1>5. PiAhead'
    BY <1>1, <1>3, <1>4 DEF PiAhead, PiInv, PendingFlushes
  <1> QED
    BY <1>1, <1>2, <1>5, MainMoves DEF InFile, Draining

LEMMA InlineKeeps ==
  ASSUME PiInv, InlineSettles
  PROVE  PiInv'
  <1>1. /\ (main = "inline" /\ main' = "push") \/ (main = "inlineDrain" /\ main' = "drainBuckets")
        /\ UNCHANGED <<pipeMode, nextFile, pushed, buffer, awaited, fileState, batchVars,
                       pipeDisposed, batches>>
        /\ awaited \in Nat \ {0} /\ ~Pending(batches[Len(batches)])
    BY DEF PiInv, PiTypes, InlineSettles, loopVars, batchVars
  <1>2. PiMain'
    BY <1>1 DEF PiMain, PiInv, InFile, Draining
  <1>3. PendingOf(batches) = {}
    BY <1>1 DEF PendingOf, PiInv, PiAhead
  <1>4. PendingFlushes = 0 /\ PendingFlushes' = PendingFlushes
    BY <1>1, <1>3, NoFlush DEF PiInv, PendingFlushes
  <1>5. PiAhead'
    BY <1>1, <1>3, <1>4, Nats DEF PiAhead, PiInv
  <1> QED
    BY <1>1, <1>2, <1>5, MainMoves DEF InFile, Draining

LEMMA DrainKeeps ==
  ASSUME PiInv, DrainFlushes \/ DrainPersist
  PROVE  PiInv'
  <1>1. /\ \/ main = "drainFlushes" /\ PendingFlushes = 0 /\ main' \in {"thrown", "drainBuckets"}
           \/ /\ main = "drainPersist" /\ \A k \in DOMAIN batches : batches[k].phase = "done"
              /\ main' = IF persistFatal THEN "thrown" ELSE "gate"
        /\ UNCHANGED <<pipeMode, nextFile, pushed, buffer, awaited, fileState, batchVars,
                       pipeDisposed, batches, persistFatal>>
        /\ awaited \in Nat \ {0}
    BY DEF PiInv, PiTypes, PiMain, DrainFlushes, DrainPersist, loopVars, batchVars
  <1>2. PiMain'
    BY <1>1 DEF PiMain, PiInv, InFile, Draining
  <1>3. PendingOf(batches) = {}
    BY <1>1, NoFlush DEF PiInv, PiAhead
  <1>4. PendingFlushes = 0 /\ PendingFlushes' = PendingFlushes
    BY <1>1, <1>3, NoFlush DEF PiInv, PendingFlushes
  <1>5. PiAhead'
    BY <1>1, <1>3, <1>4, Nats DEF PiAhead, PiInv
  <1> QED
    BY <1>1, <1>2, <1>5, MainMoves DEF InFile, Draining

LEMMA FilesFinite ==
  /\ IsFiniteSet(PassFiles)
  /\ \A T \in SUBSET PassFiles : IsFiniteSet(T) /\ Cardinality(T) \in Nat
  <1>1. IsFiniteSet(PassFiles)
    <2>1. 1 \in Int /\ PFiles \in Int
      BY Nats
    <2> QED
      BY <2>1, FS_Interval DEF PassFiles
  <1> QED
    BY <1>1, FS_Subset, FS_CardinalityType

LEMMA StampKeeps ==
  ASSUME PiInv, StampMeta
  PROVE  PiInv'
  <1>1. /\ main = "gate" /\ main' \in {"thrown", "done"}
        /\ UNCHANGED <<pipeMode, nextFile, pushed, buffer, awaited, fileState, batchVars,
                       pipeDisposed, batches, persistFatal>>
        /\ awaited \in Nat \ {0}
    BY DEF PiInv, PiTypes, StampMeta, loopVars, batchVars
  <1>2. Cardinality(Quarantined) <= QuarantineCap
    <2>1. CASE Quarantined = {}
      BY <2>1, FS_EmptySet, Nats
    <2>2. CASE Cardinality(Quarantined \cup Unwound) <= QuarantineCap
      <3>1. Quarantined \cup Unwound \in SUBSET PassFiles
            /\ Quarantined \in SUBSET (Quarantined \cup Unwound)
            /\ Quarantined \in SUBSET PassFiles
        BY DEF Quarantined, Unwound
      <3>2. Cardinality(Quarantined) <= Cardinality(Quarantined \cup Unwound)
        BY <3>1, FilesFinite, FS_Subset
      <3>3. Cardinality(Quarantined) \in Nat /\ Cardinality(Quarantined \cup Unwound) \in Nat
        BY <3>1, FilesFinite
      <3> QED
        BY <2>2, <3>2, <3>3, Nats
    <2> QED
      BY <2>1, <2>2 DEF StampMeta
  <1>3. Quarantined' = Quarantined
    BY <1>1 DEF Quarantined
  <1>4. PiMain'
    BY <1>1, <1>2, <1>3 DEF PiMain, PiInv, InFile, Draining
  <1>5. PiAhead'
    BY <1>1 DEF PiAhead, PiInv, PendingFlushes
  <1> QED
    BY <1>1, <1>4, <1>5, MainMoves DEF InFile, Draining

-----------------------------------------------------------------------------
(* The steps of the loop from file to file.                                *)

(* A step that leaves the batches alone, and moves the loop. *)
LEMMA FileMoves ==
  ASSUME PiInv, UNCHANGED <<pipeMode, awaited, buffer, batchVars>>,
         main' \in {"loop", "thrown"} \cup InFile \cup Draining, main # "thrown",
         nextFile' \in 1..(PFiles + 1), pushed' \in 0..ChunksPer,
         fileState' \in [PassFiles -> FileStates], pipeDisposed' \in BOOLEAN,
         pipeDisposed => pipeDisposed',
         \A f \in PassFiles : fileState'[f] \in Settled => fileState[f] \in Settled,
         PiMain', PiAhead',
         \A c \in PassChunks : Pushed(c) => Pushed(c)',
         \A c \in PassChunks : (Pushed(c) /\ fileState[c[1]] = "open")' =>
                                  Pushed(c) /\ fileState[c[1]] = "open",
         PiFates'
  PROVE  PiInv'
  <1> USE DEF PiInv
  <1>1. UNCHANGED <<vec, batches, slotsInUse, chain, persistFatal>>
    BY DEF batchVars
  <1>2. PiTypes'
    BY <1>1 DEF PiTypes
  <1>3. PiSlots'
    BY <1>1 DEF PiSlots
  <1>4. PiPlaces'
    BY <1>1 DEF PiPlaces, Buffered, Dispatched
  <1>5. PiTodo'
    <2> SUFFICES ASSUME NEW k \in DOMAIN batches, batches[k].phase # "done"
                 PROVE  Ahead(batches[k])'
      BY <1>1 DEF PiTodo
    <2>1. Ahead(batches[k])
      BY DEF PiTodo
    <2>2. Redone(batches[k]) => Redone(batches[k])'
      BY <1>1 DEF Redone
    <2>3. \A n \in DOMAIN batches[k].chunks : batches[k].chunks[n][1] \in PassFiles
      <3> SUFFICES ASSUME NEW n \in DOMAIN batches[k].chunks
                   PROVE  batches[k].chunks[n][1] \in PassFiles
        OBVIOUS
      <3>1. batches[k].chunks[n] \in PassChunks
        BY BatchTyped DEF PiTypes, Batches
      <3> QED
        BY <3>1, ChunkIsPair
    <2> QED
      BY <1>1, <2>1, <2>2, <2>3 DEF Ahead
  <1>6. PiKept'
    BY <1>1 DEF PiKept, Broken, Kept, Resolved, Buffered, Dispatched
  <1> QED
    BY <1>2, <1>3, <1>4, <1>5, <1>6

(* What of the bound ahead does not depend on the place of the loop. *)
LEMMA AheadMoves ==
  ASSUME PiInv, UNCHANGED <<pipeMode, awaited, batches>>,
         \/ main \in {"loop", "push"} /\ main' \in {"loop", "push"}
         \/ main' \in {main, "thrown"}
  PROVE  PiAhead'
  BY DEF PiInv, PiAhead, PendingFlushes

LEMMA SkipKeeps ==
  ASSUME PiInv, SkipFile
  PROVE  PiInv'
  <1> USE DEF PiInv
  <1>1. /\ main = "loop" /\ main' = main /\ nextFile <= PFiles /\ nextFile' = nextFile + 1
        /\ fileState' = [fileState EXCEPT ![nextFile] = "skipped"]
        /\ UNCHANGED <<pipeMode, pushed, buffer, awaited, batchVars, pipeDisposed, batches, vec,
                       persistFatal, chain>>
        /\ nextFile \in 1..(PFiles + 1) /\ pushed = 0
    BY DEF SkipFile, batchVars, PiTypes, PiMain
  <1>2. nextFile \in PassFiles /\ nextFile' \in 1..(PFiles + 1) /\ nextFile \in Nat
    BY <1>1, Nats DEF PassFiles
  <1>3. fileState' \in [PassFiles -> FileStates]
    BY <1>1 DEF PiTypes, FileStates
  <1>4. \A f \in PassFiles : fileState'[f] = IF f = nextFile THEN "skipped" ELSE fileState[f]
    BY <1>1, <1>2 DEF PiTypes
  <1>5. PiMain'
    BY <1>1 DEF PiMain, InFile, Draining
  <1>6. PiAhead'
    BY <1>1, AheadMoves
  <1>7. \A c \in PassChunks : c[1] \in Nat /\ c[2] \in Nat \ {0} /\ c[1] \in PassFiles
    BY ChunkIsPair, Nats DEF PassFiles
  <1>8. /\ \A c \in PassChunks : Pushed(c) => Pushed(c)'
        /\ \A c \in PassChunks : (Pushed(c) /\ fileState[c[1]] = "open")' =>
                                  Pushed(c) /\ fileState[c[1]] = "open"
    BY <1>1, <1>2, <1>4, <1>7 DEF Pushed
  <1>9. PiFates'
    <2> SUFFICES ASSUME NEW f \in PassFiles  PROVE Fate(f)'
      BY FatesAre DEF PiFates, Fate
    <2>1. f \in Nat /\ Fate(f)
      BY FatesAre, Nats DEF PassFiles
    <2>2. CASE f = nextFile
      BY <1>1, <1>2, <1>4, <2>1, <2>2 DEF Fate, Settled
    <2>3. CASE f # nextFile
      BY <1>1, <1>2, <1>4, <2>1, <2>3 DEF Fate, Unresolved, InFile
    <2> QED
      BY <2>2, <2>3
  <1> QED
    BY <1>1, <1>2, <1>3, <1>4, <1>5, <1>6, <1>8, <1>9, FileMoves DEF PiTypes, Settled

LEMMA OpenKeeps ==
  ASSUME PiInv, OpenFile
  PROVE  PiInv'
  <1> USE DEF PiInv
  <1>1. /\ main = "loop" /\ main' = "push" /\ nextFile <= PFiles
        /\ fileState' = [fileState EXCEPT ![nextFile] = "open"]
        /\ UNCHANGED <<pipeMode, nextFile, pushed, buffer, awaited, batchVars, pipeDisposed,
                       batches, vec, persistFatal, chain>>
        /\ nextFile \in 1..(PFiles + 1) /\ pushed = 0
    BY DEF OpenFile, loopVars, batchVars, PiTypes, PiMain
  <1>2. nextFile \in PassFiles /\ nextFile \in Nat
    BY <1>1, Nats DEF PassFiles
  <1>3. fileState' \in [PassFiles -> FileStates]
    BY <1>1 DEF PiTypes, FileStates
  <1>4. \A f \in PassFiles : fileState'[f] = IF f = nextFile THEN "open" ELSE fileState[f]
    BY <1>1, <1>2 DEF PiTypes
  <1>5. PiMain'
    BY <1>1 DEF PiMain, InFile, Draining
  <1>6. PiAhead'
    BY <1>1, AheadMoves
  <1>7. \A c \in PassChunks : c[1] \in Nat /\ c[2] \in Nat \ {0} /\ c[1] \in PassFiles
    BY ChunkIsPair, Nats DEF PassFiles
  <1>8. /\ \A c \in PassChunks : Pushed(c) => Pushed(c)'
        /\ \A c \in PassChunks : (Pushed(c) /\ fileState[c[1]] = "open")' =>
                                  Pushed(c) /\ fileState[c[1]] = "open"
    BY <1>1, <1>2, <1>4, <1>7 DEF Pushed
  <1>9. Unresolved(vec, nextFile) # {}
    <2> DEFINE c == <<nextFile, 1>>
    <2>1. c \in PassChunks /\ c[1] = nextFile /\ c[2] = 1
      BY <1>2, Nats DEF PassChunks
    <2>2. ~Pushed(c)
      BY <1>1, <1>2, <2>1 DEF Pushed
    <2>3. vec[c] = "none"
      BY <2>1, <2>2 DEF PiPlaces
    <2> HIDE DEF c
    <2> QED
      BY <2>1, <2>3 DEF Unresolved
  <1>10. PiFates'
    <2> SUFFICES ASSUME NEW f \in PassFiles  PROVE Fate(f)'
      BY FatesAre DEF PiFates, Fate
    <2>1. f \in Nat /\ Fate(f)
      BY FatesAre, Nats DEF PassFiles
    <2>2. CASE f = nextFile
      BY <1>1, <1>2, <1>4, <1>9, <2>1, <2>2 DEF Fate, Settled, InFile
    <2>3. CASE f # nextFile
      BY <1>1, <1>2, <1>4, <2>1, <2>3 DEF Fate, Unresolved, InFile
    <2> QED
      BY <2>2, <2>3
  <1> QED
    BY <1>1, <1>2, <1>3, <1>4, <1>5, <1>6, <1>8, <1>10, FileMoves DEF PiTypes, Settled, InFile

LEMMA BufferedKeeps ==
  ASSUME PiInv, FileBuffered
  PROVE  PiInv'
  <1> USE DEF PiInv
  <1>1. /\ main = "push" /\ main' = "loop" /\ nextFile' = nextFile + 1 /\ pushed' = 0
        /\ pushed = ChunksPer /\ nextFile <= PFiles
        /\ UNCHANGED <<pipeMode, fileState, buffer, awaited, batchVars, pipeDisposed,
                       batches, vec, persistFatal, chain>>
        /\ nextFile \in 1..(PFiles + 1)
    BY DEF FileBuffered, batchVars, PiTypes, PiMain, InFile
  <1>2. nextFile \in Nat /\ nextFile' \in 1..(PFiles + 1) /\ pushed' \in 0..ChunksPer
    BY <1>1, Nats
  <1>3. PiMain'
    BY <1>1 DEF PiMain, InFile, Draining
  <1>4. PiAhead'
    BY <1>1, AheadMoves
  <1>5. \A c \in PassChunks : c[1] \in Nat /\ c[2] \in 1..ChunksPer
    BY ChunkIsPair, Nats DEF PassFiles
  <1>6. \A c \in PassChunks : Pushed(c)' <=> Pushed(c)
    BY <1>1, <1>2, <1>5, Nats DEF Pushed
  <1>7. PiFates'
    <2> SUFFICES ASSUME NEW f \in PassFiles  PROVE Fate(f)'
      BY FatesAre DEF PiFates, Fate
    <2>1. f \in Nat /\ Fate(f)
      BY FatesAre, Nats DEF PassFiles
    <2>2. f >= nextFile' => f > nextFile
      BY <1>1, <1>2, <2>1
    <2>3. f >= nextFile' => fileState[f] = "waiting"
      BY <2>1, <2>2 DEF Fate
    <2> QED
      BY <1>1, <1>2, <2>1, <2>3 DEF Fate, Unresolved, InFile, Settled
  <1> QED
    BY <1>1, <1>2, <1>3, <1>4, <1>6, <1>7, FileMoves DEF PiTypes

LEMMA UnwindKeeps ==
  ASSUME PiInv, NEW f \in PassFiles, Unwind(f)
  PROVE  PiInv'
  <1> USE DEF PiInv
  <1>1. /\ main = "gate" /\ main' \in {"gate", "thrown"} /\ fileState[f] = "quarantined"
        /\ UNCHANGED <<pipeMode, nextFile, pushed, buffer, awaited, batchVars, pipeDisposed,
                       batches, vec, persistFatal, chain>>
        /\ \E s \in {"quarantined", "unwound", "kept"} :
             fileState' = [fileState EXCEPT ![f] = s]
    BY DEF Unwind, loopVars, batchVars, PiTypes, Quarantined
  <1>2. PICK s \in {"quarantined", "unwound", "kept"} : fileState' = [fileState EXCEPT ![f] = s]
    BY <1>1
  <1>3. fileState' \in [PassFiles -> FileStates]
    BY <1>2 DEF PiTypes, FileStates
  <1>4. \A g \in PassFiles : fileState'[g] = IF g = f THEN s ELSE fileState[g]
    BY <1>2 DEF PiTypes
  <1>5. PiMain'
    BY <1>1 DEF PiMain, InFile, Draining
  <1>6. PiAhead'
    BY <1>1, AheadMoves
  <1>7. \A c \in PassChunks : Pushed(c)' <=> Pushed(c)
    BY <1>1 DEF Pushed
  <1>8. \A g \in PassFiles : fileState'[g] = "open" => fileState[g] = "open"
    BY <1>4
  <1>9. \A g \in PassFiles : fileState'[g] \in Settled => fileState[g] \in Settled
    BY <1>1, <1>4 DEF Settled
  <1>10. PiFates'
    <2> SUFFICES ASSUME NEW g \in PassFiles  PROVE Fate(g)'
      BY FatesAre DEF PiFates, Fate
    <2>1. Fate(g)
      BY FatesAre
    <2>2. CASE g = f
      BY <1>1, <1>4, <2>1, <2>2 DEF Fate, Unresolved, Settled
    <2>3. CASE g # f
      BY <1>1, <1>4, <2>1, <2>3 DEF Fate, Unresolved, InFile
    <2> QED
      BY <2>2, <2>3
  <1> QED
    BY <1>1, <1>3, <1>5, <1>6, <1>7, <1>8, <1>9, <1>10, ChunkIsPair, FileMoves
       DEF PiTypes, Draining

LEMMA UnloadKeeps ==
  ASSUME PiInv, Unload
  PROVE  PiInv'
  <1> USE DEF PiInv
  <1>1. /\ pipeDisposed' = TRUE /\ main # "thrown" /\ main' = main /\ main # "idle"
        /\ UNCHANGED <<pipeMode, nextFile, pushed, buffer, awaited, batchVars, fileState,
                       batches, vec, persistFatal, chain>>
    BY DEF Unload, Running, loopVars, batchVars
  <1>2. PiMain'
    BY <1>1 DEF PiMain, Quarantined
  <1>3. PiAhead'
    BY <1>1, AheadMoves
  <1>4. \A c \in PassChunks : Pushed(c)' <=> Pushed(c)
    BY <1>1 DEF Pushed
  <1>5. PiFates'
    BY <1>1 DEF PiFates, Unresolved
  <1> QED
    BY <1>1, <1>2, <1>3, <1>4, <1>5, FileMoves DEF PiTypes

-----------------------------------------------------------------------------
(* The steps that fill and empty the buffer.                               *)

LEMMA SpliceIs ==
  ASSUME NEW buf \in Seq(PassChunks), buf # <<>>, Injective(buf)
  PROVE  LET h == SubSeq(buf, 1, IF Len(buf) < RollingBatch THEN Len(buf) ELSE RollingBatch)
             r == AfterSplice(buf)
         IN /\ h \in Seq(PassChunks) /\ Len(h) > 0 /\ Injective(h)
            /\ r \in Seq(PassChunks) /\ Injective(r)
            /\ \A c : Occurs(buf, c) <=> Occurs(h, c) \/ Occurs(r, c)
            /\ \A c : ~(Occurs(h, c) /\ Occurs(r, c))
  <1> DEFINE h == SubSeq(buf, 1, IF Len(buf) < RollingBatch THEN Len(buf) ELSE RollingBatch)
             r == AfterSplice(buf)
  <1>1. PICK n \in Nat : SplitAt(buf, h, r, n)
    BY SpliceSplits
  <1> HIDE DEF h, r
  <1>2. /\ h \in Seq(PassChunks) /\ Len(h) > 0 /\ Injective(h)
        /\ r \in Seq(PassChunks) /\ Injective(r)
        /\ \A c : Occurs(buf, c) <=> Occurs(h, c) \/ Occurs(r, c)
        /\ \A c : ~(Occurs(h, c) /\ Occurs(r, c))
    BY <1>1, SplitParts
  <1> QED
    BY <1>2 DEF h, r

(* A dispatch takes the chunks out of the buffer and adds a batch. *)
Dispatches(buf, nb) ==
  /\ batches' \in Seq(Batches) /\ Len(batches') = Len(batches) + 1
  /\ DOMAIN batches' = DOMAIN batches \cup {Len(batches) + 1}
  /\ \A j \in DOMAIN batches : batches'[j] = batches[j]
  /\ batches'[Len(batches) + 1] = nb
  /\ nb \in Batches /\ nb.solo = 0 /\ nb.phase \in {"embed", "queued"}
  /\ WellFormed(nb) /\ Injective(nb.chunks)
  /\ buffer' \in Seq(PassChunks) /\ Injective(buffer')
  /\ \A c : Occurs(buf, c) <=> Has(nb, c) \/ Buffered(c)'
  /\ \A c : ~(Has(nb, c) /\ Buffered(c)')

LEMMA DispatchIs ==
  ASSUME PiTypes, NEW buf \in Seq(PassChunks), buf # <<>>, Injective(buf),
         NEW inl \in BOOLEAN, NewBatch(buf, inl), buffer' = AfterSplice(buf)
  PROVE  \E nb : Dispatches(buf, nb)
  <1> DEFINE h == SubSeq(buf, 1, IF Len(buf) < RollingBatch THEN Len(buf) ELSE RollingBatch)
             ph == IF inl THEN "embed" ELSE "queued"
             nb == [chunks |-> h, phase |-> ph, solo |-> 0, out |-> "ok", inline |-> inl]
  <1>1. batches' = Append(batches, nb)
    BY DEF NewBatch
  <1>2. /\ h \in Seq(PassChunks) /\ Len(h) > 0 /\ Injective(h)
        /\ buffer' \in Seq(PassChunks) /\ Injective(buffer')
        /\ \A c : Occurs(buf, c) <=> Occurs(h, c) \/ Occurs(buffer', c)
        /\ \A c : ~(Occurs(h, c) /\ Occurs(buffer', c))
    BY SpliceIs
  <1> HIDE DEF h
  <1>3. /\ nb \in Batches /\ nb.solo = 0 /\ nb.phase \in {"embed", "queued"} /\ nb.chunks = h
    BY <1>2 DEF Batches, Phases, OnGpu
  <1> HIDE DEF nb
  <1>4. /\ batches' \in Seq(Batches) /\ Len(batches') = Len(batches) + 1
        /\ \A j \in 1..Len(batches) : batches'[j] = batches[j]
        /\ batches'[Len(batches) + 1] = nb
    BY <1>1, <1>3, AppendProperties DEF PiTypes
  <1>5. DOMAIN batches' = DOMAIN batches \cup {Len(batches) + 1} /\ DOMAIN batches = 1..Len(batches)
    BY <1>4 DEF PiTypes
  <1>6. WellFormed(nb) /\ Injective(nb.chunks)
    BY <1>2, <1>3 DEF WellFormed
  <1>7. /\ \A c : Occurs(buf, c) <=> Has(nb, c) \/ Buffered(c)'
        /\ \A c : ~(Has(nb, c) /\ Buffered(c)')
    BY <1>2, <1>3 DEF Has, Buffered
  <1>8. Dispatches(buf, nb)
    BY <1>2, <1>3, <1>4, <1>5, <1>6, <1>7 DEF Dispatches
  <1> QED
    BY <1>8

(* What becomes of a buffer: it stays, a dispatch of a broken pass is lost, *)
(* or a batch is made of it.                                                *)
BufferStep(buf) ==
  \/ UNCHANGED batches /\ buffer' = buf
  \/ UNCHANGED batches /\ buffer' = AfterSplice(buf) /\ buf # <<>> /\ Broken'
  \/ \E nb : Dispatches(buf, nb)

LEMMA BufferKeeps ==
  ASSUME PiInv, NEW buf \in Seq(PassChunks), Injective(buf), BufferStep(buf),
         UNCHANGED <<pipeMode, nextFile, awaited, fileState, vec, slotsInUse, chain,
                     persistFatal, pipeDisposed>>,
         main' \in {"loop", "thrown"} \cup InFile \cup Draining, main # "thrown",
         pushed' \in 0..ChunksPer,
         \A c \in PassChunks : Pushed(c) => Pushed(c)',
         \A c \in PassChunks : Occurs(buf, c) => Pushed(c)' /\ ~Dispatched(c),
         \A c \in PassChunks : Pushed(c)' => Pushed(c) \/ Occurs(buf, c),
         \A c \in PassChunks : Buffered(c) => Occurs(buf, c),
         PiMain', PiAhead', PiFates'
  PROVE  PiInv'
  <1> USE DEF PiInv
  <1>1. CASE UNCHANGED batches
    <2>1. /\ buffer' \in Seq(PassChunks) /\ Injective(buffer')
          /\ \A c : Buffered(c)' => Occurs(buf, c)
          /\ Broken' \/ \A c : Occurs(buf, c) => Buffered(c)'
      <3>1. CASE buffer' = buf
        BY <3>1 DEF Buffered
      <3>2. CASE buffer' = AfterSplice(buf) /\ buf # <<>> /\ Broken'
        BY <3>2, SpliceIs DEF Buffered
      <3>3. CASE \E nb : Dispatches(buf, nb)
        BY <1>1, <3>3 DEF Dispatches, PiTypes
      <3> QED
        BY <3>1, <3>2, <3>3 DEF BufferStep
    <2>2. PiTypes'
      BY <1>1, <2>1 DEF PiTypes
    <2>3. PiSlots'
      BY <1>1 DEF PiSlots
    <2>4. \A c : Dispatched(c)' <=> Dispatched(c)
      BY <1>1 DEF Dispatched
    <2>5. PiPlaces'
      BY <1>1, <2>1, <2>4 DEF PiPlaces
    <2>6. PiTodo'
      BY <1>1 DEF PiTodo, Ahead, Redone
    <2>7. PiKept'
      <3> SUFFICES ASSUME ~Broken'  PROVE (Kept /\ Resolved)'
        BY DEF PiKept
      <3>1. Kept /\ Resolved
        BY DEF PiKept, Broken
      <3>2. Kept'
        BY <2>1, <2>4, <3>1 DEF Kept
      <3>3. Resolved'
        BY <1>1, <3>1 DEF Resolved
      <3> QED
        BY <3>2, <3>3
    <2> QED
      BY <2>2, <2>3, <2>5, <2>6, <2>7
  <1>2. CASE batches' # batches
    <2> DEFINE n == Len(batches) + 1
    <2>1. PICK nb : Dispatches(buf, nb)
      BY <1>2 DEF BufferStep
    <2>2. /\ batches' \in Seq(Batches) /\ DOMAIN batches' = DOMAIN batches \cup {n}
          /\ \A j \in DOMAIN batches : batches'[j] = batches[j]
          /\ batches'[n] = nb /\ n \notin DOMAIN batches
          /\ nb \in Batches /\ nb.solo = 0 /\ nb.phase \in {"embed", "queued"}
          /\ WellFormed(nb) /\ Injective(nb.chunks)
          /\ buffer' \in Seq(PassChunks) /\ Injective(buffer')
          /\ \A c : Occurs(buf, c) <=> Has(nb, c) \/ Buffered(c)'
          /\ \A c : ~(Has(nb, c) /\ Buffered(c)')
      BY <2>1 DEF Dispatches, PiTypes
    <2> HIDE DEF n
    <2>3. PiTypes'
      BY <2>2 DEF PiTypes
    <2>4. PiSlots'
      <3>1. Persisting(batches') = Persisting(batches)
        BY <2>2 DEF Persisting
      <3> QED
        BY <3>1 DEF PiSlots
    <2>5. \A c : Dispatched(c)' <=> Dispatched(c) \/ Has(nb, c)
      BY <2>2 DEF Dispatched, Has
    <2>6. PiPlaces'
      <3>1. \A k, l \in DOMAIN batches' : \A c \in PassChunks :
               Has(batches'[k], c) /\ Has(batches'[l], c) => k = l
        <4> SUFFICES ASSUME NEW k \in DOMAIN batches', NEW l \in DOMAIN batches',
                            NEW c \in PassChunks, Has(batches'[k], c), Has(batches'[l], c)
                     PROVE  k = l
          OBVIOUS
        <4>1. k \in DOMAIN batches => Dispatched(c)
          BY <2>2 DEF Dispatched
        <4>2. l \in DOMAIN batches => Dispatched(c)
          BY <2>2 DEF Dispatched
        <4>3. Has(nb, c) => ~Dispatched(c)
          BY <2>2
        <4> QED
          BY <2>2, <4>1, <4>2, <4>3 DEF PiPlaces
      <3>2. \A k \in DOMAIN batches' : Injective(batches'[k].chunks)
        BY <2>2 DEF PiPlaces
      <3>3. /\ \A c \in PassChunks : (Buffered(c) \/ Dispatched(c))' => Pushed(c)'
            /\ \A c \in PassChunks : ~(Buffered(c) /\ Dispatched(c))'
            /\ \A c \in PassChunks : vec'[c] # "none" => Dispatched(c)'
        BY <2>2, <2>5 DEF PiPlaces
      <3> QED
        BY <2>2, <3>1, <3>2, <3>3 DEF PiPlaces
    <2>7. PiTodo'
      <3>1. \A j \in DOMAIN batches : batches[j].phase # "done" => Ahead(batches[j])'
        BY <2>2 DEF PiTodo, Ahead, Redone
      <3>2. \A i \in DOMAIN nb.chunks : vec'[nb.chunks[i]] = "none"
        <4> SUFFICES ASSUME NEW i \in DOMAIN nb.chunks  PROVE vec[nb.chunks[i]] = "none"
          OBVIOUS
        <4>1. nb.chunks[i] \in PassChunks /\ Has(nb, nb.chunks[i])
          BY <2>2 DEF Batches, Has, Occurs
        <4>2. ~Dispatched(nb.chunks[i])
          BY <2>2, <4>1
        <4> QED
          BY <4>1, <4>2 DEF PiPlaces
      <3>3. Last(nb.chunks) = nb.chunks[Len(nb.chunks)] /\ Len(nb.chunks) \in DOMAIN nb.chunks
        BY <2>2 DEF Last, Batches, WellFormed
      <3>4. \A m : m \in DOMAIN batches' /\ m \notin DOMAIN batches => Ahead(batches[m])'
        <4> SUFFICES ASSUME NEW m, m \in DOMAIN batches', m \notin DOMAIN batches
                     PROVE  Ahead(batches[m])'
          OBVIOUS
        <4>1. batches'[m] = nb
          BY <2>2
        <4> QED
          BY <2>2, <3>2, <3>3, <4>1 DEF Ahead
      <3> QED
        BY <2>2, <3>1, <3>4 DEF PiTodo
    <2>8. PiKept'
      <3> SUFFICES ASSUME ~Broken'  PROVE (Kept /\ Resolved)'
        BY DEF PiKept
      <3>1. Kept /\ Resolved
        BY DEF PiKept, Broken
      <3>2. Kept'
        BY <2>2, <2>5, <3>1 DEF Kept
      <3>3. \A i \in DOMAIN nb.chunks : ~(i < nb.solo) /\ nb.phase # "done"
        BY <2>2 DEF Batches
      <3>4. Resolved'
        BY <2>2, <3>1, <3>3 DEF Resolved
      <3> QED
        BY <3>2, <3>4
    <2> QED
      BY <2>3, <2>4, <2>6, <2>7, <2>8
  <1> QED
    BY <1>1, <1>2

(* The bound ahead after a dispatch. *)
LEMMA AheadGrows ==
  ASSUME PiInv, NEW buf, NEW nb, Dispatches(buf, nb), PendingFlushes < AheadCap,
         UNCHANGED <<pipeMode, awaited>>,
         \/ main' = "ahead"
         \/ main' \in {"inline", "inlineDrain"} /\ PendingOf(batches) = {}
  PROVE  PiAhead'
  <1> DEFINE n == Len(batches) + 1
  <1>1. /\ batches' \in Seq(Batches) /\ Len(batches') = n /\ n \in Nat /\ awaited \in Nat
        /\ PendingOf(batches') = PendingOf(batches) \cup {n} /\ n \notin PendingOf(batches)
    BY DEF Dispatches, PiInv, PiTypes, PendingOf, Pending, OnGpu
  <1>2. IsFiniteSet(PendingOf(batches))
    BY PendingCounted DEF PiInv, PiTypes
  <1>3. Cardinality(PendingOf(batches')) = Cardinality(PendingOf(batches)) + 1
    BY <1>1, <1>2, FS_AddElement
  <1>4. /\ PendingFlushes = Cardinality(PendingOf(batches))
        /\ PendingFlushes' = Cardinality(PendingOf(batches'))
        /\ PendingFlushes \in Nat
    BY FlushesCounted, NoFlush DEF PiInv, PendingFlushes, PendingOf
  <1>5. PendingFlushes' <= AheadCap
    BY <1>3, <1>4, Nats
  <1>6. awaited <= n /\ \A k \in PendingOf(batches') : k >= awaited
    BY <1>1 DEF PiInv, PiAhead
  <1>7. awaited <= n + 1
    BY <1>1, <1>6
  <1> HIDE DEF n
  <1> QED
    BY <1>1, <1>5, <1>6, <1>7 DEF PiAhead

LEMMA PushKeeps ==
  ASSUME PiInv, PushChunk
  PROVE  PiInv'
  <1> USE DEF PiInv
  <1> DEFINE c0 == <<nextFile, pushed + 1>>
             buf == Append(buffer, c0)
  <1>1. /\ main = "push" /\ pushed' = pushed + 1 /\ pushed < ChunksPer
        /\ IF Len(buf) >= RollingBatch THEN Flush(buf)
           ELSE buffer' = buf /\ UNCHANGED <<main, batches>>
        /\ UNCHANGED <<pipeMode, nextFile, awaited, fileState, vec, slotsInUse, chain,
                       persistFatal, pipeDisposed>>
    BY DEF PushChunk
  <1>2. /\ nextFile \in PassFiles /\ nextFile \in Nat /\ pushed \in Nat
        /\ pushed' \in 0..ChunksPer /\ c0 \in PassChunks /\ c0[1] = nextFile /\ c0[2] = pushed + 1
    <2>1. /\ nextFile \in 1..(PFiles + 1) /\ nextFile <= PFiles /\ pushed \in 0..ChunksPer
      BY <1>1 DEF PiTypes, PiMain, InFile
    <2>2. nextFile \in PassFiles /\ pushed + 1 \in 1..ChunksPer
      BY <1>1, <2>1, Nats DEF PassFiles
    <2> QED
      BY <1>1, <2>1, <2>2, Nats DEF PassChunks
  <1>3. ~Pushed(c0) /\ ~Buffered(c0) /\ ~Dispatched(c0)
    <2>1. ~Pushed(c0)
      BY <1>2 DEF Pushed
    <2> QED
      BY <1>2, <2>1 DEF PiPlaces
  <1>4. /\ \A c \in PassChunks : c[1] \in Nat /\ c[2] \in Nat
        /\ \A c \in PassChunks : c = <<c[1], c[2]>>
    BY ChunkIsPair, Nats DEF PassFiles
  <1>5. \A c \in PassChunks : Pushed(c)' <=> Pushed(c) \/ c = c0
    <2> SUFFICES ASSUME NEW c \in PassChunks  PROVE Pushed(c)' <=> Pushed(c) \/ c = c0
      OBVIOUS
    <2>1. c[1] \in Nat /\ c[2] \in Nat /\ (c = c0 <=> c[1] = nextFile /\ c[2] = pushed + 1)
      BY <1>2, <1>4
    <2> HIDE DEF c0
    <2> QED
      BY <1>1, <1>2, <2>1 DEF Pushed
  <1> HIDE DEF c0
  <1>6. /\ buf \in Seq(PassChunks) /\ buf # <<>> /\ Len(buf) = Len(buffer) + 1
        /\ \A i \in 1..Len(buffer) : buf[i] = buffer[i]
        /\ buf[Len(buffer) + 1] = c0
        /\ DOMAIN buf = 1..(Len(buffer) + 1) /\ DOMAIN buffer = 1..Len(buffer)
        /\ Len(buffer) \in Nat
    <2>1. buffer \in Seq(PassChunks) /\ c0 \in PassChunks
      BY <1>2 DEF PiTypes
    <2>2. /\ buf \in Seq(PassChunks) /\ buf # <<>> /\ Len(buf) = Len(buffer) + 1
          /\ \A i \in 1..Len(buffer) : buf[i] = buffer[i]
          /\ buf[Len(buffer) + 1] = c0
      BY <2>1, AppendProperties
    <2> HIDE DEF buf
    <2> QED
      BY <2>1, <2>2, LenProperties
  <1> HIDE DEF buf
  <1>7. \A c : Occurs(buf, c) <=> Buffered(c) \/ c = c0
    BY <1>6 DEF Occurs, Buffered
  <1>8. Injective(buf)
    <2> SUFFICES ASSUME NEW i \in DOMAIN buf, NEW j \in DOMAIN buf, buf[i] = buf[j]
                 PROVE  i = j
      BY DEF Injective
    <2>1. Injective(buffer)
      BY DEF PiPlaces
    <2>2. \A m \in 1..Len(buffer) : buffer[m] # c0
      BY <1>3, <1>6 DEF Buffered, Occurs
    <2> QED
      BY <1>6, <2>1, <2>2 DEF Injective
  <1>9. /\ \A c \in PassChunks : Pushed(c) => Pushed(c)'
        /\ \A c \in PassChunks : Occurs(buf, c) => Pushed(c)' /\ ~Dispatched(c)
        /\ \A c \in PassChunks : Pushed(c)' => Pushed(c) \/ Occurs(buf, c)
        /\ \A c \in PassChunks : Buffered(c) => Occurs(buf, c)
    BY <1>3, <1>5, <1>7 DEF PiPlaces
  <1>10. PendingFlushes < AheadCap /\ (pipeMode = "incremental" => PendingOf(batches) = {})
    BY <1>1 DEF PiAhead
  <1>11. \/ main' = "push" /\ UNCHANGED batches /\ buffer' = buf
         \/ /\ UNCHANGED batches /\ buffer' = AfterSplice(buf)
            /\ \/ main' = "ahead" /\ pipeMode = "full" /\ (persistFatal \/ pipeDisposed)
               \/ main' = "thrown"
         \/ /\ \E nb : Dispatches(buf, nb)
            /\ \/ main' = "ahead" /\ pipeMode = "full"
               \/ main' = "inline" /\ pipeMode = "incremental"
    <2>1. CASE ~(Len(buf) >= RollingBatch)
      BY <1>1, <2>1
    <2>2. CASE Len(buf) >= RollingBatch
      <3>1. Flush(buf) /\ buffer' = AfterSplice(buf) /\ pipeMode \in {"full", "incremental"}
        BY <1>1, <2>2 DEF Flush, PiTypes
      <3>2. ASSUME NEW inl \in BOOLEAN, NewBatch(buf, inl)  PROVE \E nb : Dispatches(buf, nb)
        BY <1>6, <1>8, <3>1, <3>2, DispatchIs
      <3>3. CASE pipeMode = "full"
        BY <3>1, <3>2, <3>3 DEF Flush
      <3>4. CASE pipeMode = "incremental"
        BY <3>1, <3>2, <3>4 DEF Flush
      <3> QED
        BY <3>1, <3>3, <3>4
    <2> QED
      BY <2>1, <2>2
  <1>12. BufferStep(buf)
    BY <1>1, <1>6, <1>11 DEF BufferStep, Broken
  <1>13. main' \in {"push", "ahead", "inline", "thrown"}
    BY <1>11
  <1>14. PiMain'
    <2>1. main' = "ahead" => pipeMode = "full"
      BY <1>11
    <2>2. main' = "inline" => pipeMode = "incremental" /\ Len(batches') > 0
      <3>1. main' = "inline" => \E nb : Dispatches(buf, nb)
        BY <1>11
      <3>2. main' = "inline" => Len(batches') = Len(batches) + 1
        BY <3>1 DEF Dispatches
      <3> QED
        BY <1>11, <3>2 DEF PiTypes
    <2>3. nextFile' <= PFiles
      BY <1>1 DEF PiMain, InFile
    <2> QED
      BY <1>1, <1>13, <2>1, <2>2, <2>3 DEF PiMain, InFile, Draining
  <1>15. PiAhead'
    <2>1. CASE UNCHANGED batches /\ main' \in {"push", "ahead", "thrown"}
      BY <1>1, <2>1 DEF PiAhead, PendingFlushes
    <2>2. CASE /\ \E nb : Dispatches(buf, nb)
               /\ \/ main' = "ahead" /\ pipeMode = "full"
                  \/ main' = "inline" /\ pipeMode = "incremental"
      BY <1>1, <1>10, <2>2, AheadGrows
    <2> QED
      BY <1>11, <2>1, <2>2
  <1>16. PiFates'
    <2>1. ASSUME NEW f \in PassFiles, Fate(f)  PROVE Fate(f)'
      BY <1>1, <1>13, <2>1 DEF Fate, InFile
    <2> QED
      BY <2>1, FatesAre DEF PiFates, Fate
  <1> QED
    BY <1>1, <1>2, <1>6, <1>8, <1>9, <1>12, <1>13, <1>14, <1>15, <1>16, BufferKeeps DEF InFile

LEMMA DrainBucketKeeps ==
  ASSUME PiInv, DrainBucket
  PROVE  PiInv'
  <1> USE DEF PiInv
  <1>1. /\ main = "drainBuckets"
        /\ UNCHANGED <<pipeMode, nextFile, pushed, awaited, fileState, vec, slotsInUse, chain,
                       persistFatal, pipeDisposed>>
    BY DEF DrainBucket
  <1>2. buffer \in Seq(PassChunks) /\ Injective(buffer) /\ pushed' \in 0..ChunksPer
    BY <1>1 DEF PiTypes, PiPlaces
  <1>3. /\ \A c \in PassChunks : Pushed(c)' <=> Pushed(c)
        /\ \A c \in PassChunks : Occurs(buffer, c) => Pushed(c)' /\ ~Dispatched(c)
        /\ \A c \in PassChunks : Buffered(c) => Occurs(buffer, c)
    BY <1>1 DEF PiPlaces, Buffered, Pushed
  <1>4. PendingOf(batches) = {} /\ PendingFlushes < AheadCap
    BY <1>1, NoFlush, Nats DEF PiAhead
  <1>5. \/ /\ main' = "drainPersist" /\ UNCHANGED <<buffer, batches>>
           /\ buffer = <<>> \/ pipeDisposed
        \/ /\ main' = "thrown" /\ UNCHANGED batches /\ buffer' = AfterSplice(buffer)
           /\ buffer # <<>>
        \/ main' = "inlineDrain" /\ \E nb : Dispatches(buffer, nb)
    <2>1. CASE buffer = <<>> \/ (pipeDisposed /\ \A k \in DOMAIN batches : ~batches[k].inline)
      BY <2>1 DEF DrainBucket
    <2>2. CASE ~(buffer = <<>> \/ (pipeDisposed /\ \A k \in DOMAIN batches : ~batches[k].inline))
      <3>1. CASE persistFatal
        BY <2>2, <3>1 DEF DrainBucket
      <3>2. CASE ~persistFatal
        <4>1. NewBatch(buffer, TRUE) /\ buffer' = AfterSplice(buffer) /\ main' = "inlineDrain"
          BY <2>2, <3>2 DEF DrainBucket
        <4>2. buffer # <<>> /\ TRUE \in BOOLEAN
          BY <2>2
        <4> QED
          BY <1>2, <4>1, <4>2, DispatchIs
      <3> QED
        BY <3>1, <3>2
    <2> QED
      BY <2>1, <2>2
  <1>6. BufferStep(buffer)
    BY <1>5 DEF BufferStep, Broken
  <1>7. main' \in {"drainPersist", "thrown", "inlineDrain"}
    BY <1>5
  <1>8. PiMain'
    <2>1. pushed' = 0
      BY <1>1 DEF PiMain, Draining
    <2>2. main' = "inlineDrain" => Len(batches') > 0
      <3>1. main' = "inlineDrain" => Len(batches') = Len(batches) + 1
        BY <1>5 DEF Dispatches
      <3> QED
        BY <3>1 DEF PiTypes
    <2>3. main' = "drainPersist" => buffer' = <<>> \/ pipeDisposed'
      BY <1>1, <1>5
    <2> QED
      BY <1>7, <2>1, <2>2, <2>3 DEF PiMain, InFile, Draining
  <1>9. PiAhead'
    <2>1. CASE UNCHANGED batches /\ main' \in {"drainPersist", "thrown"}
      BY <1>1, <2>1 DEF PiAhead, PendingFlushes
    <2>2. CASE main' = "inlineDrain" /\ \E nb : Dispatches(buffer, nb)
      BY <1>1, <1>4, <2>2, AheadGrows
    <2> QED
      BY <1>5, <2>1, <2>2
  <1>10. PiFates'
    <2>1. ASSUME NEW f \in PassFiles, Fate(f)  PROVE Fate(f)'
      BY <1>1, <1>7, <2>1 DEF Fate, InFile
    <2> QED
      BY <2>1, FatesAre DEF PiFates, Fate
  <1> QED
    BY <1>1, <1>2, <1>3, <1>6, <1>7, <1>8, <1>9, <1>10, BufferKeeps DEF Draining

-----------------------------------------------------------------------------
(* The invariant, and what it gives.                                       *)

LEMMA PiInitInv == PipeInit => PiInv
  <1> SUFFICES ASSUME PipeInit  PROVE PiInv
    OBVIOUS
  <1> USE DEF PipeInit
  <1>1. batches = <<>> /\ buffer = <<>> /\ chain = <<>> /\ DOMAIN batches = {}
        /\ DOMAIN buffer = {} /\ Len(batches) = 0 /\ Len(chain) = 0
    BY EmptySeq
  <1>2. PiTypes
    <2>1. /\ buffer \in Seq(PassChunks) /\ batches \in Seq(Batches) /\ chain \in Seq(Nat)
      BY EmptySeq
    <2>2. nextFile \in 1..(PFiles + 1) /\ pushed \in 0..ChunksPer
      BY Nats
    <2>3. fileState \in [PassFiles -> FileStates] /\ vec \in [PassChunks -> {"none", "ok", "null"}]
      BY DEF FileStates
    <2>4. \A k \in DOMAIN batches : WellFormed(batches[k])
      BY <1>1
    <2>5. /\ pipeMode \in {"full", "incremental"} /\ main = "idle" /\ awaited \in Nat \ {0}
          /\ slotsInUse \in Nat
      BY SMT
    <2>6. persistFatal \in BOOLEAN /\ pipeDisposed \in BOOLEAN
      BY Zenon
    <2> HIDE DEF PipeInit
    <2> QED
      BY <2>1, <2>2, <2>3, <2>4, <2>5, <2>6 DEF PiTypes
  <1>3. PiMain
    BY DEF PiMain, InFile, Draining
  <1>4. Persisting(batches) = {} /\ PendingOf(batches) = {} /\ Cardinality({}) = 0
    BY <1>1, FS_EmptySet DEF Persisting, PendingOf
  <1>5. PiSlots
    <2>1. slotsInUse = 0 /\ slotsInUse <= InflightMax
      BY Nats
    <2> HIDE DEF PipeInit
    <2> QED
      BY <1>1, <1>4, <2>1 DEF PiSlots
  <1>6. PiAhead
    <2>1. PendingFlushes = 0
      BY <1>4, FlushesCounted
    <2> QED
      BY <1>1, <1>4, <2>1, Nats DEF PiAhead
  <1>7. PiPlaces
    BY <1>1 DEF PiPlaces, Injective, Buffered, Dispatched, Occurs
  <1>8. PiTodo /\ PiKept
    <2>1. PiTodo /\ Resolved
      BY <1>1 DEF PiTodo, Resolved
    <2>2. Kept
      BY ChunkIsPair DEF Kept
    <2> QED
      BY <2>1, <2>2 DEF PiKept
  <1>9. PiFates
    BY DEF PiFates, Settled
  <1> QED
    BY <1>2, <1>3, <1>5, <1>6, <1>7, <1>8, <1>9 DEF PiInv

LEMMA PiNextInv == PiInv /\ [PipeNext]_pipeVars => PiInv'
  <1> SUFFICES ASSUME PiInv, [PipeNext]_pipeVars  PROVE PiInv'
    OBVIOUS
  <1>1. CASE UNCHANGED pipeVars
    BY <1>1 DEF pipeVars, PiInv, PiTypes, PiMain, PiSlots, PiAhead, PiPlaces, PiTodo, PiKept,
                PiFates, Quarantined, PendingFlushes, PendingOf, Persisting, Buffered, Dispatched,
                Pushed, Ahead, Redone, Broken, Kept, Resolved, Unresolved, WellFormed
  <1>2. ASSUME NEW mode \in {"full", "incremental"}, StartPass(mode)  PROVE PiInv'
    BY <1>2, StartKeeps
  <1>3. ASSUME LoopStep  PROVE PiInv'
    BY <1>3, EndsKeeps, SkipKeeps, OpenKeeps, PushKeeps, BufferedKeeps, RoomKeeps, OldestKeeps,
       InlineKeeps, DrainKeeps, DrainBucketKeeps, StampKeeps, UnwindKeeps DEF LoopStep
  <1>4. ASSUME NEW k \in DOMAIN batches, BatchStep(k)  PROVE PiInv'
    BY <1>4, TakeKeeps, EmbedOkKeeps, EmbedFailsKeeps, GiveUpKeeps, DisposedKeeps, AcquireKeeps,
       ResolveKeeps, CommitKeeps DEF BatchStep
  <1> QED
    BY <1>1, <1>2, <1>3, <1>4, UnloadKeeps DEF PipeNext

LEMMA PassInvariant == PipeSpec => []PiInv
  BY PiInitInv, PiNextInv, PTL DEF PipeSpec

(***************************************************************************)
(* The slots for unwritten batches are held by the batches that write, on  *)
(* every path out of a write, and no more flushes are unsettled than the   *)
(* loop may run ahead: for any number of files, chunks and slots.          *)
(***************************************************************************)
THEOREM SlotsAreHeld == PipeSpec => []PipeSlots
  <1>1. PiInv => PipeSlots
    BY DEF PiInv, PiTypes, PiSlots, PiAhead, PipeSlots, Persisting, FileStates
  <1> QED
    BY <1>1, PassInvariant, PTL

(***************************************************************************)
(* Every chunk has one fate: a file is committed when all its chunks have  *)
(* a vector, and a pass that ends well has settled every file it started.  *)
(***************************************************************************)
THEOREM FatesAreKept == PipeSpec => []PipeAccounted
  <1>1. ASSUME PiInv, main = "done", ~pipeDisposed
        PROVE  buffer = <<>> /\ \A f \in PassFiles : fileState[f] # "open"
    <2>1. buffer = <<>> /\ ~persistFatal /\ \A k \in DOMAIN batches : batches[k].phase = "done"
      BY <1>1 DEF PiInv, PiMain
    <2>2. Kept /\ Resolved
      BY <1>1, <2>1 DEF PiInv, PiKept, Broken
    <2>3. ASSUME NEW f \in PassFiles, fileState[f] = "open"  PROVE FALSE
      <3>1. f <= nextFile /\ f # nextFile /\ Unresolved(vec, f) # {}
        BY <1>1, <2>3 DEF PiInv, PiFates, InFile
      <3>2. PICK c \in PassChunks : c[1] = f /\ vec[c] = "none"
        BY <3>1 DEF Unresolved
      <3>3. Pushed(c)
        BY <1>1, <3>1, <3>2, Nats DEF Pushed, PiInv, PiTypes, PassFiles
      <3>4. Dispatched(c)
        <4>1. ~Buffered(c)
          BY <2>1, EmptySeq DEF Buffered, Occurs
        <4> QED
          BY <2>2, <2>3, <3>2, <3>3, <4>1 DEF Kept
      <3>5. PICK k \in DOMAIN batches : \E i \in DOMAIN batches[k].chunks : batches[k].chunks[i] = c
        BY <3>4 DEF Dispatched, Has, Occurs
      <3> QED
        BY <2>1, <2>2, <3>2, <3>5 DEF Resolved
    <2> QED
      BY <2>1, <2>3
  <1>2. PiInv => PipeAccounted
    <2> SUFFICES ASSUME PiInv  PROVE PipeAccounted
      OBVIOUS
    <2>1. PiFates /\ PiMain
      BY DEF PiInv
    <2>2. \A f \in PassFiles :
            /\ fileState[f] = "committed" => \A c \in PassChunks : c[1] = f => vec[c] = "ok"
            /\ fileState[f] \in {"quarantined", "unwound", "kept"} =>
                 \E c \in PassChunks : c[1] = f /\ vec[c] = "null"
            /\ fileState[f] \in {"committed", "quarantined"} => Unresolved(vec, f) = {}
      BY <2>1 DEF PiFates, Settled
    <2>3. main = "done" =>
            /\ Cardinality(Quarantined) <= QuarantineCap
            /\ \A k \in DOMAIN batches : batches[k].phase = "done"
      BY <2>1 DEF PiMain
    <2> QED
      BY <1>1, <2>2, <2>3 DEF PipeAccounted
  <1> QED
    BY <1>2, PassInvariant, PTL

-----------------------------------------------------------------------------
(* The rows of the frame and of BM25 (RowSpaces).                           *)

FrameRows == [id : RsIds, meta : Metas, valid : BOOLEAN]
LiveRows(rows) == {i \in DOMAIN rows : rows[i].valid}

\* One numbering: a live row of the frame is the row of its id in the index,
\* and the row of a live id is a live row with that id.
Joined(rows, row, count) ==
  /\ rows \in Seq(FrameRows) /\ row \in [RsIds -> Nat] /\ count = Len(rows)
  /\ \A i \in DOMAIN rows : rows[i].valid => row[rows[i].id] = i
  /\ \A id \in RsIds : row[id] # 0 =>
       row[id] \in DOMAIN rows /\ rows[row[id]].valid /\ rows[row[id]].id = id

\* The frame is the one a rebuild from the store S would give, its order aside.
Shows(rows, S) ==
  /\ \A i \in DOMAIN rows : rows[i].valid => rows[i].id \in Stored(S) /\ rows[i].meta = S[rows[i].id]
  /\ \A id \in Stored(S) : \E i \in DOMAIN rows : rows[i].valid /\ rows[i].id = id

LEMMA FrameRowIs ==
  ASSUME NEW r \in FrameRows
  PROVE  r.id \in RsIds /\ r.meta \in Metas
  BY DEF FrameRows

LEMMA SetToSeqIs ==
  ASSUME NEW T, IsFiniteSet(T)
  PROVE  /\ SetToSeq(T) \in Seq(T)
         /\ \A i, j \in DOMAIN SetToSeq(T) : SetToSeq(T)[i] = SetToSeq(T)[j] => i = j
         /\ \A x \in T : \E i \in DOMAIN SetToSeq(T) : SetToSeq(T)[i] = x
<1> DEFINE n == Cardinality(T)
<1>1. n \in Nat /\ ExistsBijection(1 .. n, T)
  BY FS_CardinalityType
<1>2. \E f \in [1 .. n -> T] : IsInjective(f)
  BY <1>1 DEF ExistsBijection, Bijection, Injection
<1>3. SetToSeq(T) \in [1 .. n -> T] /\ IsInjective(SetToSeq(T))
  BY <1>2 DEF SetToSeq
<1> DEFINE s == SetToSeq(T)
<1>4. s \in Injection(1 .. n, T)
  BY <1>3 DEF Injection
<1>5. Cardinality(1 .. n) = n
  BY <1>1, FS_Interval
<1> HIDE DEF s, n
<1>6. s \in Surjection(1 .. n, T)
  BY <1>4, <1>5, FS_Injection DEF n
<1>7. s \in Seq(T) /\ DOMAIN s = 1 .. n
  BY <1>1, <1>3 DEF s
<1>8. \A i, j \in DOMAIN s : s[i] = s[j] => i = j
  BY <1>3 DEF IsInjective, s
<1>9. \A x \in T : \E i \in DOMAIN s : s[i] = x
  BY <1>6, <1>7 DEF Surjection
<1> QED
  BY <1>7, <1>8, <1>9 DEF s

LEMMA StoredMeta ==
  ASSUME NEW S \in NewMetas, NEW id \in Stored(S)
  PROVE  id \in RsIds /\ S[id] \in Metas
  BY DEF NewMetas, Stored

LEMMA RowSeqIs ==
  ASSUME NEW S \in NewMetas, NEW ids \in SUBSET Stored(S)
  PROVE  /\ RowSeq(ids, S) \in Seq(FrameRows)
         /\ \A i \in DOMAIN RowSeq(ids, S) :
              /\ RowSeq(ids, S)[i].valid /\ RowSeq(ids, S)[i].id \in ids
              /\ RowSeq(ids, S)[i].meta = S[RowSeq(ids, S)[i].id]
         /\ \A i, j \in DOMAIN RowSeq(ids, S) : RowSeq(ids, S)[i].id = RowSeq(ids, S)[j].id => i = j
         /\ \A id \in ids : \E i \in DOMAIN RowSeq(ids, S) : RowSeq(ids, S)[i].id = id
<1> DEFINE T == {Row(id, S[id]) : id \in ids}
           f == [id \in ids |-> Row(id, S[id])]
           s == SetToSeq(T)
<1>1. IsFiniteSet(ids)
  <2>1. ids \in SUBSET RsIds
    BY DEF Stored
  <2> QED
    BY <2>1, FS_Subset, RsAssumption
<1>2. f \in Surjection(ids, T)
  BY DEF Surjection
<1>3. IsFiniteSet(T)
  <2> HIDE DEF f, T
  <2> QED
    BY <1>1, <1>2, FS_Surjection
<1>4. \A r \in T : r \in FrameRows /\ r.valid /\ r.id \in ids /\ r.meta = S[r.id] /\ r = Row(r.id, S[r.id])
  <2> SUFFICES ASSUME NEW id \in ids
               PROVE  LET r == Row(id, S[id]) IN
                      r \in FrameRows /\ r.valid /\ r.id \in ids /\ r.meta = S[r.id] /\ r = Row(r.id, S[r.id])
    OBVIOUS
  <2>1. id \in RsIds /\ S[id] \in Metas
    BY StoredMeta
  <2>2. Row(id, S[id]) \in FrameRows
    BY <2>1 DEF FrameRows, Row
  <2>3. Row(id, S[id]).id = id /\ Row(id, S[id]).meta = S[id] /\ Row(id, S[id]).valid
    BY DEF Row
  <2> QED
    BY <2>2, <2>3
<1>5. RowSeq(ids, S) = s
  BY DEF RowSeq
<1>6. ASSUME NEW id \in ids  PROVE \E r \in T : r.id = id
  <2>1. Row(id, S[id]) \in T /\ Row(id, S[id]).id = id
    BY DEF Row
  <2> QED
    BY <2>1
<1> HIDE DEF f, T
<1>7. /\ s \in Seq(T)
      /\ \A i, j \in DOMAIN s : s[i] = s[j] => i = j
      /\ \A x \in T : \E i \in DOMAIN s : s[i] = x
  BY <1>3, SetToSeqIs
<1> HIDE DEF s
<1>8. \A i \in DOMAIN s : s[i] \in T
  BY <1>7
<1>9. s \in Seq(FrameRows)
  BY <1>4, <1>7
<1>10. \A i, j \in DOMAIN s : s[i].id = s[j].id => i = j
  BY <1>4, <1>7, <1>8
<1>11. \A id \in ids : \E i \in DOMAIN s : s[i].id = id
  BY <1>6, <1>7
<1>12. \A i \in DOMAIN s : s[i].valid /\ s[i].id \in ids /\ s[i].meta = S[s[i].id]
  BY <1>4, <1>8
<1> QED
  BY <1>5, <1>9, <1>10, <1>11, <1>12

\* What a rebuild and a cold start make of the store.
LEMMA RebuiltIs ==
  ASSUME NEW S \in NewMetas
  PROVE  /\ RowSeq(Stored(S), S) \in Seq(FrameRows)
         /\ Joined(RowSeq(Stored(S), S), RowMap(RowSeq(Stored(S), S)), Len(RowSeq(Stored(S), S)))
         /\ Shows(RowSeq(Stored(S), S), S)
<1> DEFINE r == RowSeq(Stored(S), S)
<1>1. /\ r \in Seq(FrameRows)
      /\ \A i \in DOMAIN r : r[i].valid /\ r[i].id \in Stored(S) /\ r[i].meta = S[r[i].id]
      /\ \A i, j \in DOMAIN r : r[i].id = r[j].id => i = j
      /\ \A id \in Stored(S) : \E i \in DOMAIN r : r[i].id = id
  BY RowSeqIs
<1> HIDE DEF r
<1>2. \A i \in DOMAIN r : i \in Nat \ {0}
  BY <1>1
<1>3. \A id \in RsIds :
        \/ RowMap(r)[id] \in DOMAIN r /\ r[RowMap(r)[id]].id = id
        \/ RowMap(r)[id] = 0 /\ ~ \E i \in DOMAIN r : r[i].id = id
  BY DEF RowMap
<1>4. RowMap(r) \in [RsIds -> Nat]
  <2>1. DOMAIN RowMap(r) = RsIds /\ RowMap(r) = [id \in RsIds |-> RowMap(r)[id]]
    BY DEF RowMap
  <2>2. \A id \in RsIds : RowMap(r)[id] \in Nat
    BY <1>2, <1>3
  <2> QED
    BY <2>1, <2>2
<1>5. \A i \in DOMAIN r : r[i].id \in RsIds /\ RowMap(r)[r[i].id] = i
  <2>1. \A i \in DOMAIN r : r[i].id \in RsIds
    BY <1>1 DEF Stored
  <2> QED
    BY <2>1, <1>1, <1>3
<1>6. \A id \in RsIds : RowMap(r)[id] # 0 => RowMap(r)[id] \in DOMAIN r /\ r[RowMap(r)[id]].valid /\ r[RowMap(r)[id]].id = id
  BY <1>1, <1>3
<1>7. Joined(r, RowMap(r), Len(r))
  BY <1>1, <1>4, <1>5, <1>6 DEF Joined
<1>8. Shows(r, S)
  BY <1>1 DEF Shows
<1> QED
  BY <1>1, <1>7, <1>8 DEF r

LEMMA LiveCount ==
  ASSUME NEW rows \in Seq(FrameRows)
  PROVE  /\ IsFiniteSet(LiveRows(rows))
         /\ Cardinality(LiveRows(rows)) = Len(rows) - Cardinality(Tombstones(rows))
<1>1. Len(rows) \in Nat /\ DOMAIN rows = 1 .. Len(rows)
  OBVIOUS
<1>2. IsFiniteSet(1 .. Len(rows)) /\ Cardinality(1 .. Len(rows)) = Len(rows)
  BY <1>1, FS_Interval
<1>3. LiveRows(rows) = (1 .. Len(rows)) \ Tombstones(rows)
  BY <1>1 DEF LiveRows, Tombstones
<1>4. (1 .. Len(rows)) \cap Tombstones(rows) = Tombstones(rows)
  BY <1>1 DEF Tombstones
<1> QED
  BY <1>2, <1>3, <1>4, FS_Difference

\* The live rows have as many ids as they are.
LEMMA IdsOfLive ==
  ASSUME NEW rows \in Seq(FrameRows), NEW row,
         \A i \in DOMAIN rows : rows[i].valid => row[rows[i].id] = i
  PROVE  /\ IsFiniteSet({rows[i].id : i \in LiveRows(rows)})
         /\ Cardinality({rows[i].id : i \in LiveRows(rows)}) = Cardinality(LiveRows(rows))
<1> DEFINE V == LiveRows(rows)
           T == {rows[i].id : i \in V}
           f == [i \in V |-> rows[i].id]
<1>1. \A i, j \in V : f[i] = f[j] => i = j
  BY DEF LiveRows
<1>2. f \in Injection(V, T) /\ f \in Surjection(V, T)
  BY <1>1 DEF Injection, IsInjective, Surjection
<1> HIDE DEF f, V, T
<1>3. IsFiniteSet(V)
  BY LiveCount DEF V
<1>4. IsFiniteSet(T) /\ Cardinality(T) = Cardinality(V)
  BY <1>2, <1>3, FS_Surjection
<1> QED
  BY <1>4 DEF T, V

LEMMA CoherentIsJoined ==
  ASSUME NEW rows \in Seq(FrameRows), NEW bm, bm.row \in [RsIds -> Nat]
  PROVE  Coherent(rows, bm) <=> Joined(rows, bm.row, bm.count)
<1> DEFINE V == LiveRows(rows)
           T == {rows[i].id : i \in V}
           L == {id \in RsIds : IsLive(bm, id)}
<1>1. IsFiniteSet(V) /\ Cardinality(V) = Len(rows) - Cardinality(Tombstones(rows))
  BY LiveCount
<1>2. IsFiniteSet(L)
  BY FS_Subset, RsAssumption
<1>3. \A i \in DOMAIN rows : i # 0 /\ rows[i].id \in RsIds
  BY FrameRowIs
<1>4. ASSUME \A i \in DOMAIN rows : rows[i].valid => bm.row[rows[i].id] = i
      PROVE  T \subseteq L /\ Cardinality(T) = Cardinality(V)
  <2>1. T \subseteq L
    BY <1>3, <1>4 DEF LiveRows, IsLive
  <2>2. Cardinality(T) = Cardinality(V)
    BY <1>4, IdsOfLive
  <2> QED
    BY <2>1, <2>2
<1>5. ASSUME Coherent(rows, bm)  PROVE Joined(rows, bm.row, bm.count)
  <2>1. /\ \A i \in DOMAIN rows : rows[i].valid => bm.row[rows[i].id] = i
        /\ Cardinality(L) = Cardinality(V) /\ bm.count = Len(rows)
    BY <1>1, <1>5 DEF Coherent
  <2>2. T = L
    <3>1. T \in SUBSET L /\ Cardinality(L) = Cardinality(T)
      BY <1>4, <2>1
    <3> HIDE DEF T, L
    <3> QED
      BY <3>1, <1>2, FS_Subset
  <2>3. ASSUME NEW id \in RsIds, bm.row[id] # 0
        PROVE  bm.row[id] \in DOMAIN rows /\ rows[bm.row[id]].valid /\ rows[bm.row[id]].id = id
    <3>1. PICK i \in V : rows[i].id = id
      BY <2>2, <2>3 DEF IsLive
    <3>2. i \in DOMAIN rows /\ rows[i].valid /\ bm.row[id] = i
      BY <3>1, <2>1 DEF LiveRows
    <3> QED
      BY <3>1, <3>2
  <2> QED
    BY <2>1, <2>3 DEF Joined
<1>6. ASSUME Joined(rows, bm.row, bm.count)  PROVE Coherent(rows, bm)
  <2>1. \A i \in DOMAIN rows : rows[i].valid => bm.row[rows[i].id] = i
    BY <1>6 DEF Joined
  <2>2. L \subseteq T
    BY <1>6 DEF Joined, LiveRows, IsLive
  <2>3. L = T /\ Cardinality(T) = Cardinality(V)
    BY <1>4, <2>1, <2>2
  <2> QED
    BY <1>1, <1>6, <2>1, <2>3 DEF Coherent, Joined
<1> QED
  BY <1>5, <1>6
-----------------------------------------------------------------------------
\* The rows as a patch leaves them.
LEMMA RemoveExactIs ==
  ASSUME NEW rows, NEW bm, NEW gone \in SUBSET RsIds, bm.row \in [RsIds -> Nat]
  PROVE  /\ RemoveExact(rows, bm, gone).count = bm.count
         /\ RemoveExact(rows, bm, gone).row \in [RsIds -> Nat]
         /\ \A id \in RsIds : RemoveExact(rows, bm, gone).row[id] = IF id \in gone THEN 0 ELSE bm.row[id]
         /\ (~bm.torn /\ \A id \in gone : ~Mismatch(rows, bm, id)) => ~RemoveExact(rows, bm, gone).torn
<1> DEFINE r == RemoveExact(rows, bm, gone)
<1>1. r.count = bm.count /\ r.row = [id \in RsIds |-> IF id \in gone THEN 0 ELSE bm.row[id]]
  BY DEF RemoveExact
<1>2. (~bm.torn /\ \A id \in gone : ~Mismatch(rows, bm, id)) => ~r.torn
  BY DEF RemoveExact
<1> HIDE DEF r
<1>3. r.row \in [RsIds -> Nat]
  BY <1>1
<1>4. \A id \in RsIds : r.row[id] = IF id \in gone THEN 0 ELSE bm.row[id]
  BY <1>1
<1> QED
  BY <1>1, <1>2, <1>3, <1>4 DEF r

LEMMA AddIs ==
  ASSUME NEW bm, bm.row \in [RsIds -> Nat], bm.count \in Nat,
         NEW adds \in Seq(FrameRows),
         \A i, j \in DOMAIN adds : adds[i].id = adds[j].id => i = j
  PROVE  /\ Add(bm, adds).count = bm.count + Len(adds)
         /\ Add(bm, adds).row \in [RsIds -> Nat]
         /\ \A k \in DOMAIN adds : Add(bm, adds).row[adds[k].id] = bm.count + k
         /\ \A id \in RsIds : (\A k \in DOMAIN adds : adds[k].id # id) => Add(bm, adds).row[id] = bm.row[id]
         /\ Add(bm, adds).torn = bm.torn
<1> DEFINE r == Add(bm, adds)
           new == {adds[k].id : k \in DOMAIN adds}
           at(id) == CHOOSE k \in DOMAIN adds : adds[k].id = id
<1>1. /\ r.count = bm.count + Len(adds)
      /\ r.row = [id \in RsIds |-> IF id \in new THEN bm.count + at(id) ELSE bm.row[id]]
      /\ r.torn = bm.torn
  BY DEF Add
<1>2. \A k \in DOMAIN adds : k \in Nat /\ adds[k].id \in new /\ at(adds[k].id) = k /\ adds[k].id \in RsIds
  BY FrameRowIs
<1>3. \A id \in new : at(id) \in Nat
  BY <1>2
<1> HIDE DEF r, at
<1>4. r.row \in [RsIds -> Nat]
  <2>1. \A id \in RsIds : (IF id \in new THEN bm.count + at(id) ELSE bm.row[id]) \in Nat
    <3>1. \A id \in new : bm.count + at(id) \in Nat
      BY <1>3
    <3> QED
      BY <3>1
  <2> QED
    BY <1>1, <2>1
<1>5. \A k \in DOMAIN adds : r.row[adds[k].id] = bm.count + k
  BY <1>1, <1>2
<1>6. \A id \in RsIds : (\A k \in DOMAIN adds : adds[k].id # id) => r.row[id] = bm.row[id]
  BY <1>1
<1> QED
  BY <1>1, <1>4, <1>5, <1>6 DEF r
LEMMA RowWith ==
  ASSUME NEW r \in FrameRows, NEW m \in Metas
  PROVE  /\ [r EXCEPT !.valid = FALSE] \in FrameRows
         /\ [r EXCEPT !.valid = FALSE].id = r.id /\ [r EXCEPT !.valid = FALSE].meta = r.meta
         /\ ~[r EXCEPT !.valid = FALSE].valid
         /\ [r EXCEPT !.meta = m] \in FrameRows
         /\ [r EXCEPT !.meta = m].id = r.id /\ [r EXCEPT !.meta = m].meta = m
         /\ [r EXCEPT !.meta = m].valid = r.valid
  BY DEF FrameRows

LEMMA TombstonesAre ==
  ASSUME NEW rows \in Seq(FrameRows), NEW holes
  PROVE  /\ TombstoneFrameRows(rows, holes) \in Seq(FrameRows)
         /\ Len(TombstoneFrameRows(rows, holes)) = Len(rows)
         /\ \A i \in DOMAIN rows :
              /\ TombstoneFrameRows(rows, holes)[i].id = rows[i].id
              /\ TombstoneFrameRows(rows, holes)[i].meta = rows[i].meta
              /\ TombstoneFrameRows(rows, holes)[i].valid <=> rows[i].valid /\ i \notin holes
<1> DEFINE t == TombstoneFrameRows(rows, holes)
<1>1. t = [i \in DOMAIN rows |-> IF i \in holes THEN [rows[i] EXCEPT !.valid = FALSE] ELSE rows[i]]
  BY DEF TombstoneFrameRows
<1>2. DOMAIN rows = 1 .. Len(rows) /\ Len(rows) \in Nat /\ \A i \in DOMAIN rows : rows[i] \in FrameRows
  OBVIOUS
<1> HIDE DEF t
<1>3. ASSUME NEW i \in DOMAIN rows
      PROVE  /\ t[i] \in FrameRows
             /\ t[i].id = rows[i].id /\ t[i].meta = rows[i].meta
             /\ t[i].valid <=> rows[i].valid /\ i \notin holes
  <2>1. rows[i].meta \in Metas
    BY <1>2, FrameRowIs
  <2>2. CASE i \in holes
    <3>1. t[i] = [rows[i] EXCEPT !.valid = FALSE]
      BY <1>1, <2>2
    <3> DEFINE x == [rows[i] EXCEPT !.valid = FALSE]
    <3>2. x \in FrameRows /\ x.id = rows[i].id /\ x.meta = rows[i].meta /\ ~x.valid
      BY <2>1, <1>2, RowWith
    <3> HIDE DEF x
    <3> QED
      BY <2>2, <3>1, <3>2 DEF x
  <2>3. CASE i \notin holes
    <3>1. t[i] = rows[i]
      BY <1>1, <2>3
    <3> QED
      BY <2>3, <3>1, <1>2
  <2> QED
    BY <2>2, <2>3
<1>4. DOMAIN t = 1 .. Len(rows) /\ t = [i \in 1 .. Len(rows) |-> t[i]]
  BY <1>1, <1>2
<1>5. t \in Seq(FrameRows) /\ Len(t) = Len(rows)
  BY <1>2, <1>3, <1>4
<1> QED
  BY <1>3, <1>5 DEF t

\* t is rows with the meta of the patched rows swapped.
Swapped(rows, t, row, patches, S) ==
  /\ t \in Seq(FrameRows) /\ Len(t) = Len(rows)
  /\ \A i \in DOMAIN rows :
       /\ t[i].id = rows[i].id /\ (t[i].valid <=> rows[i].valid)
       /\ rows[i].id \in patches /\ row[rows[i].id] = i => t[i].meta = S[rows[i].id]
       /\ ~(rows[i].id \in patches /\ row[rows[i].id] = i) => t[i].meta = rows[i].meta

LEMMA SwapMetaIs ==
  ASSUME NEW rows \in Seq(FrameRows), NEW bm, NEW S \in NewMetas, NEW patches \in SUBSET Stored(S),
         NEW row, row = bm.row, NEW t, t = SwapMeta(rows, bm, patches, S)
  PROVE  Swapped(rows, t, row, patches, S)
<1> DEFINE hit(i) == rows[i].id \in patches /\ bm.row[rows[i].id] = i
<1>1. t = [i \in DOMAIN rows |-> IF hit(i) THEN [rows[i] EXCEPT !.meta = S[rows[i].id]] ELSE rows[i]]
  BY DEF SwapMeta
<1>2. DOMAIN rows = 1 .. Len(rows) /\ Len(rows) \in Nat /\ \A i \in DOMAIN rows : rows[i] \in FrameRows
  OBVIOUS
<1>3. ASSUME NEW i \in DOMAIN rows
      PROVE  /\ t[i] \in FrameRows
             /\ t[i].id = rows[i].id /\ (t[i].valid <=> rows[i].valid)
             /\ t[i].meta = IF hit(i) THEN S[rows[i].id] ELSE rows[i].meta
  <2>2. CASE hit(i)
    <3>1. t[i] = [rows[i] EXCEPT !.meta = S[rows[i].id]]
      BY <1>1, <2>2
    <3>2. S[rows[i].id] \in Metas
      BY <2>2, StoredMeta
    <3> DEFINE x == [rows[i] EXCEPT !.meta = S[rows[i].id]]
    <3>3. /\ x \in FrameRows /\ x.id = rows[i].id /\ x.meta = S[rows[i].id]
          /\ x.valid = rows[i].valid
      BY <3>2, <1>2, RowWith
    <3>4. t[i] = x
      BY <3>1
    <3> HIDE DEF hit, x
    <3> QED
      BY <2>2, <3>3, <3>4
  <2>3. CASE ~hit(i)
    <3>1. t[i] = rows[i]
      BY <1>1, <2>3
    <3> QED
      BY <2>3, <3>1, <1>2
  <2> QED
    BY <2>2, <2>3
<1> HIDE DEF hit
<1>4. DOMAIN t = 1 .. Len(rows) /\ t = [i \in 1 .. Len(rows) |-> t[i]]
  BY <1>1, <1>2
<1>5. t \in Seq(FrameRows) /\ Len(t) = Len(rows)
  BY <1>2, <1>3, <1>4
<1> QED
  BY <1>3, <1>5 DEF hit, Swapped

\* next and nbm are what a patch of rows and bm should give.
Patched(rows, bm, next, nbm, removed, added, patches, S) ==
  /\ next \in Seq(FrameRows) /\ nbm.row \in [RsIds -> Nat]
  /\ (~bm.torn /\ \A id \in Removals(bm, removed) : ~Mismatch(rows, bm, id)) => ~nbm.torn
  /\ \A i \in DOMAIN rows :
       /\ i \in DOMAIN next /\ next[i].id = rows[i].id
       /\ next[i].valid <=> rows[i].valid /\ rows[i].id \notin removed
       /\ next[i].valid /\ rows[i].id \in patches => next[i].meta = S[rows[i].id]
       /\ rows[i].id \notin patches => next[i].meta = rows[i].meta
  /\ \A i \in DOMAIN next \ DOMAIN rows :
       next[i].id \in added /\ next[i].meta = S[next[i].id]
  /\ \A id \in added : \E i \in DOMAIN next : next[i].valid /\ next[i].id = id

\* A patch of a good index: the rows of the ids that go are holes, the rows
\* that stay keep their number, and the ids that come are all there.
LEMMA PatchIs ==
  ASSUME NEW rows, NEW bm, Joined(rows, bm.row, bm.count), NEW S \in NewMetas,
         NEW removed \in SUBSET RsIds, NEW added \in SUBSET Stored(S), NEW patches \in SUBSET Stored(S),
         NEW next, next = Patch(rows, bm, removed, added, patches, S).rows,
         NEW nbm, nbm = Patch(rows, bm, removed, added, patches, S).bm
  PROVE  Patched(rows, bm, next, nbm, removed, added, patches, S)
<1> DEFINE gone  == Removals(bm, removed)
           bm1   == RemoveExact(rows, bm, gone)
           holes == {bm.row[id] : id \in gone}
           rows1 == TombstoneFrameRows(rows, holes)
           new   == FreshDeltaAdds(added, bm1)
           fresh == RowSeq(new, S)
           bm2   == Add(bm1, fresh)
           rows2 == AppendFrameRows(rows1, fresh)
           rows3 == SwapMeta(rows2, bm2, patches, S)
<1>0. next = rows3 /\ nbm = bm2
  BY DEF Patch
<1>1. /\ rows \in Seq(FrameRows) /\ Len(rows) \in Nat /\ DOMAIN rows = 1 .. Len(rows)
      /\ bm.row \in [RsIds -> Nat] /\ bm.count = Len(rows)
      /\ \A i \in DOMAIN rows : rows[i] \in FrameRows /\ rows[i].id \in RsIds
      /\ \A i \in DOMAIN rows : rows[i].valid => bm.row[rows[i].id] = i
      /\ \A id \in RsIds : bm.row[id] # 0 =>
           bm.row[id] \in DOMAIN rows /\ rows[bm.row[id]].valid /\ rows[bm.row[id]].id = id
  BY FrameRowIs DEF Joined
<1>2. gone \in SUBSET RsIds /\ (\A id \in gone : id \in removed /\ bm.row[id] # 0)
      /\ (\A id \in removed : bm.row[id] # 0 => id \in gone)
  BY DEF Removals, IsLive
<1> HIDE DEF gone
<1>3. /\ bm1.count = Len(rows) /\ bm1.row \in [RsIds -> Nat]
      /\ \A id \in RsIds : bm1.row[id] = IF id \in gone THEN 0 ELSE bm.row[id]
      /\ (~bm.torn /\ \A id \in gone : ~Mismatch(rows, bm, id)) => ~bm1.torn
  BY <1>1, <1>2, RemoveExactIs
<1> HIDE DEF bm1
<1>4. /\ rows1 \in Seq(FrameRows) /\ Len(rows1) = Len(rows)
      /\ \A i \in DOMAIN rows :
           /\ rows1[i].id = rows[i].id /\ rows1[i].meta = rows[i].meta
           /\ rows1[i].valid <=> rows[i].valid /\ i \notin holes
  BY <1>1, TombstonesAre
<1>5. \A i \in DOMAIN rows : rows[i].valid => (i \in holes <=> rows[i].id \in removed)
  BY <1>1, <1>2
<1> HIDE DEF rows1, holes
<1>6. new \in SUBSET Stored(S) /\ new \in SUBSET RsIds
      /\ (\A id \in new : id \in added /\ bm1.row[id] = 0)
      /\ (\A id \in added : id \in new \/ bm1.row[id] # 0)
  BY DEF FreshDeltaAdds, IsLive, Stored
<1> HIDE DEF new
<1>7. /\ fresh \in Seq(FrameRows)
      /\ \A k \in DOMAIN fresh :
           fresh[k].valid /\ fresh[k].id \in new /\ fresh[k].meta = S[fresh[k].id]
      /\ \A j, k \in DOMAIN fresh : fresh[j].id = fresh[k].id => j = k
      /\ \A id \in new : \E k \in DOMAIN fresh : fresh[k].id = id
  BY <1>6, RowSeqIs
<1> HIDE DEF fresh
<1>8. /\ bm2.row \in [RsIds -> Nat] /\ bm2.torn = bm1.torn
      /\ \A k \in DOMAIN fresh : bm2.row[fresh[k].id] = Len(rows) + k
      /\ \A id \in RsIds : (\A k \in DOMAIN fresh : fresh[k].id # id) => bm2.row[id] = bm1.row[id]
  <2>1. bm1.row \in [RsIds -> Nat] /\ bm1.count \in Nat /\ fresh \in Seq(FrameRows)
        /\ \A i, j \in DOMAIN fresh : fresh[i].id = fresh[j].id => i = j
    BY <1>1, <1>3, <1>7
  <2>2. /\ bm2.row \in [RsIds -> Nat] /\ bm2.torn = bm1.torn
        /\ \A k \in DOMAIN fresh : bm2.row[fresh[k].id] = bm1.count + k
        /\ \A id \in RsIds : (\A k \in DOMAIN fresh : fresh[k].id # id) => bm2.row[id] = bm1.row[id]
    BY <2>1, AddIs
  <2> HIDE DEF bm2
  <2> QED
    BY <2>2, <1>3
<1> HIDE DEF bm2
<1>9. \A id \in RsIds : id \notin new => bm2.row[id] = bm1.row[id]
  BY <1>7, <1>8
<1>10. /\ rows2 \in Seq(FrameRows) /\ Len(rows2) = Len(rows) + Len(fresh)
       /\ \A i \in 1 .. Len(rows) : rows2[i] = rows1[i]
       /\ \A k \in DOMAIN fresh : rows2[Len(rows) + k] = fresh[k] /\ Len(rows) + k \in DOMAIN rows2
       /\ \A i \in DOMAIN rows2 : i \in 1 .. Len(rows) \/ \E k \in DOMAIN fresh : i = Len(rows) + k
  <2>1. rows2 = rows1 \o fresh
    BY DEF AppendFrameRows
  <2>2. /\ rows2 \in Seq(FrameRows) /\ Len(rows2) = Len(rows) + Len(fresh)
        /\ \A i \in 1 .. Len(rows) + Len(fresh) :
             rows2[i] = IF i <= Len(rows) THEN rows1[i] ELSE fresh[i - Len(rows)]
    <3>1. rows1 \in Seq(FrameRows) /\ fresh \in Seq(FrameRows) /\ Len(rows1) = Len(rows)
      BY <1>4, <1>7
    <3>2. /\ rows1 \o fresh \in Seq(FrameRows) /\ Len(rows1 \o fresh) = Len(rows1) + Len(fresh)
          /\ \A i \in 1 .. Len(rows1) + Len(fresh) :
               (rows1 \o fresh)[i] = IF i <= Len(rows1) THEN rows1[i] ELSE fresh[i - Len(rows1)]
      BY <3>1, ConcatProperties
    <3> HIDE DEF rows2
    <3> QED
      BY <2>1, <3>1, <3>2
  <2> HIDE DEF rows2
  <2>3. Len(fresh) \in Nat /\ DOMAIN fresh = 1 .. Len(fresh) /\ DOMAIN rows2 = 1 .. Len(rows) + Len(fresh)
    BY <1>7, <2>2
  <2>4. \A i \in 1 .. Len(rows) : rows2[i] = rows1[i]
    BY <1>1, <2>2, <2>3
  <2>5. \A k \in 1 .. Len(fresh) : rows2[Len(rows) + k] = fresh[k] /\ Len(rows) + k \in DOMAIN rows2
    <3> SUFFICES ASSUME NEW k \in 1 .. Len(fresh)
                 PROVE  rows2[Len(rows) + k] = fresh[k] /\ Len(rows) + k \in DOMAIN rows2
      OBVIOUS
    <3>1. /\ Len(rows) + k \in 1 .. Len(rows) + Len(fresh) /\ ~(Len(rows) + k <= Len(rows))
          /\ (Len(rows) + k) - Len(rows) = k
      BY <1>1, <2>3
    <3>2. rows2[Len(rows) + k] = fresh[(Len(rows) + k) - Len(rows)]
      BY <2>2, <3>1
    <3> QED
      BY <2>3, <3>1, <3>2
  <2>6. \A i \in DOMAIN rows2 : i \in 1 .. Len(rows) \/ \E k \in DOMAIN fresh : i = Len(rows) + k
    <3> SUFFICES ASSUME NEW i \in 1 .. Len(rows) + Len(fresh), ~(i \in 1 .. Len(rows))
                 PROVE  \E k \in DOMAIN fresh : i = Len(rows) + k
      BY <2>3
    <3>1. i - Len(rows) \in 1 .. Len(fresh) /\ i = Len(rows) + (i - Len(rows))
      BY <1>1, <2>3
    <3> QED
      BY <2>3, <3>1
  <2> QED
    BY <2>2, <2>3, <2>4, <2>5, <2>6
<1> HIDE DEF rows2
<1>11. /\ rows3 \in Seq(FrameRows) /\ Len(rows3) = Len(rows2)
       /\ \A i \in DOMAIN rows2 :
            /\ rows3[i].id = rows2[i].id /\ (rows3[i].valid <=> rows2[i].valid)
            /\ rows2[i].id \in patches /\ bm2.row[rows2[i].id] = i => rows3[i].meta = S[rows2[i].id]
            /\ ~(rows2[i].id \in patches /\ bm2.row[rows2[i].id] = i) => rows3[i].meta = rows2[i].meta
  <2>1. rows2 \in Seq(FrameRows)
    BY <1>10
  <2> HIDE DEF rows3
  <2> DEFINE row2 == bm2.row
  <2>2. rows3 = SwapMeta(rows2, bm2, patches, S) /\ row2 = bm2.row
    BY DEF rows3
  <2> HIDE DEF row2
  <2>3. patches \in SUBSET Stored(S) /\ S \in NewMetas
    OBVIOUS
  <2>4. Swapped(rows2, rows3, row2, patches, S)
    BY <2>1, <2>2, <2>3, SwapMetaIs
  <2> QED
    BY <2>4 DEF row2, Swapped
<1> HIDE DEF rows3
<1>12. DOMAIN rows3 = DOMAIN rows2
  BY <1>10, <1>11
<1>13. ASSUME NEW i \in DOMAIN rows
       PROVE  /\ i \in DOMAIN rows3 /\ rows3[i].id = rows[i].id
              /\ rows3[i].valid <=> rows[i].valid /\ rows[i].id \notin removed
              /\ rows3[i].valid /\ rows[i].id \in patches => rows3[i].meta = S[rows[i].id]
              /\ rows[i].id \notin patches => rows3[i].meta = rows[i].meta
  <2>1. i \in DOMAIN rows2 /\ rows2[i] = rows1[i]
    BY <1>1, <1>10
  <2>2. rows3[i].id = rows[i].id /\ (rows3[i].valid <=> rows[i].valid /\ i \notin holes)
    BY <2>1, <1>4, <1>11
  <2>3. rows3[i].valid <=> rows[i].valid /\ rows[i].id \notin removed
    BY <2>2, <1>5
  <2>4. ASSUME rows3[i].valid  PROVE bm2.row[rows[i].id] = i
    <3>1. rows[i].valid /\ rows[i].id \notin removed /\ rows[i].id \in RsIds /\ i # 0
      BY <2>3, <2>4, <1>1
    <3>2. bm1.row[rows[i].id] = i
      BY <3>1, <1>1, <1>2, <1>3
    <3> QED
      BY <3>1, <3>2, <1>6, <1>9
  <2> QED
    BY <2>1, <2>2, <2>3, <2>4, <1>4, <1>11, <1>12
<1>14. ASSUME NEW i \in DOMAIN rows3 \ DOMAIN rows
       PROVE  rows3[i].id \in added /\ rows3[i].meta = S[rows3[i].id]
  <2>0. \A j \in DOMAIN rows2 : rows2[j].meta = S[rows2[j].id] => rows3[j].meta = S[rows3[j].id]
    BY <1>11
  <2>1. PICK k \in DOMAIN fresh : i = Len(rows) + k
    BY <1>1, <1>10, <1>12
  <2>2. rows2[i] = fresh[k] /\ i \in DOMAIN rows2
    BY <2>1, <1>10
  <2> QED
    BY <2>2, <1>6, <1>7, <1>11
<1>15. ASSUME NEW id \in added
       PROVE  \E i \in DOMAIN rows3 : rows3[i].valid /\ rows3[i].id = id
  <2>1. CASE id \in new
    <3>1. PICK k \in DOMAIN fresh : fresh[k].id = id
      BY <2>1, <1>7
    <3>2. rows2[Len(rows) + k] = fresh[k] /\ Len(rows) + k \in DOMAIN rows2
      BY <1>10
    <3> QED
      BY <3>1, <3>2, <1>7, <1>11, <1>12
  <2>2. CASE bm1.row[id] # 0
    <3>1. id \in RsIds /\ id \notin gone /\ bm.row[id] # 0
      BY <2>2, <1>3 DEF Stored
    <3>2. id \notin removed
      BY <3>1, <1>2
    <3>3. bm.row[id] \in DOMAIN rows /\ rows[bm.row[id]].valid /\ rows[bm.row[id]].id = id
      BY <3>1, <1>1
    <3> QED
      BY <3>2, <3>3, <1>13
  <2> QED
    BY <2>1, <2>2, <1>6
<1> QED
  BY <1>0, <1>3, <1>8, <1>11, <1>13, <1>14, <1>15 DEF gone, Patched
-----------------------------------------------------------------------------
(* The inductive invariant of RowSpaces. *)

RsInv ==
  /\ rsStore \in NewMetas
  /\ Joined(rsFrame, rsBm.row, rsBm.count)
  /\ ~rsLost => Shows(rsFrame, rsStore)
  /\ ~rsBm.torn

LEMMA RebuiltKeeps ==
  ASSUME rsStore' \in NewMetas, rsLost' = FALSE, NEW post,
         rsFrame' = RowSeq(Stored(rsStore'), rsStore'), rsBm' = FromJSON(post, rsFrame')
  PROVE  RsInv'
<1>1. /\ rsFrame' \in Seq(FrameRows) /\ Joined(rsFrame', RowMap(rsFrame'), Len(rsFrame'))
      /\ Shows(rsFrame', rsStore')
  BY RebuiltIs
<1>2. rsBm'.row = RowMap(rsFrame') /\ rsBm'.count = Len(rsFrame') /\ ~rsBm'.torn
  BY DEF FromJSON
<1>3. Joined(rsFrame', rsBm'.row, rsBm'.count)
  BY <1>1, <1>2
<1>4. /\ rsStore' \in NewMetas /\ ~rsBm'.torn
      /\ ~rsLost' => Shows(rsFrame', rsStore')
  BY <1>1, <1>2
<1> QED
  BY <1>3, <1>4 DEF RsInv, Joined, Shows, Stored

LEMMA RsInvInit == RsInit => RsInv
<1> SUFFICES ASSUME RsInit  PROVE RsInv
  OBVIOUS
<1>1. rsStore \in NewMetas
  BY DEF RsInit, NewMetas, Metas
<1>2. /\ rsFrame \in Seq(FrameRows) /\ Joined(rsFrame, RowMap(rsFrame), Len(rsFrame))
      /\ Shows(rsFrame, rsStore)
  BY <1>1, RebuiltIs DEF RsInit
<1>3. rsBm.row = RowMap(rsFrame) /\ rsBm.count = Len(rsFrame) /\ ~rsBm.torn
  BY DEF RsInit, Fit, FromJSON
<1> QED
  BY <1>1, <1>2, <1>3 DEF RsInv

LEMMA DeltaKeeps ==
  ASSUME RsInv, NEW S \in NewMetas, NEW again \in SUBSET Stored(S), NEW bodies \in BOOLEAN,
         Delta(S, again, bodies)
  PROVE  RsInv'
<1> DEFINE removed == (Stored(rsStore) \ Stored(S)) \cup ReindexRows(S)
           added   == (Stored(S) \ Stored(rsStore)) \cup ReindexRows(S) \cup again
           patches == MetaPatches(S)
           p       == Patch(rsFrame, rsBm, removed, added, patches, S)
<1>1. rsStore' = S /\ (ApplyDelta(removed, added, patches, S) \/ Rebuilt)
  BY DEF Delta
<1>2. CASE Rebuilt
  <2>1. /\ rsFrame' = RowSeq(Stored(rsStore'), rsStore') /\ rsLost' = FALSE
        /\ \E post : rsBm' = FromJSON(post, rsFrame')
    BY <1>2 DEF Rebuilt, Fit
  <2>2. rsStore' \in NewMetas
    BY <1>1
  <2> QED
    BY <2>1, <2>2, RebuiltKeeps
<1>3. CASE /\ Commits(p, removed, patches)
           /\ rsFrame' = p.rows /\ rsBm' = p.bm /\ UNCHANGED rsLost
  <2>1. /\ removed \in SUBSET RsIds /\ added \in SUBSET Stored(S) /\ patches \in SUBSET Stored(S)
        /\ Stored(rsStore) \subseteq RsIds /\ Stored(S) \subseteq RsIds
    BY DEF Stored, ReindexRows, MetaPatches
  <2>2. /\ \A id \in Stored(S) : id \in added \/ (id \in Stored(rsStore) /\ id \notin removed)
        /\ \A id \in Stored(rsStore) : id \notin removed =>
             id \in Stored(S) /\ (id \notin patches => S[id] = rsStore[id])
    <3>1. \A id \in Stored(S) : id \in added \/ (id \in Stored(rsStore) /\ id \notin removed)
      BY DEF ReindexRows
    <3>2. ASSUME NEW id \in Stored(rsStore), id \notin removed
          PROVE  id \in Stored(S) /\ (id \notin patches => S[id] = rsStore[id])
      <4>1. id \in Stored(S) /\ S[id].tag = rsStore[id].tag
        BY <3>2 DEF ReindexRows
      <4>2. S[id] \in Metas /\ rsStore[id] \in Metas
        BY <4>1, StoredMeta DEF RsInv
      <4>3. id \notin patches => S[id].line = rsStore[id].line
        BY <4>1 DEF MetaPatches
      <4> QED
        BY <4>1, <4>2, <4>3 DEF Metas
    <3> QED
      BY <3>1, <3>2
  <2> HIDE DEF removed, added, patches
  <2> DEFINE next == p.rows
             nbm  == p.bm
  <2>0. /\ next = Patch(rsFrame, rsBm, removed, added, patches, S).rows
        /\ nbm = Patch(rsFrame, rsBm, removed, added, patches, S).bm
    OBVIOUS
  <2> HIDE DEF p, next, nbm
  <2>3. /\ next \in Seq(FrameRows) /\ nbm.row \in [RsIds -> Nat]
        /\ (~rsBm.torn /\ \A id \in Removals(rsBm, removed) : ~Mismatch(rsFrame, rsBm, id)) => ~nbm.torn
        /\ \A i \in DOMAIN rsFrame :
             /\ i \in DOMAIN next /\ next[i].id = rsFrame[i].id
             /\ next[i].valid <=> rsFrame[i].valid /\ rsFrame[i].id \notin removed
             /\ next[i].valid /\ rsFrame[i].id \in patches => next[i].meta = S[rsFrame[i].id]
             /\ rsFrame[i].id \notin patches => next[i].meta = rsFrame[i].meta
        /\ \A i \in DOMAIN next \ DOMAIN rsFrame :
             next[i].id \in added /\ next[i].meta = S[next[i].id]
        /\ \A id \in added : \E i \in DOMAIN next : next[i].valid /\ next[i].id = id
    <3>1. Joined(rsFrame, rsBm.row, rsBm.count)
      BY DEF RsInv
    <3>2. Patched(rsFrame, rsBm, next, nbm, removed, added, patches, S)
      BY <3>1, <2>0, <2>1, PatchIs
    <3> QED
      BY <3>2 DEF Patched
  <2>4. Joined(next, nbm.row, nbm.count)
    BY <1>3, <2>3, CoherentIsJoined DEF Commits, next, nbm
  <2>5. ~nbm.torn
    BY <1>3, <2>3 DEF Commits, RemovalsMatch, RsInv
  <2>6. ASSUME Shows(rsFrame, rsStore)  PROVE Shows(next, S)
    <3>1. ASSUME NEW i \in DOMAIN next, next[i].valid
          PROVE  next[i].id \in Stored(S) /\ next[i].meta = S[next[i].id]
      <4>1. CASE i \in DOMAIN rsFrame
        <5>1. /\ rsFrame[i].valid /\ rsFrame[i].id \notin removed /\ next[i].id = rsFrame[i].id
              /\ rsFrame[i].id \in patches => next[i].meta = S[rsFrame[i].id]
              /\ rsFrame[i].id \notin patches => next[i].meta = rsFrame[i].meta
          BY <3>1, <4>1, <2>3
        <5>2. rsFrame[i].id \in Stored(rsStore) /\ rsFrame[i].meta = rsStore[rsFrame[i].id]
          BY <4>1, <5>1, <2>6 DEF Shows
        <5> QED
          BY <5>1, <5>2, <2>2
      <4>2. CASE i \notin DOMAIN rsFrame
        BY <3>1, <4>2, <2>3, <2>1
      <4> QED
        BY <4>1, <4>2
    <3>2. ASSUME NEW id \in Stored(S)
          PROVE  \E i \in DOMAIN next : next[i].valid /\ next[i].id = id
      <4>1. CASE id \in added
        BY <4>1, <2>3
      <4>2. CASE id \in Stored(rsStore) /\ id \notin removed
        <5>1. PICK i \in DOMAIN rsFrame : rsFrame[i].valid /\ rsFrame[i].id = id
          BY <4>2, <2>6 DEF Shows
        <5> QED
          BY <4>2, <5>1, <2>3
      <4> QED
        BY <4>1, <4>2, <2>2
    <3> QED
      BY <3>1, <3>2 DEF Shows
  <2>7. /\ rsStore' \in NewMetas /\ Joined(rsFrame', rsBm'.row, rsBm'.count)
        /\ ~rsLost' => Shows(rsFrame', rsStore')
        /\ ~rsBm'.torn
    BY <1>1, <1>3, <2>4, <2>5, <2>6 DEF RsInv, next, nbm
  <2> QED
    BY <2>7 DEF RsInv, Joined, Shows, Stored
<1> QED
  BY <1>1, <1>2, <1>3 DEF ApplyDelta

LEMMA RsInvNext ==
  ASSUME RsInv, [RsNext]_rsVars  PROVE RsInv'
<1>1. CASE \E S \in NewMetas : \E again \in SUBSET Stored(S), bodies \in BOOLEAN : Delta(S, again, bodies)
  BY <1>1, DeltaKeeps
<1>2. ASSUME NEW S \in NewMetas, LostDelta(S)  PROVE RsInv'
  BY <1>2 DEF LostDelta, RsInv, Joined, Shows, Stored
<1>3. CASE Restart
  <2>1. rsStore' \in NewMetas /\ rsLost' = FALSE /\ rsFrame' = RowSeq(Stored(rsStore'), rsStore')
        /\ \E post : rsBm' = FromJSON(post, rsFrame')
    BY <1>3 DEF Restart, RsInv
  <2> QED
    BY <2>1, RebuiltKeeps
<1>4. CASE Invalidated
  <2>1. rsStore' \in NewMetas /\ rsLost' = FALSE /\ rsFrame' = RowSeq(Stored(rsStore'), rsStore')
        /\ \E post : rsBm' = FromJSON(post, rsFrame')
    BY <1>4 DEF Invalidated, Rebuilt, Fit, RsInv
  <2> QED
    BY <2>1, RebuiltKeeps
<1>5. CASE UNCHANGED <<rsStore, rsFrame, rsBm, rsLost>>
  BY <1>5 DEF RsInv, Joined, Shows, Stored
<1> QED
  BY <1>1, <1>2, <1>3, <1>4, <1>5 DEF RsNext, rsVars, Persist

LEMMA RsInvHolds == RsSpec => []RsInv
  BY RsInvInit, RsInvNext, PTL DEF RsSpec

LEMMA JoinedFromInv == RsInv => RsJoined
<1> SUFFICES ASSUME RsInv  PROVE RsJoined
  OBVIOUS
<1> DEFINE live == {i \in DOMAIN rsFrame : rsFrame[i].valid}
<1>1. live = LiveRows(rsFrame)
  BY DEF LiveRows
<1>2. Joined(rsFrame, rsBm.row, rsBm.count) /\ rsFrame \in Seq(FrameRows) /\ rsBm.row \in [RsIds -> Nat]
  BY DEF RsInv, Joined
<1>3. Coherent(rsFrame, rsBm)
  BY <1>2, CoherentIsJoined
<1>4. Cardinality({rsFrame[i].id : i \in live}) = Cardinality(live)
  BY <1>1, <1>2, IdsOfLive DEF Joined
<1>5. ASSUME ~rsLost
      PROVE  {<<rsFrame[i].id, rsFrame[i].meta>> : i \in live} = {<<id, rsStore[id]>> : id \in Stored(rsStore)}
  BY <1>5 DEF RsInv, Shows
<1> QED
  BY <1>3, <1>4, <1>5 DEF RsJoined

\* A row number means one chunk, in the frame and in BM25, whatever deltas,
\* rebuilds, stale blobs and lost deltas came before; and while no delta was
\* lost, patching in place gives the rows a rebuild would (applyDelta).
THEOREM OneRowOneChunk == RsSpec => []RsJoined
  BY RsInvHolds, JoinedFromInv, PTL

\* A removal that rebuilds another document than the one that was indexed is
\* never committed (removeExact, applyDelta).
THEOREM NoHalfRemoval == RsSpec => []RsNoResidue
<1>1. RsInv => RsNoResidue
  BY DEF RsInv, RsNoResidue
<1> QED
  BY <1>1, RsInvHolds, PTL
=============================================================================
