--------------------------- MODULE EmbedPipeline ---------------------------
(***************************************************************************)
(* embedAndCommitFiles: the engine of the full and of the incremental      *)
(* reindex.  The loop over the files reads and chunks a file, puts its     *)
(* chunks into buffers and dispatches full buffers as batches; a batch is  *)
(* embedded, takes one of the slots for unwritten batches, and resolves    *)
(* its chunks; a file is committed with its last chunk.                    *)
(*                                                                         *)
(* In a full reindex several batches are on the GPU and in the store at a  *)
(* time, beside the loop; in an incremental one the loop waits for the GPU *)
(* and the writes follow each other on a chain.                            *)
(***************************************************************************)
EXTENDS Naturals, FiniteSets, SequencesExt

CONSTANTS PFiles,       \* number of files of the pass, handled in order
          ChunksPer,    \* chunks of a file
          RollingBatch, \* chunks of a dispatch, rollingBatchFor
          InflightMax,  \* slots for unwritten batches
          EmbedSlots,   \* batches a full reindex embeds at a time
          AheadCap,     \* gpuAheadCap: flushes the loop may run ahead
          QuarantineCap,\* the mass-failure gate
          PipeFaults    \* subset of {"embed", "commit", "unload", "skip"}

ASSUME PipeAssumption ==
  /\ {PFiles, ChunksPer, RollingBatch, InflightMax, EmbedSlots, AheadCap} \subseteq Nat \ {0}
  /\ QuarantineCap \in Nat

VARIABLES
  pipeMode,     \* "full" | "incremental"
  main,         \* where the loop is
  nextFile,     \* processedFiles + 1
  pushed,       \* chunks of the current file already in a buffer
  fileState,    \* [1..PFiles -> ...]
  vec,          \* [chunks -> "none" | "ok" | "null"]
  buffer,       \* chunks that wait for a flush
  batches,      \* <<[chunks, phase, solo, out, inline]>>
  awaited,      \* index of the next flush the loop will wait for
  slotsInUse,   \* InFlightSemaphore.current
  chain,        \* persist jobs of an incremental pass, in order
  persistFatal, pipeDisposed

pipeVars == <<pipeMode, main, nextFile, pushed, fileState, vec, buffer, batches,
              awaited, slotsInUse, chain, persistFatal, pipeDisposed>>

PassFiles == 1..PFiles
PassChunks == PassFiles \X (1..ChunksPer)
Unresolved(v, f) == {c \in PassChunks : c[1] = f /\ v[c] = "none"}
Running == main \notin {"idle", "done", "thrown"}

\* A flush whose promise has not settled: on the GPU, or in the solo retries,
\* whose writes are awaited.  The writes of a whole batch are not.
OnGpu == {"queued", "embed", "recycle", "retry", "rejected", "acquire"}
Pending(b) == b.phase \in OnGpu \/ (b.solo > 0 /\ b.phase = "persist")
PendingFlushes == Cardinality({k \in DOMAIN batches : Pending(batches[k])})

PipeInit ==
  /\ pipeMode = "full"
  /\ main = "idle"
  /\ nextFile = 1 /\ pushed = 0
  /\ fileState = [f \in PassFiles |-> "waiting"]
  /\ vec = [c \in PassChunks |-> "none"]
  /\ buffer = <<>> /\ batches = <<>>
  /\ awaited = 1
  /\ slotsInUse = 0
  /\ chain = <<>>
  /\ persistFatal = FALSE /\ pipeDisposed = FALSE

loopVars  == <<nextFile, pushed, buffer, awaited>>
batchVars == <<vec, batches, slotsInUse, chain, persistFatal>>

-----------------------------------------------------------------------------
\* The loop over the files.

StartPass(mode) ==
  /\ main = "idle"
  /\ main' = "loop"
  /\ pipeMode' = mode
  /\ UNCHANGED <<loopVars, fileState, batchVars, pipeDisposed>>

LoopEnds ==
  /\ main = "loop"
  /\ IF persistFatal /\ ~pipeDisposed
     THEN main' = "thrown"
     ELSE /\ \/ nextFile > PFiles \/ pipeDisposed
             \/ pipeMode = "incremental"     \* the burst's budget, or the user is back
          /\ main' = "drainFlushes"
  /\ UNCHANGED <<pipeMode, loopVars, fileState, batchVars, pipeDisposed>>

\* A file that cannot be read, chunked or counted is skipped; one that is empty
\* or whose chunks all kept their identity is settled without an embed.
SkipFile ==
  /\ main = "loop" /\ ~pipeDisposed /\ ~persistFatal /\ nextFile <= PFiles
  /\ "skip" \in PipeFaults
  /\ nextFile' = nextFile + 1
  /\ fileState' = [fileState EXCEPT ![nextFile] = "skipped"]
  /\ UNCHANGED <<pipeMode, main, pushed, buffer, awaited, batchVars, pipeDisposed>>

OpenFile ==
  /\ main = "loop" /\ ~pipeDisposed /\ ~persistFatal /\ nextFile <= PFiles
  /\ main' = "push"
  /\ fileState' = [fileState EXCEPT ![nextFile] = "open"]
  /\ UNCHANGED <<pipeMode, loopVars, batchVars, pipeDisposed>>

\* The chunks of the next dispatch out of a buffer, and what stays in it.
NewBatch(buf, inline) ==
  batches' = Append(batches,
    [chunks |-> SubSeq(buf, 1, IF Len(buf) < RollingBatch THEN Len(buf) ELSE RollingBatch),
     phase |-> IF inline THEN "embed" ELSE "queued", solo |-> 0, out |-> "ok", inline |-> inline])

AfterSplice(buf) == SubSeq(buf, RollingBatch + 1, Len(buf))

\* A full buffer is dispatched: enqueueFlush of a full reindex and flushBucket of
\* an incremental one both look at the fatal error first, the former at the
\* unload too.  The loop then waits for room ahead, or for the flush.
Flush(buf) ==
  /\ buffer' = AfterSplice(buf)
  /\ IF pipeMode = "full"
     THEN /\ IF pipeDisposed \/ persistFatal THEN UNCHANGED batches ELSE NewBatch(buf, FALSE)
          /\ main' = "ahead"
     ELSE IF persistFatal THEN main' = "thrown" /\ UNCHANGED batches
     ELSE NewBatch(buf, TRUE) /\ main' = "inline"

\* A chunk enters its buffer.
PushChunk ==
  /\ main = "push" /\ pushed < ChunksPer
  /\ pushed' = pushed + 1
  /\ LET buf == Append(buffer, <<nextFile, pushed + 1>>)
     IN IF Len(buf) >= RollingBatch THEN Flush(buf)
        ELSE buffer' = buf /\ UNCHANGED <<main, batches>>
  /\ UNCHANGED <<pipeMode, nextFile, awaited, fileState, vec, slotsInUse, chain, persistFatal,
                 pipeDisposed>>

FileBuffered ==
  /\ main = "push" /\ pushed = ChunksPer
  /\ main' = "loop"
  /\ nextFile' = nextFile + 1 /\ pushed' = 0
  /\ UNCHANGED <<pipeMode, buffer, awaited, fileState, batchVars, pipeDisposed>>

RoomAhead ==
  /\ main = "ahead"
  /\ main' = IF PendingFlushes >= AheadCap /\ awaited <= Len(batches) THEN "await" ELSE "push"
  /\ UNCHANGED <<pipeMode, loopVars, fileState, batchVars, pipeDisposed>>

OldestSettles ==
  /\ main = "await" /\ ~Pending(batches[awaited])
  /\ main' = "ahead"
  /\ awaited' = awaited + 1
  /\ UNCHANGED <<pipeMode, nextFile, pushed, buffer, fileState, batchVars, pipeDisposed>>

InlineSettles ==
  /\ main \in {"inline", "inlineDrain"}
  /\ ~Pending(batches[Len(batches)])
  /\ main' = IF main = "inline" THEN "push" ELSE "drainBuckets"
  /\ UNCHANGED <<pipeMode, loopVars, fileState, batchVars, pipeDisposed>>

\* The drain: the flushes, the partial buffers, the writes, and the fatal error
\* again after each.
DrainFlushes ==
  /\ main = "drainFlushes" /\ PendingFlushes = 0
  /\ main' = IF persistFatal THEN "thrown" ELSE "drainBuckets"
  /\ UNCHANGED <<pipeMode, loopVars, fileState, batchVars, pipeDisposed>>

\* A mutated form: the drain forgets the partial buffers.
DrainNoBucket ==
  /\ main = "drainBuckets"
  /\ main' = "drainPersist"
  /\ UNCHANGED <<pipeMode, loopVars, fileState, batchVars, pipeDisposed>>

DrainBucket ==
  /\ main = "drainBuckets"
  /\ IF buffer = <<>> \/ (pipeDisposed /\ \A k \in DOMAIN batches : ~batches[k].inline)
     THEN main' = "drainPersist" /\ UNCHANGED <<buffer, batches>>
     ELSE IF persistFatal THEN main' = "thrown" /\ buffer' = AfterSplice(buffer) /\ UNCHANGED batches
     ELSE NewBatch(buffer, TRUE) /\ buffer' = AfterSplice(buffer) /\ main' = "inlineDrain"
  /\ UNCHANGED <<pipeMode, nextFile, pushed, awaited, fileState, vec, slotsInUse, chain,
                 persistFatal, pipeDisposed>>

DrainPersist ==
  /\ main = "drainPersist" /\ \A k \in DOMAIN batches : batches[k].phase = "done"
  /\ main' = IF persistFatal THEN "thrown" ELSE "gate"
  /\ UNCHANGED <<pipeMode, loopVars, fileState, batchVars, pipeDisposed>>

Quarantined == {f \in PassFiles : fileState[f] = "quarantined"}
Unwound == {f \in PassFiles : fileState[f] \in {"unwound", "kept"}}

\* The mass-failure gate drops the records of the quarantined files one by one.
\* A delete that fails leaves its file quarantined; a closed store ends the pass.
Unwind(f) ==
  /\ main = "gate" /\ f \in Quarantined
  /\ Cardinality(Quarantined \cup Unwound) > QuarantineCap
  /\ IF pipeDisposed
     THEN main' = "thrown" /\ UNCHANGED fileState
     ELSE /\ UNCHANGED main
          /\ \/ fileState' = [fileState EXCEPT ![f] = "unwound"]
             \/ "commit" \in PipeFaults /\ fileState' = [fileState EXCEPT ![f] = "kept"]
  /\ UNCHANGED <<pipeMode, loopVars, batchVars, pipeDisposed>>

\* The final setMeta.
StampMeta ==
  /\ main = "gate"
  /\ \/ Cardinality(Quarantined \cup Unwound) <= QuarantineCap
     \/ Quarantined = {}
  /\ main' \in (IF pipeDisposed \/ "commit" \in PipeFaults THEN {"thrown"} ELSE {})
               \cup (IF pipeDisposed THEN {} ELSE {"done"})
  /\ UNCHANGED <<pipeMode, loopVars, fileState, batchVars, pipeDisposed>>

-----------------------------------------------------------------------------
\* A batch, or one chunk of it in the solo retries.

SetPhase(k, p) == batches' = [batches EXCEPT ![k].phase = p]
Embedding == {k \in DOMAIN batches : batches[k].phase \in {"embed", "retry"}}

TakeEmbedSlot(k) ==
  /\ batches[k].phase = "queued"
  /\ Cardinality({j \in DOMAIN batches : batches[j].phase # "queued" /\ ~batches[j].inline
                                         /\ Pending(batches[j])}) < EmbedSlots
  /\ SetPhase(k, "embed")
  /\ UNCHANGED <<pipeMode, main, loopVars, fileState, vec, slotsInUse, chain, persistFatal, pipeDisposed>>

EmbedOk(k) ==
  /\ k \in Embedding /\ ~pipeDisposed
  /\ batches' = [batches EXCEPT ![k].phase = "acquire", ![k].out = "ok"]
  /\ UNCHANGED <<pipeMode, main, loopVars, fileState, vec, slotsInUse, chain, persistFatal, pipeDisposed>>

\* The first failure recycles the iframe, which rejects every other dispatch
\* under way as DISPOSED.
EmbedFails(k) ==
  /\ batches[k].phase = "embed" /\ "embed" \in PipeFaults
  /\ batches' = [j \in DOMAIN batches |->
                   IF j = k THEN [batches[j] EXCEPT !.phase = "recycle"]
                   ELSE IF j \in Embedding THEN [batches[j] EXCEPT !.phase = "rejected"]
                   ELSE batches[j]]
  /\ UNCHANGED <<pipeMode, main, loopVars, fileState, vec, slotsInUse, chain, persistFatal, pipeDisposed>>

\* What a second failure leads to: the batch goes to the solo retries, a solo
\* chunk is resolved without a vector.
GiveUp(b) ==
  IF b.solo = 0 THEN [b EXCEPT !.solo = 1, !.phase = "embed"]
                ELSE [b EXCEPT !.phase = "acquire", !.out = "null"]

RecycleEnds(k) ==
  /\ batches[k].phase = "recycle"
  /\ \/ SetPhase(k, "retry")
     \/ batches' = [batches EXCEPT ![k] = GiveUp(@)]
  /\ UNCHANGED <<pipeMode, main, loopVars, fileState, vec, slotsInUse, chain, persistFatal, pipeDisposed>>

RetryFails(k) ==
  /\ batches[k].phase = "retry" /\ "embed" \in PipeFaults
  /\ batches' = [batches EXCEPT ![k] = GiveUp(@)]
  /\ UNCHANGED <<pipeMode, main, loopVars, fileState, vec, slotsInUse, chain, persistFatal, pipeDisposed>>

\* An exception out of flushPrepared: the pass's own when the loop awaits the
\* flush, else the fatal error that the loop looks at later.
Raise(k) ==
  /\ IF batches[k].inline
     THEN main' = (IF Running THEN "thrown" ELSE main) /\ UNCHANGED persistFatal
     ELSE persistFatal' = TRUE /\ UNCHANGED main

DisposedRaises(k) ==
  /\ \/ batches[k].phase = "rejected"
     \/ k \in Embedding /\ pipeDisposed
  /\ Raise(k)
  /\ SetPhase(k, "done")
  /\ UNCHANGED <<pipeMode, loopVars, fileState, vec, slotsInUse, chain, pipeDisposed>>

\* inflight.acquire, then the writes start: at once, or at their turn.
Acquire(k) ==
  /\ batches[k].phase = "acquire" /\ slotsInUse < InflightMax
  /\ slotsInUse' = slotsInUse + 1
  /\ SetPhase(k, "persist")
  /\ chain' = IF pipeMode = "incremental" THEN Append(chain, k) ELSE chain
  /\ UNCHANGED <<pipeMode, main, loopVars, fileState, vec, persistFatal, pipeDisposed>>

\* Which chunk the writes have come to: the first that is unresolved.
Target(b) ==
  IF b.solo > 0 THEN b.chunks[b.solo]
  ELSE b.chunks[CHOOSE i \in DOMAIN b.chunks :
                  /\ vec[b.chunks[i]] = "none"
                  /\ \A j \in 1..(i - 1) : vec[b.chunks[j]] # "none"]

\* A mutated form: the slot is given back after the writes, in no finally block.
ReleaseUnlessClosed(k) ==
  /\ slotsInUse' = IF pipeDisposed THEN slotsInUse ELSE slotsInUse - 1
  /\ chain' = IF pipeMode = "incremental" THEN Tail(chain) ELSE chain

Release(k) ==
  /\ slotsInUse' = slotsInUse - 1
  /\ chain' = IF pipeMode = "incremental" THEN Tail(chain) ELSE chain

\* The batch after its writes of chunk c.
NextOf(b, c) ==
  IF b.solo = 0
  THEN IF c = Last(b.chunks) THEN [b EXCEPT !.phase = "done"] ELSE b
  ELSE IF b.solo = Len(b.chunks) THEN [b EXCEPT !.phase = "done"]
  ELSE [b EXCEPT !.phase = "embed", !.solo = @ + 1]

\* resolveChunk, and commitFile with the last chunk of a file: written, or
\* skipped by a failing commit; in quarantine when a chunk has no vector.
ResolveChunk(k) ==
  /\ batches[k].phase = "persist"
  /\ pipeMode = "incremental" => Head(chain) = k
  /\ LET b == batches[k]
         c == Target(b)
         v == [vec EXCEPT ![c] = b.out]
         f == c[1]
         last == Unresolved(v, f) = {}
     IN /\ ~(last /\ pipeDisposed)
        /\ vec' = v
        /\ IF last
           THEN \E s \in (IF "commit" \in PipeFaults THEN {"written", "failed"} ELSE {"written"}) :
                  fileState' = [fileState EXCEPT ![f] =
                    IF s = "failed" THEN "failed"
                    ELSE IF \E d \in PassChunks : d[1] = f /\ v[d] = "null" THEN "quarantined"
                    ELSE "committed"]
           ELSE UNCHANGED fileState
        /\ batches' = [batches EXCEPT ![k] = NextOf(b, c)]
        /\ IF b.solo > 0 \/ c = Last(b.chunks) THEN Release(k) ELSE UNCHANGED <<slotsInUse, chain>>
  /\ UNCHANGED <<pipeMode, main, loopVars, persistFatal, pipeDisposed>>

\* The commit of a closed store: the fatal error of the pass.  The solo retry
\* of a chunk with a vector resolves it once more, without.
CommitClosed(k) ==
  /\ batches[k].phase = "persist" /\ pipeDisposed
  /\ pipeMode = "incremental" => Head(chain) = k
  /\ LET b == batches[k]
         c == Target(b)
         v == [vec EXCEPT ![c] = b.out]
     IN /\ Unresolved(v, c[1]) = {}
        /\ vec' = v
        /\ Release(k)
        /\ IF b.solo > 0 /\ b.out = "ok"
           THEN /\ batches' = [batches EXCEPT ![k].phase = "acquire", ![k].out = "null"]
                /\ UNCHANGED <<main, persistFatal>>
           ELSE /\ SetPhase(k, "done")
                /\ IF b.solo > 0 THEN Raise(k) ELSE persistFatal' = TRUE /\ UNCHANGED main
  /\ UNCHANGED <<pipeMode, loopVars, fileState, pipeDisposed>>

\* The plugin is unloaded: the embedder is torn down and the store closes.
Unload ==
  /\ "unload" \in PipeFaults
  /\ ~pipeDisposed /\ Running
  /\ pipeDisposed' = TRUE
  /\ UNCHANGED <<pipeMode, main, loopVars, fileState, batchVars>>

-----------------------------------------------------------------------------
LoopStep ==
  \/ LoopEnds \/ SkipFile \/ OpenFile \/ PushChunk \/ FileBuffered
  \/ RoomAhead \/ OldestSettles \/ InlineSettles
  \/ DrainFlushes \/ DrainBucket \/ DrainPersist \/ StampMeta
  \/ \E f \in PassFiles : Unwind(f)

BatchStep(k) ==
  \/ TakeEmbedSlot(k) \/ EmbedOk(k) \/ EmbedFails(k) \/ RecycleEnds(k) \/ RetryFails(k)
  \/ DisposedRaises(k) \/ Acquire(k) \/ ResolveChunk(k) \/ CommitClosed(k)

MaxBatches == PFiles * ChunksPer

PipeNext ==
  \/ \E mode \in {"full", "incremental"} : StartPass(mode)
  \/ Running /\ LoopStep
  \/ \E k \in DOMAIN batches : BatchStep(k)
  \/ Unload

\* A dispatch is answered or times out, and a store transaction ends.
PipeFairness ==
  /\ WF_pipeVars(Running /\ LoopStep)
  /\ \A k \in 1..MaxBatches : WF_pipeVars(k \in DOMAIN batches /\ BatchStep(k))

PipeSpec == PipeInit /\ [][PipeNext]_pipeVars /\ PipeFairness

-----------------------------------------------------------------------------
(***************************************************************************)
(* The slots for unwritten batches are held by the batches that write,     *)
(* each by one, on every path out of a write: none leaks with a failing    *)
(* commit, a solo retry or an unload, and never are more taken than there  *)
(* are.  No more flushes are unsettled than the loop may run ahead.        *)
(***************************************************************************)
PipeSlots ==
  /\ fileState \in [PassFiles -> {"waiting", "open", "skipped", "committed", "quarantined",
                                  "failed", "unwound", "kept"}]
  /\ vec \in [PassChunks -> {"none", "ok", "null"}]
  /\ slotsInUse = Cardinality({k \in DOMAIN batches : batches[k].phase = "persist"})
  /\ slotsInUse <= InflightMax
  /\ PendingFlushes <= AheadCap
  /\ pipeMode = "incremental" => Len(chain) = slotsInUse

(***************************************************************************)
(* Every chunk has one fate.  A file is committed when all its chunks have *)
(* a vector, in quarantine when one has none; and a pass that ends well    *)
(* without an unload has settled every file it started, left nothing in a  *)
(* buffer, and keeps no more files in quarantine than the gate allows,     *)
(* save those whose record could not be dropped.                           *)
(***************************************************************************)
PipeAccounted ==
  /\ \A f \in PassFiles :
       /\ fileState[f] = "committed" => \A c \in PassChunks : c[1] = f => vec[c] = "ok"
       /\ fileState[f] \in {"quarantined", "unwound", "kept"} =>
            \E c \in PassChunks : c[1] = f /\ vec[c] = "null"
       /\ fileState[f] \in {"committed", "quarantined"} => Unresolved(vec, f) = {}
  /\ main = "done" =>
       /\ Cardinality(Quarantined) <= QuarantineCap
       /\ \A k \in DOMAIN batches : batches[k].phase = "done"
       /\ pipeDisposed \/ (buffer = <<>> /\ \A f \in PassFiles : fileState[f] # "open")

(***************************************************************************)
(* A pass ends: no await of the loop is for a flush or a slot that nobody  *)
(* settles, whatever fails.                                                *)
(***************************************************************************)
PipeEnds == Running ~> ~Running

(***************************************************************************)
(* A pass that has ended, and released the write mutex, writes no more.    *)
(***************************************************************************)
PipeQuiet == [][(main \in {"done", "thrown"}) => UNCHANGED fileState]_pipeVars
=============================================================================
