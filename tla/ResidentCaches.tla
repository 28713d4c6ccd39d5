--------------------------- MODULE ResidentCaches ---------------------------
(***************************************************************************)
(* The resident caches of src/src/search/cache-manager.ts beside the       *)
(* IndexedDB store they are built from, the writers of                     *)
(* src/src/search/search.ts that move the store under them, and the        *)
(* generation counter that tells one from the other.                       *)
(*                                                                         *)
(* Everything runs on one thread; an action is what runs between two       *)
(* awaits.  The processes that interleave at their awaits are              *)
(*   writer   the critical section that holds the write mutex (one, see    *)
(*            IndexCoordinator): reindexDelta, reindexAll, a sidecar       *)
(*            hydrate or rebuild; owed is what they do after the release   *)
(*   warm     the single-flight runWarmCaches, ensureFrame included        *)
(*   persist  the fire-and-forget persistBm25                              *)
(*   query    the frame and BM25 stages of one search                      *)
(*                                                                         *)
(* Data is abstracted to chunk identity.  A note has at most one chunk, a  *)
(* chunk id is the note with the version of its text (ids are content      *)
(* hashes, so an edit is a new id).  A cache is the set of chunks it has   *)
(* rows for; row numbers and tombstone holes are left out.                 *)
(***************************************************************************)
EXTENDS Integers, FiniteSets

CONSTANTS
    Files,      \* the notes
    Versions,   \* the texts a note can have
    First,      \* the text of every note of an index that exists at start
    MaxGen,     \* no operation that bumps the generation starts beyond it
    Actors      \* the optional behaviours that are switched on

Behaviours == {"query", "full", "hydrate", "throw", "restart", "light", "carry"}

ASSUME CacheConstants ==
    /\ First \in Versions
    /\ MaxGen \in Nat
    /\ Actors \subseteq Behaviours

Chunk == Files \X Versions
Of(f) == {c \in Chunk : c[1] = f}

NoGen    == -1
NoFrame  == [rows |-> {}, gen |-> NoGen]
NoBm25   == [rows |-> {}, docs |-> {}, gen |-> NoGen]
NoBlob   == [present |-> FALSE, docs |-> {}]

VARIABLES
    chunks,         \* the chunk rows of IndexedDB (all tiers; one transaction)
    indexedAt,      \* meta.lastIndexedAt is set
    blob,           \* the persisted BM25 index: the chunks it has postings for
    signBlob,       \* the ids of the persisted sign frame ({}: none)
    gen,            \* IndexCoordinator._generation
    currentDelta,   \* IndexCoordinator.currentDelta is pending
    frame,          \* frameCache
    binary,         \* binaryIndex
    bm25,           \* bm25Cache: idToIdx (rows), postings (docs), generation
    writer,         \* the critical section running
    owed,           \* what finished sections still do, off the mutex
    reindexAsked,   \* reindexAll is queued behind the mutex
    warm,           \* runWarmCaches
    persist,        \* persistBm25
    query,          \* one search
    faults          \* history: what put the caches out of step since the last drop

vars == <<chunks, indexedAt, blob, signBlob, gen, currentDelta, frame, binary,
          bm25, writer, owed, reindexAsked, warm, persist, query, faults>>

disk  == <<chunks, indexedAt, blob, signBlob>>
cache == <<gen, frame, binary, bm25, faults>>

NoWriter ==
    [op |-> "none", pc |-> "idle", todo |-> {}, drops |-> {}, cur |-> {},
     adds |-> {}, removed |-> {}, skip |-> FALSE, unsynced |-> FALSE]

NoWarm ==
    [pc |-> "idle", light |-> FALSE, meta |-> {}, from |-> NoGen,
     rows |-> {}, attached |-> FALSE, loaded |-> FALSE, docs |-> {}]

NoPersist == [pc |-> "idle", docs |-> {}]

NoQuery == [pc |-> "idle", rows |-> {}, attached |-> FALSE, docs |-> {}]

Gens == Nat \cup {NoGen}

Faults == {"threw", "misaligned", "signLoad"}

FrameType == [rows : SUBSET Chunk, gen : Gens]

Bm25Type == [rows : SUBSET Chunk, docs : SUBSET Chunk, gen : Gens]

WriterType ==
    [op : {"none", "delta", "full", "hydrate", "rebuild"},
     pc : {"idle", "drop", "embed", "apply", "patched", "rebuilt",
           "clear", "fill", "stamped"},
     todo : SUBSET Files, drops : SUBSET Files, cur : SUBSET Chunk,
     adds : SUBSET Chunk, removed : SUBSET Chunk, skip : BOOLEAN,
     unsynced : BOOLEAN]

WarmType ==
    [pc : {"idle", "frame", "poll", "binary", "assemble", "bm25", "load",
           "fit", "fitting", "loop"},
     light : BOOLEAN, meta : SUBSET Chunk, from : Gens, rows : SUBSET Chunk,
     attached : BOOLEAN, loaded : BOOLEAN, docs : SUBSET Chunk]

PersistType == [pc : {"idle", "meta", "put"}, docs : SUBSET Chunk]

QueryType ==
    [pc : {"idle", "bm25", "load", "fit", "fitting", "score"},
     rows : SUBSET Chunk, attached : BOOLEAN, docs : SUBSET Chunk]

TypeOK ==
    /\ chunks \subseteq Chunk
    /\ indexedAt \in BOOLEAN
    /\ blob \in [present : BOOLEAN, docs : SUBSET Chunk]
    /\ signBlob \subseteq Chunk
    /\ gen \in Nat
    /\ currentDelta \in BOOLEAN
    /\ frame \in FrameType
    /\ binary \in FrameType
    /\ bm25 \in Bm25Type
    /\ writer \in WriterType
    /\ owed \subseteq {"warm", "persist", "drop"}
    /\ reindexAsked \in BOOLEAN
    /\ warm \in WarmType
    /\ persist \in PersistType
    /\ query \in QueryType
    /\ faults \subseteq Faults

(* A fresh install, or a process start over an index an earlier session    *)
(* completed and persisted.                                                *)
Init ==
    /\ \/ /\ chunks = {}
          /\ indexedAt = FALSE
          /\ blob = NoBlob
          /\ signBlob = {}
       \/ /\ chunks = Files \X {First}
          /\ indexedAt = TRUE
          /\ blob = [present |-> TRUE, docs |-> chunks]
          /\ signBlob = chunks
    /\ gen = 0
    /\ currentDelta = FALSE
    /\ frame = NoFrame
    /\ binary = NoFrame
    /\ bm25 = NoBm25
    /\ writer = NoWriter
    /\ owed = {}
    /\ reindexAsked = FALSE
    /\ warm = NoWarm
    /\ persist = NoPersist
    /\ query = NoQuery
    /\ faults = {}

-----------------------------------------------------------------------------
(* Shared steps.                                                           *)

isWriting == writer.op # "none"

(* bm25CacheValid(orderedChunks) *)
Valid(rows) == bm25.gen = gen /\ Cardinality(bm25.rows) = Cardinality(rows)

(* A process that took the frame object sees the patches applyDelta makes  *)
(* in place, until that object is no longer the cached one.                *)
Rows(p) == IF p.attached THEN frame.rows ELSE p.rows
Detached(p) == [p EXCEPT !.rows = Rows(p), !.attached = FALSE]

(* A new process or a new orchestrator: nothing resident, nothing running. *)
Fresh(firstGen) ==
    /\ gen' = firstGen
    /\ currentDelta' = FALSE
    /\ frame' = NoFrame
    /\ binary' = NoFrame
    /\ bm25' = NoBm25
    /\ writer' = NoWriter
    /\ owed' = {}
    /\ warm' = NoWarm
    /\ persist' = NoPersist
    /\ query' = NoQuery
    /\ faults' = {}

(* invalidateBm25Cache(): drop the three caches and bump the generation.   *)
InvalidateCaches ==
    /\ frame' = NoFrame
    /\ binary' = NoFrame
    /\ bm25' = NoBm25
    /\ gen' = gen + 1
    /\ faults' = {}
    /\ query' = Detached(query)

(* warmCaches(trigger): joins the warm in flight, or starts one.           *)
WarmRequested(light) ==
    IF warm.pc = "idle" THEN [NoWarm EXCEPT !.pc = "frame", !.light = light] ELSE warm

(* void persistBm25(...): at most one in flight is modelled.               *)
PersistRequested ==
    IF persist.pc = "idle" THEN [NoPersist EXCEPT !.pc = "meta"] ELSE persist

-----------------------------------------------------------------------------
(* reindexDelta.                                                           *)

(* The section starts: the deleted paths, the dirty paths.                 *)
DeltaBegin(drops, todo) ==
    /\ ~isWriting
    /\ gen < MaxGen
    /\ drops \cap todo = {}
    /\ drops \cup todo # {}
    /\ writer' = [NoWriter EXCEPT !.op = "delta", !.pc = "drop",
                                  !.drops = drops, !.todo = todo]
    /\ currentDelta' = TRUE
    /\ UNCHANGED <<disk, cache, owed, reindexAsked, warm, persist, query>>

(* A mutated form: the change-set notes the path in place of the chunk ids. *)
DropFileByPath(f) ==
    /\ writer.pc = "drop"
    /\ f \in writer.drops
    /\ chunks' = chunks \ Of(f)
    /\ writer' = [writer EXCEPT !.drops = @ \ {f},
                                !.removed = @ \cup {f},
                                !.unsynced = TRUE]
    /\ UNCHANGED <<indexedAt, blob, signBlob, cache, currentDelta, owed, reindexAsked,
                   warm, persist, query>>

(* Phase 1: one deleteFile. *)
DropFile(f) ==
    /\ writer.pc = "drop"
    /\ f \in writer.drops
    /\ chunks' = chunks \ Of(f)
    /\ writer' = [writer EXCEPT !.drops = @ \ {f},
                                !.removed = @ \cup (chunks \cap Of(f)),
                                !.unsynced = TRUE]
    /\ UNCHANGED <<indexedAt, blob, signBlob, cache, currentDelta, owed, reindexAsked,
                   warm, persist, query>>

(* currentDelta is released for the embed phase. *)
DropsDone ==
    /\ writer.pc = "drop"
    /\ writer.drops = {}
    /\ writer' = [writer EXCEPT !.pc = "embed"]
    /\ currentDelta' = FALSE
    /\ UNCHANGED <<disk, cache, owed, reindexAsked, warm, persist, query>>

(* A note whose vectors all carried over is committed past the change-set. *)
CarryOver(f, v) ==
    /\ "carry" \in Actors
    /\ writer.pc = "embed"
    /\ writer.cur = {}
    /\ f \in writer.todo
    /\ chunks' = (chunks \ Of(f)) \cup {<<f, v>>}
    /\ writer' = [writer EXCEPT !.todo = @ \ {f}, !.skip = TRUE, !.unsynced = TRUE]
    /\ UNCHANGED <<indexedAt, blob, signBlob, cache, currentDelta, owed, reindexAsked,
                   warm, persist, query>>

(* The note is read, chunked and diffed against its record: stale rows go  *)
(* at once, the new chunk has to be embedded, an unchanged one stays.      *)
(* text is {} for a note that has no chunk left.                           *)
ReadFile(f, text) ==
    /\ writer.pc = "embed"
    /\ writer.cur = {}
    /\ f \in writer.todo
    /\ LET stale == (chunks \cap Of(f)) \ text
       IN /\ chunks' = chunks \ stale
          /\ writer' = [writer EXCEPT !.todo = @ \ {f},
                                      !.removed = @ \cup stale,
                                      !.cur = text \ chunks,
                                      !.unsynced = TRUE]
    /\ UNCHANGED <<indexedAt, blob, signBlob, cache, currentDelta, owed, reindexAsked,
                   warm, persist, query>>

(* A mutated form: the committed chunk is not pushed into addsSink. *)
CommitPastSink ==
    /\ writer.pc = "embed"
    /\ writer.cur # {}
    /\ chunks' = chunks \cup writer.cur
    /\ writer' = [writer EXCEPT !.cur = {}]
    /\ UNCHANGED <<indexedAt, blob, signBlob, cache, currentDelta, owed, reindexAsked,
                   warm, persist, query>>

(* commitFile: the embedded chunk lands in one transaction, then is        *)
(* surfaced in addsSink.                                                   *)
CommitFile ==
    /\ writer.pc = "embed"
    /\ writer.cur # {}
    /\ chunks' = chunks \cup writer.cur
    /\ writer' = [writer EXCEPT !.cur = {}, !.adds = @ \cup writer.cur]
    /\ UNCHANGED <<indexedAt, blob, signBlob, cache, currentDelta, owed, reindexAsked,
                   warm, persist, query>>

(* The embed or the commit failed, twice: the note is quarantined without  *)
(* its chunk.  A mass failure unwinds the quarantine past the change-set.  *)
EmbedFails(unwound) ==
    /\ writer.pc = "embed"
    /\ writer.cur # {}
    /\ writer' = [writer EXCEPT !.cur = {}, !.skip = @ \/ unwound]
    /\ UNCHANGED <<disk, cache, currentDelta, owed, reindexAsked, warm, persist, query>>

(* Burst budget spent, window hidden or a search resumed. *)
StopBurst ==
    /\ writer.pc = "embed"
    /\ writer.cur = {}
    /\ writer.todo # {}
    /\ writer' = [writer EXCEPT !.todo = {}]
    /\ UNCHANGED <<disk, cache, currentDelta, owed, reindexAsked, warm, persist, query>>

(* Nothing was mutated: no patch, no meta stamp, no warm. *)
NothingToDo ==
    /\ writer.pc = "embed"
    /\ writer.cur = {} /\ writer.todo = {}
    /\ ~writer.unsynced
    /\ writer' = NoWriter
    /\ UNCHANGED <<disk, cache, currentDelta, owed, reindexAsked, warm, persist, query>>

(* The engine, if it ran, stamped the meta; currentDelta is armed again for *)
(* the patch.                                                              *)
EmbedDone ==
    /\ writer.pc = "embed"
    /\ writer.cur = {} /\ writer.todo = {}
    /\ writer.unsynced
    /\ writer' = [writer EXCEPT !.pc = "apply"]
    /\ currentDelta' = TRUE
    /\ indexedAt' \in {indexedAt, TRUE}
    /\ UNCHANGED <<chunks, blob, signBlob, cache, owed, reindexAsked, warm, persist, query>>

(* The rows applyDelta removes and adds: ids without a BM25 row are        *)
(* skipped, adds whose id already has one are dropped (freshDeltaAdds).    *)
RemovedRows == writer.removed \cap bm25.rows
FreshAdds   == writer.adds \ (bm25.rows \ RemovedRows)

(* applyDelta: the rows go and come in both caches, which are restamped.    *)
(* Its drift detector compares row counts and eight sampled rows, so equal *)
(* row sets always pass and unequal ones may; a removal that hits another  *)
(* chunk's frame row is always declined (mismatch or live counts).         *)
PatchCaches ==
    /\ writer.pc = "apply"
    /\ ~writer.skip
    /\ frame # NoFrame /\ frame.gen = gen
    /\ bm25 # NoBm25 /\ bm25.gen = gen
    /\ Cardinality(bm25.rows) = Cardinality(frame.rows)
    /\ RemovedRows \subseteq frame.rows
    /\ frame' = [rows |-> (frame.rows \ RemovedRows) \cup FreshAdds, gen |-> gen + 1]
    /\ bm25' = [rows |-> (bm25.rows \ RemovedRows) \cup FreshAdds,
                docs |-> (bm25.docs \ RemovedRows) \cup FreshAdds,
                gen  |-> gen + 1]
    /\ gen' = gen + 1
    /\ faults' = IF bm25.rows = frame.rows THEN faults ELSE faults \cup {"misaligned"}
    /\ writer' = [writer EXCEPT !.pc = "patched", !.unsynced = FALSE]
    /\ UNCHANGED <<disk, binary, currentDelta, owed, reindexAsked, warm, persist, query>>

(* applyDelta declined (cold or stale caches, compaction due, missing      *)
(* body, mismatch, drift...) or was skipped: everything is invalidated.    *)
FallbackRebuild ==
    /\ writer.pc = "apply"
    /\ InvalidateCaches
    /\ writer' = [writer EXCEPT !.pc = "rebuilt", !.unsynced = FALSE]
    /\ warm' = Detached(warm)
    /\ UNCHANGED <<disk, currentDelta, owed, reindexAsked, persist>>

(* A mutated form: the latch ensureFrame waits on is left set. *)
DeltaEndKeepsLatch ==
    /\ writer.pc \in {"patched", "rebuilt"}
    /\ indexedAt' = TRUE
    /\ writer' = NoWriter
    /\ owed' = owed \cup {IF writer.pc = "rebuilt" THEN "warm" ELSE "persist"}
    /\ UNCHANGED <<chunks, blob, signBlob, cache, currentDelta, reindexAsked, warm,
                   persist, query>>

(* The closing setMeta and the release of the mutex.  The sidecar flush    *)
(* comes next, then the re-warm after a fallback, or the persist after a   *)
(* patch.                                                                  *)
DeltaEnd ==
    /\ writer.pc \in {"patched", "rebuilt"}
    /\ indexedAt' = TRUE
    /\ writer' = NoWriter
    /\ currentDelta' = FALSE
    /\ owed' = owed \cup {IF writer.pc = "rebuilt" THEN "warm" ELSE "persist"}
    /\ UNCHANGED <<chunks, blob, signBlob, cache, reindexAsked, warm, persist, query>>

(* An await of the section rejects (quota, a closing store): the finally   *)
(* block releases, nothing invalidates and nothing warms.  Bound: one      *)
(* throw until the caches are next dropped.                                *)
DeltaThrows ==
    /\ "throw" \in Actors
    /\ "threw" \notin faults
    /\ writer.op = "delta"
    /\ writer' = NoWriter
    /\ currentDelta' = FALSE
    /\ faults' = IF writer.unsynced THEN faults \cup {"threw"} ELSE faults
    /\ UNCHANGED <<disk, gen, frame, binary, bm25, owed, reindexAsked, warm, persist,
                   query>>

Delta ==
    \/ \E drops, todo \in SUBSET Files : DeltaBegin(drops, todo)
    \/ \E f \in Files : DropFile(f)
    \/ DropsDone
    \/ \E f \in Files, v \in Versions : CarryOver(f, v)
    \/ \E f \in Files : \E text \in {{}} \cup {{c} : c \in Of(f)} : ReadFile(f, text)
    \/ CommitFile
    \/ \E unwound \in BOOLEAN : EmbedFails(unwound)
    \/ StopBurst \/ NothingToDo \/ EmbedDone
    \/ PatchCaches \/ FallbackRebuild
    \/ DeltaEnd \/ DeltaThrows

-----------------------------------------------------------------------------
(* reindexAll, and the sidecar's hydrateSidecar and rebuildFromSidecar.    *)

(* runFullReindex: the clean slate empties the stores, a new orchestrator  *)
(* with caches and mutex of its own is attached and invalidated, and       *)
(* reindexAll is called on it.  The work of the old one dies with the      *)
(* store it held open.                                                     *)
AskReindex ==
    /\ "full" \in Actors
    /\ ~reindexAsked
    /\ writer.op # "full"
    /\ chunks' = {}
    /\ indexedAt' = FALSE
    /\ blob' = NoBlob
    /\ signBlob' = {}
    /\ reindexAsked' = TRUE
    /\ Fresh(1)

FullBegin ==
    /\ reindexAsked
    /\ ~isWriting
    /\ reindexAsked' = FALSE
    /\ writer' = [NoWriter EXCEPT !.op = "full", !.pc = "clear"]
    /\ UNCHANGED <<disk, cache, currentDelta, owed, warm, persist, query>>

HydrateBegin(op) ==
    /\ "hydrate" \in Actors
    /\ ~isWriting
    /\ gen < MaxGen
    /\ writer' = IF op = "rebuild"
                 THEN [NoWriter EXCEPT !.op = op, !.pc = "clear"]
                 ELSE [NoWriter EXCEPT !.op = op, !.pc = "fill", !.todo = Files]
    /\ UNCHANGED <<disk, cache, currentDelta, owed, reindexAsked, warm, persist, query>>

(* clearAllStores: one transaction over every store, meta included.        *)
(* reindexAll leaves it out when the clean slate has done it.              *)
ClearStores ==
    /\ writer.pc = "clear"
    /\ \/ /\ chunks' = {}
          /\ blob' = NoBlob
          /\ signBlob' = {}
       \/ /\ writer.op = "full"
          /\ UNCHANGED <<chunks, blob, signBlob>>
    /\ indexedAt' = FALSE
    /\ writer' = [writer EXCEPT !.pc = "fill", !.todo = Files, !.unsynced = TRUE]
    /\ UNCHANGED <<cache, currentDelta, owed, reindexAsked, warm, persist, query>>

(* A note's chunk is embedded, or copied from a peer's shard; or the note  *)
(* is skipped (no chunk, not covered, a read or embed failure).            *)
FillFile(f, text) ==
    /\ writer.pc = "fill"
    /\ f \in writer.todo
    /\ chunks' = chunks \cup text
    /\ writer' = [writer EXCEPT !.todo = @ \ {f},
                                !.unsynced = @ \/ text \ chunks # {}]
    /\ UNCHANGED <<indexedAt, blob, signBlob, cache, currentDelta, owed, reindexAsked,
                   warm, persist, query>>

(* onGoodEnough: a greedy hydrate drops the caches in the middle of a pass.*)
GoodEnough ==
    /\ writer.op \in {"hydrate", "rebuild"}
    /\ writer.pc = "fill"
    /\ gen < MaxGen
    /\ InvalidateCaches
    /\ warm' = Detached(warm)
    /\ UNCHANGED <<disk, currentDelta, writer, owed, reindexAsked, persist>>

(* The hydrate section ends; afterHydrateExclusive runs off the mutex and  *)
(* drops the caches when something was restored.                           *)
HydrateEnd ==
    /\ writer.op \in {"hydrate", "rebuild"}
    /\ writer.pc = "fill"
    /\ writer.todo = {}
    /\ writer' = NoWriter
    /\ owed' = IF writer.unsynced THEN owed \cup {"drop"} ELSE owed
    /\ UNCHANGED <<disk, cache, currentDelta, reindexAsked, warm, persist, query>>

FullStamp ==
    /\ writer.op = "full"
    /\ writer.pc = "fill"
    /\ writer.todo = {}
    /\ indexedAt' = TRUE
    /\ writer' = [writer EXCEPT !.pc = "stamped"]
    /\ UNCHANGED <<chunks, blob, signBlob, cache, currentDelta, owed, reindexAsked,
                   warm, persist, query>>

(* The invalidation on completion, and the release. *)
FullEnd ==
    /\ writer.pc = "stamped"
    /\ InvalidateCaches
    /\ writer' = NoWriter
    /\ owed' = owed \cup {"warm"}
    /\ warm' = Detached(warm)
    /\ UNCHANGED <<disk, currentDelta, reindexAsked, persist>>

FillThrows ==
    /\ "throw" \in Actors
    /\ "threw" \notin faults
    /\ writer.op \in {"full", "hydrate", "rebuild"}
    /\ writer' = NoWriter
    /\ faults' = IF writer.unsynced THEN faults \cup {"threw"} ELSE faults
    /\ UNCHANGED <<disk, gen, frame, binary, bm25, currentDelta, owed, reindexAsked,
                   warm, persist, query>>

Fill ==
    \/ AskReindex \/ FullBegin
    \/ \E op \in {"hydrate", "rebuild"} : HydrateBegin(op)
    \/ ClearStores
    \/ \E f \in Files : \E text \in {{}} \cup {{c} : c \in Of(f)} : FillFile(f, text)
    \/ GoodEnough \/ HydrateEnd \/ FullStamp \/ FullEnd \/ FillThrows

-----------------------------------------------------------------------------
(* What a section's caller does once the mutex is free.                    *)

RewarmAfter ==
    /\ "warm" \in owed
    /\ owed' = owed \ {"warm"}
    /\ warm' = WarmRequested(FALSE)
    /\ UNCHANGED <<disk, cache, currentDelta, writer, reindexAsked, persist, query>>

(* maybePersistResidentBm25, throttled. *)
PersistAfter ==
    /\ "persist" \in owed
    /\ owed' = owed \ {"persist"}
    /\ persist' \in {persist} \cup
          IF frame # NoFrame /\ frame.gen = gen /\ Valid(frame.rows)
          THEN {PersistRequested} ELSE {}
    /\ UNCHANGED <<disk, cache, currentDelta, writer, reindexAsked, warm, query>>

(* A mutated form: the hydrate warms without dropping the caches. *)
DropAfterOnlyWarms ==
    /\ "drop" \in owed
    /\ owed' = owed \ {"drop"}
    /\ warm' = WarmRequested(FALSE)
    /\ UNCHANGED <<disk, cache, currentDelta, writer, reindexAsked, persist, query>>

(* afterHydrateExclusive *)
DropAfter ==
    /\ "drop" \in owed
    /\ owed' = owed \ {"drop"}
    /\ InvalidateCaches
    /\ warm' = IF warm.pc = "idle" THEN WarmRequested(FALSE) ELSE Detached(warm)
    /\ UNCHANGED <<disk, currentDelta, writer, reindexAsked, persist>>

After == RewarmAfter \/ PersistAfter \/ DropAfter

-----------------------------------------------------------------------------
(* runWarmCaches, with the ensureFrame it calls inlined.                   *)

(* modal-open, model-load (light: startup-good-enough, post-catchup). *)
WarmTrigger(light) ==
    /\ warm.pc = "idle"
    /\ light => "light" \in Actors
    /\ warm' = WarmRequested(light)
    /\ UNCHANGED <<disk, cache, currentDelta, writer, owed, reindexAsked, persist, query>>

(* The resident frame will do: it is current, or a writer is at work. *)
FrameHit == frame # NoFrame /\ (frame.gen = gen \/ isWriting)

WarmHit ==
    /\ warm.pc \in {"frame", "poll"}
    /\ FrameHit
    /\ warm' = [warm EXCEPT !.pc = "bm25", !.rows = {}, !.attached = TRUE]
    /\ UNCHANGED <<disk, cache, currentDelta, writer, owed, reindexAsked, persist, query>>

(* No frame and a writer: poll until it is done, 30 s at most. *)
WarmPoll ==
    /\ warm.pc = "frame"
    /\ ~currentDelta
    /\ frame = NoFrame /\ isWriting
    /\ warm' = [warm EXCEPT !.pc = "poll"]
    /\ UNCHANGED <<disk, cache, currentDelta, writer, owed, reindexAsked, persist, query>>

(* buildGeneration is taken and listAllMeta read. *)
WarmRead ==
    /\ \/ warm.pc = "frame" /\ ~currentDelta /\ ~isWriting
       \/ warm.pc = "poll"
    /\ ~FrameHit
    /\ warm' = [warm EXCEPT !.pc = "binary", !.meta = chunks, !.from = gen,
                            !.loaded = FALSE]
    /\ UNCHANGED <<disk, cache, currentDelta, writer, owed, reindexAsked, persist, query>>

(* tryLoadPersistedSignFrame found a blob that covers the meta rows read.  *)
(* It is stamped with the generation of this moment.                       *)
WarmLoadSigns ==
    /\ warm.pc = "binary"
    /\ warm.meta # {} /\ warm.meta \subseteq signBlob
    /\ indexedAt
    /\ binary' = [rows |-> signBlob, gen |-> gen]
    /\ faults' = IF warm.from = gen THEN faults ELSE faults \cup {"signLoad"}
    /\ warm' = [warm EXCEPT !.pc = "assemble", !.loaded = TRUE]
    /\ UNCHANGED <<disk, gen, frame, bm25, currentDelta, writer, owed, reindexAsked,
                   persist, query>>

(* ensureBinaryIndex: the resident sign vectors if they carry the current  *)
(* generation, else the rows of the store.                                 *)
WarmWalkSigns ==
    /\ warm.pc = "binary"
    /\ warm.meta = {} \/ ~(warm.meta \subseteq signBlob) \/ ~indexedAt
    /\ binary' = IF binary.gen = gen THEN binary
                 ELSE IF chunks = {} THEN NoFrame
                 ELSE [rows |-> chunks, gen |-> gen]
    /\ warm' = [warm EXCEPT !.pc = "assemble"]
    /\ UNCHANGED <<disk, gen, frame, bm25, faults, currentDelta, writer, owed,
                   reindexAsked, persist, query>>

(* shouldDiscardPartialFrame: the generation moved during the build. *)
WarmDiscard ==
    /\ warm.pc = "assemble"
    /\ warm.from # gen
    /\ warm' = [warm EXCEPT !.pc = "frame"]
    /\ UNCHANGED <<disk, cache, currentDelta, writer, owed, reindexAsked, persist, query>>

(* An empty index: no frame, the warm ends. *)
WarmEmpty ==
    /\ warm.pc = "assemble"
    /\ warm.from = gen
    /\ warm.meta = {} \/ binary = NoFrame
    /\ frame' = NoFrame
    /\ warm' = NoWarm
    /\ query' = Detached(query)
    /\ UNCHANGED <<disk, gen, binary, bm25, faults, currentDelta, writer, owed,
                   reindexAsked, persist>>

(* A frame built under a writer is used but not cached. *)
WarmAssembleUncached ==
    /\ warm.pc = "assemble"
    /\ warm.from = gen
    /\ isWriting
    /\ warm.meta # {} /\ binary # NoFrame
    /\ warm' = [warm EXCEPT !.pc = "bm25", !.attached = FALSE,
                            !.rows = warm.meta \cap binary.rows]
    /\ UNCHANGED <<disk, cache, currentDelta, writer, owed, reindexAsked, persist, query>>

(* A mutated form: no check of the generation the build started from. *)
WarmCacheStale ==
    /\ warm.pc = "assemble"
    /\ ~isWriting
    /\ warm.meta # {} /\ binary # NoFrame
    /\ frame' = [rows |-> warm.meta \cap binary.rows, gen |-> gen]
    /\ warm' = [warm EXCEPT !.pc = "bm25", !.attached = TRUE, !.rows = {}]
    /\ query' = Detached(query)
    /\ UNCHANGED <<disk, gen, binary, bm25, faults, currentDelta, writer, owed,
                   reindexAsked, persist>>

(* The frame becomes the cached one; freshly walked signs are persisted. *)
WarmCacheFrame ==
    /\ warm.pc = "assemble"
    /\ warm.from = gen
    /\ ~isWriting
    /\ warm.meta # {} /\ binary # NoFrame
    /\ frame' = [rows |-> warm.meta \cap binary.rows, gen |-> warm.from]
    /\ signBlob' = IF ~warm.loaded /\ binary.gen = gen /\ indexedAt
                         /\ warm.meta \subseteq binary.rows
                   THEN binary.rows ELSE signBlob
    /\ warm' = [warm EXCEPT !.pc = "bm25", !.attached = TRUE, !.rows = {}]
    /\ query' = Detached(query)
    /\ UNCHANGED <<chunks, indexedAt, blob, gen, binary, bm25, faults, currentDelta,
                   writer, owed, reindexAsked, persist>>

(* A valid BM25 cache is kept; else the persisted blob is read. *)
WarmReadBlob ==
    /\ warm.pc = "bm25"
    /\ warm' = IF Valid(Rows(warm)) THEN [warm EXCEPT !.pc = "loop"]
               ELSE IF blob.present THEN [warm EXCEPT !.pc = "load", !.docs = blob.docs]
               ELSE [warm EXCEPT !.pc = "fit"]
    /\ UNCHANGED <<disk, cache, currentDelta, writer, owed, reindexAsked, persist, query>>

(* tryLoadPersistedBm25 after its getMeta: rows from the frame, postings   *)
(* from the blob, the generation of this moment.                           *)
WarmLoadBlob ==
    /\ warm.pc = "load"
    /\ bm25' = IF indexedAt THEN [rows |-> Rows(warm), docs |-> warm.docs, gen |-> gen]
               ELSE bm25
    /\ warm' = [warm EXCEPT !.pc = "fit", !.docs = {}]
    /\ UNCHANGED <<disk, gen, frame, binary, faults, currentDelta, writer, owed,
                   reindexAsked, persist, query>>

WarmFit ==
    /\ warm.pc = "fit"
    /\ warm' = [warm EXCEPT !.pc = IF Valid(Rows(warm)) \/ isWriting
                                   THEN "loop" ELSE "fitting"]
    /\ UNCHANGED <<disk, cache, currentDelta, writer, owed, reindexAsked, persist, query>>

(* ensureBm25 after fitAsync: stamped with the generation of this moment. *)
WarmFitted ==
    /\ warm.pc = "fitting"
    /\ bm25' = [rows |-> Rows(warm), docs |-> Rows(warm), gen |-> gen]
    /\ warm' = [warm EXCEPT !.pc = "loop"]
    /\ UNCHANGED <<disk, gen, frame, binary, faults, currentDelta, writer, owed,
                   reindexAsked, persist, query>>

(* Another round while BM25 is behind; a light warm makes one round only. *)
WarmLoop ==
    /\ warm.pc = "loop"
    /\ IF ~warm.light /\ bm25.gen # gen
       THEN /\ warm' = [NoWarm EXCEPT !.pc = "frame"]
            /\ UNCHANGED persist
       ELSE /\ warm' = NoWarm
            /\ persist' = IF bm25.gen = gen THEN PersistRequested ELSE persist
    /\ UNCHANGED <<disk, cache, currentDelta, writer, owed, reindexAsked, query>>

WarmStep ==
    \/ WarmHit \/ WarmPoll \/ WarmRead \/ WarmLoadSigns \/ WarmWalkSigns
    \/ WarmDiscard \/ WarmEmpty \/ WarmAssembleUncached \/ WarmCacheFrame
    \/ WarmReadBlob \/ WarmLoadBlob \/ WarmFit \/ WarmFitted \/ WarmLoop

-----------------------------------------------------------------------------
(* persistBm25.                                                            *)

(* After its getMeta the index is serialised. *)
PersistRead ==
    /\ persist.pc = "meta"
    /\ persist' = IF indexedAt /\ bm25 # NoBm25
                  THEN [pc |-> "put", docs |-> bm25.docs] ELSE NoPersist
    /\ UNCHANGED <<disk, cache, currentDelta, writer, owed, reindexAsked, warm, query>>

PersistPut ==
    /\ persist.pc = "put"
    /\ blob' = [present |-> TRUE, docs |-> persist.docs]
    /\ persist' = NoPersist
    /\ UNCHANGED <<chunks, indexedAt, signBlob, cache, currentDelta, writer, owed,
                   reindexAsked, warm, query>>

-----------------------------------------------------------------------------
(* One search.                                                             *)

(* peekResidentFrame; without a frame the search is served from the vault. *)
QueryPeek ==
    /\ "query" \in Actors
    /\ query.pc = "idle"
    /\ frame.rows # {} /\ FrameHit
    /\ query' = [NoQuery EXCEPT !.pc = "bm25", !.attached = TRUE]
    /\ UNCHANGED <<disk, cache, currentDelta, writer, owed, reindexAsked, warm, persist>>

QueryReadBlob ==
    /\ query.pc = "bm25"
    /\ query' = IF Valid(Rows(query)) THEN [query EXCEPT !.pc = "score"]
                ELSE IF blob.present /\ ~(bm25 # NoBm25 /\ isWriting)
                THEN [query EXCEPT !.pc = "load", !.docs = blob.docs]
                ELSE [query EXCEPT !.pc = "fit"]
    /\ UNCHANGED <<disk, cache, currentDelta, writer, owed, reindexAsked, warm, persist>>

QueryLoadBlob ==
    /\ query.pc = "load"
    /\ bm25' = IF indexedAt THEN [rows |-> Rows(query), docs |-> query.docs, gen |-> gen]
               ELSE bm25
    /\ query' = [query EXCEPT !.pc = "fit", !.docs = {}]
    /\ UNCHANGED <<disk, gen, frame, binary, faults, currentDelta, writer, owed,
                   reindexAsked, warm, persist>>

(* ensureBm25 leaves the fit to a warm in flight, and to later under a writer. *)
QueryFit ==
    /\ query.pc = "fit"
    /\ query' = [query EXCEPT !.pc =
                    IF Valid(Rows(query)) \/ warm.pc # "idle" \/ isWriting
                    THEN "score" ELSE "fitting"]
    /\ UNCHANGED <<disk, cache, currentDelta, writer, owed, reindexAsked, warm, persist>>

QueryFitted ==
    /\ query.pc = "fitting"
    /\ bm25' = [rows |-> Rows(query), docs |-> Rows(query), gen |-> gen]
    /\ query' = [query EXCEPT !.pc = "score"]
    /\ UNCHANGED <<disk, gen, frame, binary, faults, currentDelta, writer, owed,
                   reindexAsked, warm, persist>>

(* No BM25 index, or one that passes the drift detector: the search ends. *)
QueryServe ==
    /\ query.pc = "score"
    /\ bm25 # NoBm25 => Cardinality(bm25.rows) = Cardinality(Rows(query))
    /\ query' = NoQuery
    /\ UNCHANGED <<disk, cache, currentDelta, writer, owed, reindexAsked, warm, persist>>

(* onCoherenceDrift: the caches go, the re-warm is rate-limited. *)
QueryDrift ==
    /\ query.pc = "score"
    /\ bm25 # NoBm25 /\ bm25.rows # Rows(query)
    /\ gen < MaxGen
    /\ frame' = NoFrame
    /\ binary' = NoFrame
    /\ bm25' = NoBm25
    /\ gen' = gen + 1
    /\ faults' = {}
    /\ query' = NoQuery
    /\ warm' \in {Detached(warm)} \cup (IF warm.pc = "idle" THEN {WarmRequested(FALSE)} ELSE {})
    /\ UNCHANGED <<disk, currentDelta, writer, owed, reindexAsked, persist>>

(* The modal aborts the search at one of its awaits. *)
QueryAbort ==
    /\ query.pc # "idle"
    /\ query' = NoQuery
    /\ UNCHANGED <<disk, cache, currentDelta, writer, owed, reindexAsked, warm, persist>>

Query ==
    \/ QueryPeek \/ QueryReadBlob \/ QueryLoadBlob \/ QueryFit \/ QueryFitted
    \/ QueryServe \/ QueryDrift \/ QueryAbort

-----------------------------------------------------------------------------

(* The process dies and comes back; IndexedDB keeps what was committed. *)
Restart ==
    /\ "restart" \in Actors
    /\ Fresh(0)
    /\ reindexAsked' = FALSE
    /\ UNCHANGED disk

Next ==
    \/ Delta \/ Fill \/ After
    \/ \E light \in BOOLEAN : WarmTrigger(light)
    \/ WarmStep
    \/ PersistRead \/ PersistPut
    \/ Query
    \/ Restart

(* The event loop runs what is ready: a section that has begun goes on to  *)
(* its release, a warm to its end, a promise that was kicked off settles.  *)
(* Nothing has to be asked for.                                            *)
WriterStep ==
    \/ (Delta \/ Fill) /\ isWriting
    \/ FullBegin

Fairness ==
    /\ WF_vars(WriterStep)
    /\ WF_vars(WarmStep)
    /\ WF_vars(RewarmAfter) /\ WF_vars(PersistAfter) /\ WF_vars(DropAfter)
    /\ WF_vars(PersistRead \/ PersistPut)
    /\ WF_vars(Query /\ query.pc # "idle")

Spec == Init /\ [][Next]_vars /\ Fairness

-----------------------------------------------------------------------------
(* Safety.                                                                 *)

(* The store has moved and the generation has not followed yet. *)
unsynced == writer.unsynced \/ "drop" \in owed

(* A frame that carries the current generation shows the rows of the       *)
(* store, no more and no less, unless a fault outside F put it out of step *)
(* or a section is between its writes and its bump.                        *)
FreshUnless(F) ==
    frame.gen = gen /\ ~unsynced /\ faults \subseteq F => frame.rows = chunks

(* peekResidentFrame trusts a frame by its generation alone                *)
(* (cache-manager.ts): however deltas, reindexes, hydrates, warms and      *)
(* searches interleave, a frame it trusts is the index of the store, as    *)
(* long as none of the three faults has occurred.                          *)
FrameFresh == FreshUnless({})

(* The inductive invariant behind FrameFresh.                              *)

(* The writer's notes: where it is, and that what it has committed is not  *)
(* still to come.                                                          *)
WriterInv ==
    /\ isWriting <=> writer.pc # "idle"
    /\ ~isWriting => ~writer.unsynced
    /\ writer.op = "delta" <=>
          writer.pc \in {"drop", "embed", "apply", "patched", "rebuilt"}
    /\ writer.pc \in {"patched", "rebuilt"} => ~writer.unsynced
    /\ writer.pc \in {"drop", "clear"} => writer.adds = {}
    /\ writer.pc = "embed" => writer.drops = {}
    /\ writer.pc = "apply" => writer.unsynced
    /\ writer.cur # {} => writer.pc = "embed" /\ writer.unsynced
    /\ \A c \in writer.adds \cup writer.cur : c[1] \notin writer.todo \cup writer.drops

(* The change-set a delta gathers turns the frame it found into the store. *)
ChangeSetInv ==
    (/\ writer.pc \in {"drop", "embed", "apply"}
     /\ frame.gen = gen /\ "drop" \notin owed /\ faults = {} /\ ~writer.skip)
    => (frame.rows \ writer.removed) \cup writer.adds = chunks

(* A build that will not be discarded read the store of this generation. *)
BuildInv ==
    (/\ warm.pc \in {"binary", "assemble"}
     /\ warm.from = gen /\ ~unsynced /\ faults = {})
    => /\ warm.meta = chunks
       /\ warm.pc = "assemble" => binary.gen = gen \/ binary = NoFrame

(* The resident sign vectors cover the store of their generation. *)
SignsInv ==
    binary.gen = gen /\ ~unsynced /\ faults = {} => chunks \subseteq binary.rows

(* Nothing is stamped with a generation to come. *)
StampInv ==
    /\ frame.gen <= gen
    /\ binary.gen <= gen
    /\ warm.from <= gen
    /\ binary.gen = NoGen => binary = NoFrame
    /\ frame.gen = NoGen => frame = NoFrame

FreshInv == WriterInv /\ StampInv /\ FrameFresh /\ ChangeSetInv /\ BuildInv /\ SignsInv

-----------------------------------------------------------------------------
(* What the comments say, and the code does not keep.                      *)

(* No section runs or owes anything, no warm is in flight, and both caches *)
(* carry the current generation: what a search would serve from.           *)
Settled ==
    /\ ~isWriting /\ owed = {} /\ warm.pc = "idle"
    /\ frame # NoFrame /\ frame.gen = gen
    /\ bm25.gen = gen

(* search.ts: after a patch or a rebuild alike "the next search sees a     *)
(* correct cache": every chunk of the frame has its postings.              *)
LexicallyComplete == Settled => frame.rows \subseteq bm25.docs

(* search.ts: "Any store mutation must reach the in-memory caches", also   *)
(* those of a delta whose later step throws.                               *)
FreshAfterThrow == FreshUnless({"threw"})

(* sign-frame-persist.ts: a chunk the persisted sign frame lacks "forces   *)
(* the walk" of the rows, so a frame built from the blob is complete.      *)
FreshAfterSignLoad == FreshUnless({"signLoad"})

-----------------------------------------------------------------------------
(* Liveness.                                                               *)

(* Once the writers rest, a warm in flight ends: no latch it waits for is  *)
(* left set, no round of its loop repeats for ever.                        *)
WarmEnds == <>[]~isWriting => []<>(warm.pc = "idle")

=============================================================================
