------------------------------ MODULE RowSpaces ------------------------------
(***************************************************************************)
(* The row numbers that ResidentCaches leaves out: the resident frame of    *)
(* src/src/search/frame-utils.ts, the MiniSearch index of                   *)
(* src/src/search/bm25.ts, and applyDelta of search.ts, which patches both  *)
(* in place.  One idx joins a row of the frame with the score of the same   *)
(* row of BM25, so the two numberings must agree.                           *)
(*                                                                         *)
(* A chunk id is a hash of path, title and text; what else of a chunk is    *)
(* indexed (tags, properties, links) is its tag, what is not (line numbers, *)
(* dates) is its line.  Neither enters the id.  Every step here holds the   *)
(* write mutex or is synchronous.                                           *)
(***************************************************************************)
EXTENDS Naturals, Sequences, FiniteSets, SequencesExt

CONSTANTS
  RsIds,        \* chunk ids
  RsNone,
  RsSteps,      \* bound: deltas, restarts, lost deltas
  RsDirtMax,    \* GHOST_DIRT_REFIT_THRESHOLD
  RsCompactAt   \* one row in so many is a hole: COMPACTION_TOMBSTONE_FRACTION

ASSUME RsAssumption == IsFiniteSet(RsIds) /\ RsDirtMax \in Nat /\ RsCompactAt \in Nat

VARIABLES
  rsStore,      \* IndexedDB: id -> its meta, or RsNone
  rsFrame,      \* ResidentFrame
  rsBm,         \* MultiFieldBM25
  rsBlob,       \* the persisted postings: id -> tag
  rsLost,       \* a delta reached the store and not the caches (history)
  rsLeft        \* steps still to come

rsVars == <<rsStore, rsFrame, rsBm, rsBlob, rsLost, rsLeft>>

Metas == [tag : {1, 2}, line : {1, 2}]
Stored(S) == {id \in RsIds : S[id] # RsNone}

---------------------------------------------------------------------------
(* The frame: rows are appended and tombstoned, never moved.                *)

Row(id, m) == [id |-> id, meta |-> m, valid |-> TRUE]
\* One row for each of the ids, in an order of its own.
RowSeq(ids, S) == SetToSeq({Row(id, S[id]) : id \in ids})
AppendFrameRows(rows, fresh) == rows \o fresh
TombstoneFrameRows(rows, holes) ==
  [i \in DOMAIN rows |-> IF i \in holes THEN [rows[i] EXCEPT !.valid = FALSE] ELSE rows[i]]
Tombstones(rows) == {i \in DOMAIN rows : ~rows[i].valid}

---------------------------------------------------------------------------
(* The index: row (idToIdx), count (chunkCount), post (the document under   *)
(* each id, by its tag), dirt (discarded postings), torn (a removal that    *)
(* did not find the postings it looked for).                                *)

RowMap(rows) == [id \in RsIds |-> IF \E i \in DOMAIN rows : rows[i].id = id
                                  THEN CHOOSE i \in DOMAIN rows : rows[i].id = id
                                  ELSE 0]
FromJSON(post, rows) == [row |-> RowMap(rows), count |-> Len(rows), post |-> post,
                         dirt |-> 0, torn |-> FALSE]
Fit(rows) ==
  FromJSON([id \in RsIds |-> IF RowMap(rows)[id] = 0 THEN RsNone
                             ELSE rows[RowMap(rows)[id]].meta.tag], rows)

IsLive(bm, id) == bm.row[id] # 0

\* add, of each of a sequence of ids that are not live: the next row is its
\* own, and a ghost posting under the id is discarded first.
Add(bm, adds) ==
  LET new   == {adds[k].id : k \in DOMAIN adds}
      at(id) == CHOOSE k \in DOMAIN adds : adds[k].id = id
  IN  [row   |-> [id \in RsIds |-> IF id \in new THEN bm.count + at(id) ELSE bm.row[id]],
       count |-> bm.count + Len(adds),
       post  |-> [id \in RsIds |-> IF id \in new THEN adds[at(id)].meta.tag ELSE bm.post[id]],
       dirt  |-> bm.dirt + Cardinality({id \in new : bm.post[id] # RsNone}),
       torn  |-> bm.torn]

\* removeExact, of each of a set of live ids: it rebuilds the document from the
\* meta of the id's row, which may not be the document that was indexed.
Mismatch(rows, bm, id) ==
  bm.post[id] # RsNone /\ bm.post[id] # rows[bm.row[id]].meta.tag
RemoveExact(rows, bm, gone) ==
  [row   |-> [id \in RsIds |-> IF id \in gone THEN 0 ELSE bm.row[id]],
   count |-> bm.count,
   post  |-> [id \in RsIds |-> IF id \in gone THEN RsNone ELSE bm.post[id]],
   dirt  |-> bm.dirt,
   torn  |-> bm.torn \/ \E id \in gone : Mismatch(rows, bm, id)]

Coherent(rows, bm) ==
  /\ bm.count = Len(rows)
  /\ Cardinality({id \in RsIds : IsLive(bm, id)}) = Len(rows) - Cardinality(Tombstones(rows))
  /\ \A i \in DOMAIN rows : rows[i].valid => bm.row[rows[i].id] = i

---------------------------------------------------------------------------
(* applyDelta: removals, then the adds that are not live, then the meta     *)
(* patches; it declines whatever it cannot apply, and the caller rebuilds.  *)

FreshDeltaAdds(added, bm) == {id \in added : ~IsLive(bm, id)}

Removals(bm, removed) == {id \in removed : IsLive(bm, id)}

\* The meta patches: same id, same row.
KeptMeta(rows, bm, patches, S) == rows
SwapMeta(rows, bm, patches, S) ==
  [i \in DOMAIN rows |-> IF rows[i].id \in patches /\ bm.row[rows[i].id] = i
                         THEN [rows[i] EXCEPT !.meta = S[rows[i].id]] ELSE rows[i]]

Patch(rows, bm, removed, added, patches, S) ==
  LET gone  == Removals(bm, removed)
      bm1   == RemoveExact(rows, bm, gone)
      rows1 == TombstoneFrameRows(rows, {bm.row[id] : id \in gone})
      fresh == RowSeq(FreshDeltaAdds(added, bm1), S)
      bm2   == Add(bm1, fresh)
  IN  [rows |-> SwapMeta(AppendFrameRows(rows1, fresh), bm2, patches, S), bm |-> bm2]

AnyDoc(rows, bm, removed) == TRUE
RemovalsMatch(rows, bm, removed) == \A id \in Removals(bm, removed) : ~Mismatch(rows, bm, id)

Commits(p, removed, patches) ==
  /\ RemovalsMatch(rsFrame, rsBm, removed)
  /\ \A id \in patches : IsLive(p.bm, id)
  /\ Coherent(p.rows, p.bm)
  /\ RsCompactAt * Cardinality(Tombstones(p.rows)) < Len(p.rows) \/ Len(p.rows) = 0
  /\ p.bm.dirt < RsDirtMax
Rebuilt == /\ rsFrame' = RowSeq(Stored(rsStore'), rsStore')
           /\ rsBm' = Fit(rsFrame')
           /\ rsLost' = FALSE

\* reconcileGhostDirt: a refit once the discards add up.
ApplyDelta(removed, added, patches, S) ==
  LET p == Patch(rsFrame, rsBm, removed, added, patches, S)
  IN  IF Commits(p, removed, patches)
      THEN rsFrame' = p.rows /\ rsBm' = p.bm /\ UNCHANGED rsLost
      ELSE Rebuilt

---------------------------------------------------------------------------
(* A delta: chunks that went, chunks that came, chunks whose meta changed   *)
(* under the same id (diffFileAgainstStore).                                *)

NewMetas == [RsIds -> Metas \cup {RsNone}]
ReindexRows(S) == {id \in Stored(rsStore) \cap Stored(S) : S[id].tag # rsStore[id].tag}
MetaPatches(S) == {id \in Stored(rsStore) \cap Stored(S) :
                     S[id].tag = rsStore[id].tag /\ S[id].line # rsStore[id].line}

\* bodies: captureRemovalBodies has read the bodies of the rows that go.
\* A hydrate may bring chunks that are stored already (again).
Delta(S, again, bodies) ==
  LET removed == (Stored(rsStore) \ Stored(S)) \cup ReindexRows(S)
      added   == (Stored(S) \ Stored(rsStore)) \cup ReindexRows(S) \cup again
  IN  /\ rsStore' = S
      /\ IF bodies \/ Stored(rsStore) \subseteq Stored(S)
         THEN ApplyDelta(removed, added, MetaPatches(S), S)
         ELSE Rebuilt
      /\ UNCHANGED rsBlob

\* A delta that was applied to the store and not to the caches.
LostDelta(S) ==
  /\ rsStore' = S
  /\ rsLost' = TRUE
  /\ UNCHANGED <<rsFrame, rsBm, rsBlob>>

Invalidated == UNCHANGED <<rsStore, rsBlob>> /\ Rebuilt

\* persistBm25; a discarded posting is not written.
Persist == rsBlob' = rsBm.post /\ UNCHANGED <<rsStore, rsFrame, rsBm, rsLost>>

\* A cold start: the frame from the store, the postings from the blob.
Restart ==
  /\ rsFrame' = RowSeq(Stored(rsStore), rsStore)
  /\ rsBm' = FromJSON(rsBlob, rsFrame')
  /\ rsLost' = FALSE
  /\ UNCHANGED <<rsStore, rsBlob>>

RsInit ==
  /\ rsStore = [id \in RsIds |-> [tag |-> 1, line |-> 1]]
  /\ rsFrame = RowSeq(Stored(rsStore), rsStore)
  /\ rsBm = Fit(rsFrame)
  /\ rsBlob = rsBm.post
  /\ rsLost = FALSE
  /\ rsLeft = RsSteps

\* One chunk changes in a delta, or two.
Near(S) == Cardinality({id \in RsIds : S[id] # rsStore[id]}) \in 1 .. 2

RsNext ==
  \/ /\ rsLeft > 0 /\ rsLeft' = rsLeft - 1
     /\ \/ \E S \in {T \in NewMetas : Near(T)} :
             \/ \E again \in SUBSET Stored(S), bodies \in BOOLEAN : Delta(S, again, bodies)
             \/ LostDelta(S)
        \/ Restart
  \/ UNCHANGED rsLeft /\ (Persist \/ Invalidated)

RsSpec == RsInit /\ [][RsNext]_rsVars

---------------------------------------------------------------------------
(* Properties. *)

\* One row number means one chunk in the frame and in BM25, through any
\* history of patches, rebuilds, stale blobs and deltas the caches never heard
\* of; and as long as no delta was lost, patching in place has given the rows
\* a rebuild from the store would give.
RsJoined ==
  LET live == {i \in DOMAIN rsFrame : rsFrame[i].valid}
  IN  /\ Coherent(rsFrame, rsBm)
      /\ Cardinality({rsFrame[i].id : i \in live}) = Cardinality(live)
      /\ ~rsLost => {<<rsFrame[i].id, rsFrame[i].meta>> : i \in live} =
                    {<<id, rsStore[id]>> : id \in Stored(rsStore)}

\* No half-removed document survives: when the document a removal rebuilds is
\* not the one that was indexed, the patch is abandoned for a refit.
RsNoResidue == ~rsBm.torn

\* A row answers for the text it was indexed with (bm25-persist.ts: a stale
\* blob is "NEVER wrong text").
RsRightText ==
  \A i \in DOMAIN rsFrame :
    rsFrame[i].valid => rsBm.post[rsFrame[i].id] \in {RsNone, rsFrame[i].meta.tag}
=============================================================================
