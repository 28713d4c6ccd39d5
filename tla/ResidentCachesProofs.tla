------------------------ MODULE ResidentCachesProofs ------------------------
(***************************************************************************)
(* What holds of ResidentCaches for every set of notes and texts, every    *)
(* bound on the generation and every choice of the optional behaviours.    *)
(***************************************************************************)
EXTENDS ResidentCaches, TLAPS

LEMMA SentinelsTyped ==
  /\ NoFrame \in FrameType
  /\ NoBm25 \in Bm25Type
  /\ NoWriter \in WriterType
  /\ NoWarm \in WarmType
  /\ NoPersist \in PersistType
  /\ NoQuery \in QueryType
  /\ NoBlob \in [present : BOOLEAN, docs : SUBSET Chunk]
  <1>1. NoFrame \in FrameType
    BY DEF NoFrame, FrameType, NoGen, Gens
  <1>2. NoBm25 \in Bm25Type
    BY DEF NoBm25, Bm25Type, NoGen, Gens
  <1>3. NoWriter \in WriterType
    BY DEF NoWriter, WriterType
  <1>4. NoWarm \in WarmType
    BY DEF NoWarm, WarmType, NoGen, Gens
  <1>5. NoPersist \in PersistType /\ NoQuery \in QueryType
    BY DEF NoPersist, PersistType, NoQuery, QueryType
  <1>6. NoBlob \in [present : BOOLEAN, docs : SUBSET Chunk]
    BY DEF NoBlob
  <1> QED
    BY <1>1, <1>2, <1>3, <1>4, <1>5, <1>6

LEMMA InitTyped == Init => TypeOK
  <1> SUFFICES ASSUME Init PROVE TypeOK
    OBVIOUS
  <1>1. chunks \subseteq Chunk /\ signBlob \subseteq Chunk
    BY CacheConstants DEF Init, Chunk
  <1>2. blob \in [present : BOOLEAN, docs : SUBSET Chunk]
    <2>1. CASE blob = NoBlob
      BY <2>1, SentinelsTyped
    <2>2. CASE blob = [present |-> TRUE, docs |-> chunks]
      BY <1>1, <2>2
    <2> QED
      BY <2>1, <2>2 DEF Init
  <1> QED
    BY <1>1, <1>2, SentinelsTyped DEF Init, TypeOK

LEMMA DetachedTyped ==
  ASSUME TypeOK
  PROVE  Detached(warm) \in WarmType /\ Detached(query) \in QueryType
  BY DEF TypeOK, Detached, Rows, WarmType, QueryType, FrameType

LEMMA InvalidateTyped ==
  ASSUME TypeOK, InvalidateCaches
  PROVE  /\ frame' \in FrameType /\ binary' \in FrameType /\ bm25' \in Bm25Type
         /\ gen' \in Nat /\ faults' \subseteq Faults /\ query' \in QueryType
  BY DetachedTyped, SentinelsTyped DEF InvalidateCaches, TypeOK

LEMMA FreshTyped ==
  ASSUME NEW g \in Nat, Fresh(g)
  PROVE  /\ gen' \in Nat /\ currentDelta' \in BOOLEAN
         /\ frame' \in FrameType /\ binary' \in FrameType /\ bm25' \in Bm25Type
         /\ writer' \in WriterType /\ owed' = {} /\ warm' \in WarmType
         /\ persist' \in PersistType /\ query' \in QueryType /\ faults' = {}
  BY SentinelsTyped DEF Fresh

LEMMA DeltaTyped ==
  ASSUME TypeOK, Delta
  PROVE  TypeOK'
  <1>1. ASSUME NEW drops \in SUBSET Files, NEW todo \in SUBSET Files,
               DeltaBegin(drops, todo)
        PROVE  TypeOK'
    <2>1. writer' \in WriterType
      BY <1>1, SentinelsTyped DEF DeltaBegin, TypeOK, WriterType, NoWriter
    <2> QED
      BY <1>1, <2>1 DEF DeltaBegin, TypeOK, disk, cache
  <1>2. ASSUME NEW f \in Files,
               DropFile(f)
        PROVE  TypeOK'
    <2>1. writer' \in WriterType
      BY <1>2 DEF DropFile, TypeOK, WriterType
    <2> QED
      BY <1>2, <2>1 DEF DropFile, TypeOK, cache
  <1>3. CASE DropsDone
    <2>1. writer' \in WriterType
      BY <1>3 DEF DropsDone, TypeOK, WriterType
    <2> QED
      BY <1>3, <2>1 DEF DropsDone, TypeOK, disk, cache
  <1>4. ASSUME NEW f \in Files, NEW v \in Versions,
               CarryOver(f, v)
        PROVE  TypeOK'
    <2>1. writer' \in WriterType
      BY <1>4 DEF CarryOver, TypeOK, WriterType
    <2> QED
      BY <1>4, <2>1 DEF CarryOver, TypeOK, cache, Chunk
  <1>5. ASSUME NEW f \in Files, NEW text \in {{}} \cup {{c} : c \in Of(f)},
               ReadFile(f, text)
        PROVE  TypeOK'
    <2>1. text \subseteq Chunk
      BY DEF Of
    <2>2. writer' \in WriterType
      BY <1>5, <2>1 DEF ReadFile, TypeOK, WriterType
    <2> QED
      BY <1>5, <2>1, <2>2 DEF ReadFile, TypeOK, cache
  <1>6. CASE CommitFile
    <2>1. writer' \in WriterType
      BY <1>6 DEF CommitFile, TypeOK, WriterType
    <2> QED
      BY <1>6, <2>1 DEF CommitFile, TypeOK, cache, WriterType
  <1>7. ASSUME NEW unwound \in BOOLEAN,
               EmbedFails(unwound)
        PROVE  TypeOK'
    <2>1. writer' \in WriterType
      BY <1>7 DEF EmbedFails, TypeOK, WriterType
    <2> QED
      BY <1>7, <2>1 DEF EmbedFails, TypeOK, disk, cache
  <1>8. CASE StopBurst
    <2>1. writer' \in WriterType
      BY <1>8 DEF StopBurst, TypeOK, WriterType
    <2> QED
      BY <1>8, <2>1 DEF StopBurst, TypeOK, disk, cache
  <1>9. CASE NothingToDo
    <2>1. writer' \in WriterType
      BY <1>9, SentinelsTyped DEF NothingToDo, TypeOK, WriterType, NoWriter
    <2> QED
      BY <1>9, <2>1 DEF NothingToDo, TypeOK, disk, cache
  <1>10. CASE EmbedDone
    <2>1. writer' \in WriterType
      BY <1>10 DEF EmbedDone, TypeOK, WriterType
    <2> QED
      BY <1>10, <2>1 DEF EmbedDone, TypeOK, cache
  <1>11. CASE PatchCaches
    <2>1. writer' \in WriterType
      BY <1>11 DEF PatchCaches, TypeOK, WriterType
    <2>2. frame' \in FrameType
      BY <1>11 DEF PatchCaches, TypeOK, FrameType, RemovedRows, FreshAdds, Gens, WriterType, Bm25Type
    <2>3. bm25' \in Bm25Type
      BY <1>11 DEF PatchCaches, TypeOK, Bm25Type, RemovedRows, FreshAdds, Gens, WriterType, FrameType
    <2> QED
      BY <1>11, <2>1, <2>2, <2>3 DEF PatchCaches, TypeOK, disk, Faults
  <1>12. CASE FallbackRebuild
    <2>1. writer' \in WriterType
      BY <1>12 DEF FallbackRebuild, TypeOK, WriterType
    <2>2. warm' \in WarmType
      BY <1>12, DetachedTyped DEF FallbackRebuild, TypeOK, WarmType
    <2> QED
      BY <1>12, <2>1, <2>2, InvalidateTyped DEF FallbackRebuild, TypeOK, disk
  <1>13. CASE DeltaEnd
    <2>1. writer' \in WriterType
      BY <1>13, SentinelsTyped DEF DeltaEnd, TypeOK, WriterType, NoWriter
    <2> QED
      BY <1>13, <2>1 DEF DeltaEnd, TypeOK, cache
  <1>14. CASE DeltaThrows
    <2>1. writer' \in WriterType
      BY <1>14, SentinelsTyped DEF DeltaThrows, TypeOK, WriterType, NoWriter
    <2> QED
      BY <1>14, <2>1 DEF DeltaThrows, TypeOK, disk, Faults
  <1> QED
    BY <1>1, <1>2, <1>3, <1>4, <1>5, <1>6, <1>7, <1>8, <1>9, <1>10, <1>11, <1>12, <1>13, <1>14 DEF Delta

LEMMA FillTyped ==
  ASSUME TypeOK, Fill
  PROVE  TypeOK'
  <1>1. CASE AskReindex
    <2> QED
      BY <1>1, FreshTyped, SentinelsTyped DEF AskReindex, TypeOK
  <1>2. CASE FullBegin
    <2>1. writer' \in WriterType
      BY <1>2, SentinelsTyped DEF FullBegin, TypeOK, WriterType, NoWriter
    <2> QED
      BY <1>2, <2>1 DEF FullBegin, TypeOK, disk, cache
  <1>3. ASSUME NEW op \in {"hydrate", "rebuild"},
               HydrateBegin(op)
        PROVE  TypeOK'
    <2>1. writer' \in WriterType
      BY <1>3, SentinelsTyped DEF HydrateBegin, TypeOK, WriterType, NoWriter
    <2> QED
      BY <1>3, <2>1 DEF HydrateBegin, TypeOK, disk, cache
  <1>4. CASE ClearStores
    <2>1. writer' \in WriterType
      BY <1>4 DEF ClearStores, TypeOK, WriterType
    <2> QED
      BY <1>4, <2>1, SentinelsTyped DEF ClearStores, TypeOK, cache
  <1>5. ASSUME NEW f \in Files, NEW text \in {{}} \cup {{c} : c \in Of(f)},
               FillFile(f, text)
        PROVE  TypeOK'
    <2>1. text \subseteq Chunk
      BY DEF Of
    <2>2. writer' \in WriterType
      BY <1>5, <2>1 DEF FillFile, TypeOK, WriterType
    <2> QED
      BY <1>5, <2>1, <2>2 DEF FillFile, TypeOK, cache
  <1>6. CASE GoodEnough
    <2>1. warm' \in WarmType
      BY <1>6, DetachedTyped DEF GoodEnough, TypeOK, WarmType
    <2> QED
      BY <1>6, <2>1, InvalidateTyped DEF GoodEnough, TypeOK, disk
  <1>7. CASE HydrateEnd
    <2>1. writer' \in WriterType
      BY <1>7, SentinelsTyped DEF HydrateEnd, TypeOK, WriterType, NoWriter
    <2> QED
      BY <1>7, <2>1 DEF HydrateEnd, TypeOK, disk, cache
  <1>8. CASE FullStamp
    <2>1. writer' \in WriterType
      BY <1>8 DEF FullStamp, TypeOK, WriterType
    <2> QED
      BY <1>8, <2>1 DEF FullStamp, TypeOK, cache
  <1>9. CASE FullEnd
    <2>1. writer' \in WriterType
      BY <1>9, SentinelsTyped DEF FullEnd, TypeOK, WriterType, NoWriter
    <2>2. warm' \in WarmType
      BY <1>9, DetachedTyped DEF FullEnd, TypeOK, WarmType
    <2> QED
      BY <1>9, <2>1, <2>2, InvalidateTyped DEF FullEnd, TypeOK, disk
  <1>10. CASE FillThrows
    <2>1. writer' \in WriterType
      BY <1>10, SentinelsTyped DEF FillThrows, TypeOK, WriterType, NoWriter
    <2> QED
      BY <1>10, <2>1 DEF FillThrows, TypeOK, disk, Faults
  <1> QED
    BY <1>1, <1>2, <1>3, <1>4, <1>5, <1>6, <1>7, <1>8, <1>9, <1>10 DEF Fill

LEMMA AfterTyped ==
  ASSUME TypeOK, After
  PROVE  TypeOK'
  <1>1. CASE RewarmAfter
    <2>1. warm' \in WarmType
      BY <1>1 DEF RewarmAfter, TypeOK, WarmType, WarmRequested, NoWarm, NoGen, Gens
    <2> QED
      BY <1>1, <2>1 DEF RewarmAfter, TypeOK, disk, cache
  <1>2. CASE PersistAfter
    <2>1. persist' \in PersistType
      BY <1>2, SentinelsTyped DEF PersistAfter, TypeOK, PersistType, PersistRequested, Valid, NoPersist, FrameType
    <2> QED
      BY <1>2, <2>1 DEF PersistAfter, TypeOK, disk, cache
  <1>3. CASE DropAfter
    <2>1. warm' \in WarmType
      BY <1>3, DetachedTyped DEF DropAfter, TypeOK, WarmType, WarmRequested, NoWarm, NoGen, Gens
    <2> QED
      BY <1>3, <2>1, InvalidateTyped DEF DropAfter, TypeOK, disk
  <1> QED
    BY <1>1, <1>2, <1>3 DEF After

LEMMA WarmStepTyped ==
  ASSUME TypeOK, WarmStep
  PROVE  TypeOK'
  <1>1. CASE WarmHit
    <2>1. warm' \in WarmType
      BY <1>1 DEF WarmHit, TypeOK, WarmType
    <2> QED
      BY <1>1, <2>1 DEF WarmHit, TypeOK, disk, cache
  <1>2. CASE WarmPoll
    <2>1. warm' \in WarmType
      BY <1>2 DEF WarmPoll, TypeOK, WarmType
    <2> QED
      BY <1>2, <2>1 DEF WarmPoll, TypeOK, disk, cache
  <1>3. CASE WarmRead
    <2>1. warm' \in WarmType
      BY <1>3 DEF WarmRead, TypeOK, WarmType, Gens
    <2> QED
      BY <1>3, <2>1 DEF WarmRead, TypeOK, disk, cache
  <1>4. CASE WarmLoadSigns
    <2>1. warm' \in WarmType
      BY <1>4 DEF WarmLoadSigns, TypeOK, WarmType
    <2>2. binary' \in FrameType
      BY <1>4 DEF WarmLoadSigns, TypeOK, FrameType, Gens
    <2> QED
      BY <1>4, <2>1, <2>2 DEF WarmLoadSigns, TypeOK, disk, Faults
  <1>5. CASE WarmWalkSigns
    <2>1. warm' \in WarmType
      BY <1>5 DEF WarmWalkSigns, TypeOK, WarmType
    <2>2. binary' \in FrameType
      BY <1>5, SentinelsTyped DEF WarmWalkSigns, TypeOK, FrameType, Gens
    <2> QED
      BY <1>5, <2>1, <2>2 DEF WarmWalkSigns, TypeOK, disk
  <1>6. CASE WarmDiscard
    <2>1. warm' \in WarmType
      BY <1>6 DEF WarmDiscard, TypeOK, WarmType
    <2> QED
      BY <1>6, <2>1 DEF WarmDiscard, TypeOK, disk, cache
  <1>7. CASE WarmEmpty
    <2>1. warm' \in WarmType
      BY <1>7, SentinelsTyped DEF WarmEmpty, TypeOK, WarmType, NoWarm
    <2>2. query' \in QueryType
      BY <1>7, DetachedTyped DEF WarmEmpty, TypeOK, QueryType
    <2>3. frame' \in FrameType
      BY <1>7, SentinelsTyped DEF WarmEmpty, TypeOK, FrameType, Gens
    <2> QED
      BY <1>7, <2>1, <2>2, <2>3 DEF WarmEmpty, TypeOK, disk
  <1>8. CASE WarmAssembleUncached
    <2>1. warm' \in WarmType
      BY <1>8 DEF WarmAssembleUncached, TypeOK, WarmType, FrameType
    <2> QED
      BY <1>8, <2>1 DEF WarmAssembleUncached, TypeOK, disk, cache
  <1>9. CASE WarmCacheFrame
    <2>1. warm' \in WarmType
      BY <1>9 DEF WarmCacheFrame, TypeOK, WarmType
    <2>2. query' \in QueryType
      BY <1>9, DetachedTyped DEF WarmCacheFrame, TypeOK, QueryType
    <2>3. frame' \in FrameType
      BY <1>9 DEF WarmCacheFrame, TypeOK, FrameType, Gens, WarmType
    <2> QED
      BY <1>9, <2>1, <2>2, <2>3 DEF WarmCacheFrame, TypeOK, FrameType
  <1>10. CASE WarmReadBlob
    <2>1. warm' \in WarmType
      BY <1>10 DEF WarmReadBlob, TypeOK, WarmType, Rows, Valid, FrameType, QueryType
    <2> QED
      BY <1>10, <2>1 DEF WarmReadBlob, TypeOK, disk, cache
  <1>11. CASE WarmLoadBlob
    <2>1. warm' \in WarmType
      BY <1>11 DEF WarmLoadBlob, TypeOK, WarmType
    <2>2. bm25' \in Bm25Type
      BY <1>11 DEF WarmLoadBlob, TypeOK, Bm25Type, Rows, FrameType, WarmType, QueryType, Gens
    <2> QED
      BY <1>11, <2>1, <2>2 DEF WarmLoadBlob, TypeOK, disk
  <1>12. CASE WarmFit
    <2>1. warm' \in WarmType
      BY <1>12 DEF WarmFit, TypeOK, WarmType, Rows, Valid, FrameType, QueryType
    <2> QED
      BY <1>12, <2>1 DEF WarmFit, TypeOK, disk, cache
  <1>13. CASE WarmFitted
    <2>1. warm' \in WarmType
      BY <1>13 DEF WarmFitted, TypeOK, WarmType
    <2>2. bm25' \in Bm25Type
      BY <1>13 DEF WarmFitted, TypeOK, Bm25Type, Rows, FrameType, WarmType, QueryType, Gens
    <2> QED
      BY <1>13, <2>1, <2>2 DEF WarmFitted, TypeOK, disk
  <1>14. CASE WarmLoop
    <2>1. warm' \in WarmType
      <3>1. [NoWarm EXCEPT !.pc = "frame"] \in WarmType
        BY SentinelsTyped DEF WarmType
      <3> QED
        BY <1>14, <3>1, SentinelsTyped DEF WarmLoop, TypeOK
    <2>2. persist' \in PersistType
      BY <1>14 DEF WarmLoop, TypeOK, PersistType, PersistRequested, NoPersist
    <2> QED
      BY <1>14, <2>1, <2>2 DEF WarmLoop, TypeOK, disk, cache
  <1> QED
    BY <1>1, <1>2, <1>3, <1>4, <1>5, <1>6, <1>7, <1>8, <1>9, <1>10, <1>11, <1>12, <1>13, <1>14 DEF WarmStep

LEMMA QueryTyped ==
  ASSUME TypeOK, Query
  PROVE  TypeOK'
  <1>1. CASE QueryPeek
    <2>1. query' \in QueryType
      BY <1>1, SentinelsTyped DEF QueryPeek, TypeOK, QueryType, NoQuery
    <2> QED
      BY <1>1, <2>1 DEF QueryPeek, TypeOK, disk, cache
  <1>2. CASE QueryReadBlob
    <2>1. query' \in QueryType
      BY <1>2, SentinelsTyped DEF QueryReadBlob, TypeOK, QueryType, Rows, Valid, FrameType, WarmType
    <2> QED
      BY <1>2, <2>1 DEF QueryReadBlob, TypeOK, disk, cache
  <1>3. CASE QueryLoadBlob
    <2>1. query' \in QueryType
      BY <1>3 DEF QueryLoadBlob, TypeOK, QueryType
    <2>2. bm25' \in Bm25Type
      BY <1>3 DEF QueryLoadBlob, TypeOK, Bm25Type, Rows, FrameType, WarmType, QueryType, Gens
    <2> QED
      BY <1>3, <2>1, <2>2 DEF QueryLoadBlob, TypeOK, disk
  <1>4. CASE QueryFit
    <2>1. query' \in QueryType
      BY <1>4 DEF QueryFit, TypeOK, QueryType, Rows, Valid, FrameType, WarmType
    <2> QED
      BY <1>4, <2>1 DEF QueryFit, TypeOK, disk, cache
  <1>5. CASE QueryFitted
    <2>1. query' \in QueryType
      BY <1>5 DEF QueryFitted, TypeOK, QueryType
    <2>2. bm25' \in Bm25Type
      BY <1>5 DEF QueryFitted, TypeOK, Bm25Type, Rows, FrameType, WarmType, QueryType, Gens
    <2> QED
      BY <1>5, <2>1, <2>2 DEF QueryFitted, TypeOK, disk
  <1>6. CASE QueryServe
    <2>1. query' \in QueryType
      BY <1>6, SentinelsTyped DEF QueryServe, TypeOK, QueryType, NoQuery
    <2> QED
      BY <1>6, <2>1 DEF QueryServe, TypeOK, disk, cache
  <1>7. CASE QueryDrift
    <2>1. WarmRequested(FALSE) \in WarmType
      BY SentinelsTyped DEF WarmRequested, TypeOK, WarmType, NoWarm
    <2>2. warm' \in WarmType
      BY <1>7, <2>1, DetachedTyped DEF QueryDrift
    <2> QED
      BY <1>7, <2>2, SentinelsTyped DEF QueryDrift, TypeOK, disk
  <1>8. CASE QueryAbort
    <2>1. query' \in QueryType
      BY <1>8, SentinelsTyped DEF QueryAbort, TypeOK, QueryType, NoQuery
    <2> QED
      BY <1>8, <2>1 DEF QueryAbort, TypeOK, disk, cache
  <1> QED
    BY <1>1, <1>2, <1>3, <1>4, <1>5, <1>6, <1>7, <1>8 DEF Query

LEMMA NextTyped ==
  ASSUME TypeOK, [Next]_vars
  PROVE  TypeOK'
  <1>1. ASSUME NEW light \in BOOLEAN, WarmTrigger(light) PROVE TypeOK'
    <2>1. warm' \in WarmType
      BY <1>1, SentinelsTyped DEF WarmTrigger, WarmRequested, TypeOK, WarmType, NoWarm
    <2> QED
      BY <1>1, <2>1 DEF WarmTrigger, TypeOK, disk, cache
  <1>2. CASE PersistRead
    <2>1. persist' \in PersistType
      BY <1>2, SentinelsTyped DEF PersistRead, TypeOK, PersistType, Bm25Type
    <2> QED
      BY <1>2, <2>1 DEF PersistRead, TypeOK, disk, cache
  <1>3. CASE PersistPut
    BY <1>3, SentinelsTyped DEF PersistPut, TypeOK, PersistType, cache
  <1>4. CASE Restart
    BY <1>4, FreshTyped DEF Restart, TypeOK, disk
  <1>5. CASE UNCHANGED vars
    BY <1>5 DEF vars, TypeOK
  <1> QED
    BY <1>1, <1>2, <1>3, <1>4, <1>5, DeltaTyped, FillTyped, AfterTyped, WarmStepTyped,
       QueryTyped DEF Next

(* The values the variables range over, whatever the constants are. *)
THEOREM TypesHold == Spec => []TypeOK
  <1>1. Init => TypeOK
    BY InitTyped
  <1>2. TypeOK /\ [Next]_vars => TypeOK'
    BY NextTyped
  <1> QED
    BY <1>1, <1>2, PTL DEF Spec

---------------------------------------------------------------------------
(* A frame that carries the current generation is the index of the store,  *)
(* for every set of notes and texts.  FrameFresh is not inductive: a delta *)
(* patches the frame from the change-set it gathered, and a warm publishes *)
(* what it read some awaits ago.  FreshInv says what the change-set and    *)
(* the reads in flight are worth; each action keeps it.                    *)

LEMMA InitFresh == Init => FreshInv
  BY DEF Init, FreshInv, WriterInv, StampInv, FrameFresh, FreshUnless, ChangeSetInv,
     BuildInv, SignsInv, isWriting, unsynced, NoWriter, NoWarm, NoFrame, NoGen

(* A step that moves neither the store, the frame, the signs nor the       *)
(* writer, and begins no build, changes nothing of it.                     *)
LEMMA QuietStep ==
  ASSUME FreshInv,
         UNCHANGED <<chunks, gen, frame, binary, writer, faults>>,
         "drop" \in owed' <=> "drop" \in owed,
         \/ /\ warm'.pc = warm.pc /\ warm'.from = warm.from /\ warm'.meta = warm.meta
         \/ /\ warm'.pc \notin {"binary", "assemble"}
            /\ warm'.from \in {warm.from, NoGen} /\ gen >= NoGen
  PROVE  FreshInv'
  <1>1. WriterInv'
    BY DEF FreshInv, WriterInv, isWriting
  <1>2. StampInv'
    BY DEF FreshInv, StampInv
  <1>3. unsynced' = unsynced
    BY DEF unsynced
  <1>4. FrameFresh' /\ SignsInv'
    BY <1>3 DEF FreshInv, FrameFresh, FreshUnless, SignsInv
  <1>5. ChangeSetInv'
    BY DEF FreshInv, ChangeSetInv
  <1>6. BuildInv'
    BY <1>3 DEF FreshInv, BuildInv
  <1> QED
    BY <1>1, <1>2, <1>4, <1>5, <1>6 DEF FreshInv

(* A step that drops the caches leaves nothing to be stale. *)
LEMMA DroppingStep ==
  ASSUME TypeOK, StampInv, WriterInv',
         gen' = gen + 1, frame' = NoFrame, binary' = NoFrame,
         warm'.from \in {warm.from, NoGen}
  PROVE  FreshInv'
  <1>1. gen \in Nat /\ warm.from <= gen /\ (warm.from \in Nat \/ warm.from = NoGen)
    BY DEF TypeOK, StampInv, WarmType, Gens
  <1>2. frame'.gen = NoGen /\ binary'.gen = NoGen /\ NoGen # gen'
    BY <1>1 DEF NoFrame, NoGen
  <1>3. warm'.from < gen'
    BY <1>1 DEF NoGen
  <1>4. StampInv'
    BY <1>1, <1>2, <1>3 DEF StampInv, NoGen
  <1>5. FrameFresh' /\ ChangeSetInv' /\ SignsInv'
    BY <1>2 DEF FrameFresh, FreshUnless, ChangeSetInv, SignsInv
  <1>6. BuildInv'
    BY <1>1, <1>3 DEF BuildInv, NoGen
  <1> QED
    BY <1>4, <1>5, <1>6 DEF FreshInv

(* A new process or orchestrator starts with nothing resident. *)
LEMMA FreshStart ==
  ASSUME NEW g \in Nat, Fresh(g)
  PROVE  FreshInv'
  BY DEF Fresh, FreshInv, WriterInv, StampInv, FrameFresh, FreshUnless, ChangeSetInv,
     BuildInv, SignsInv, isWriting, unsynced, NoWriter, NoWarm, NoFrame, NoGen

(* A section that writes the store and has not bumped the generation: only *)
(* its own bookkeeping is to be shown.                                     *)
LEMMA WritingStep ==
  ASSUME TypeOK, FreshInv, WriterInv', ChangeSetInv', unsynced',
         UNCHANGED <<gen, frame, binary, warm>>
  PROVE  FreshInv'
  <1>1. StampInv'
    BY DEF FreshInv, StampInv
  <1>2. FrameFresh' /\ BuildInv' /\ SignsInv'
    BY DEF FrameFresh, FreshUnless, BuildInv, SignsInv
  <1> QED
    BY <1>1, <1>2 DEF FreshInv

(* A section that moves on without touching the store or the caches. *)
LEMMA BookkeepingStep ==
  ASSUME TypeOK, FreshInv, WriterInv', ChangeSetInv',
         UNCHANGED <<chunks, gen, frame, binary, warm>>,
         unsynced => unsynced' \/ faults' # {},
         faults' = {} => faults = {}
  PROVE  FreshInv'
  <1>1. StampInv'
    BY DEF FreshInv, StampInv
  <1>2. FrameFresh'
    BY DEF FreshInv, FrameFresh, FreshUnless
  <1>3. BuildInv'
    BY DEF FreshInv, BuildInv
  <1>4. SignsInv'
    BY DEF FreshInv, SignsInv
  <1> QED
    BY <1>1, <1>2, <1>3, <1>4 DEF FreshInv

-----------------------------------------------------------------------------
(* reindexDelta.                                                           *)

LEMMA DeltaBeginKeeps ==
  ASSUME TypeOK, FreshInv, NEW drops \in SUBSET Files, NEW todo \in SUBSET Files,
         DeltaBegin(drops, todo)
  PROVE  FreshInv'
  <1>1. WriterInv'
    BY DEF DeltaBegin, WriterInv, isWriting, NoWriter
  <1>2. ~writer.unsynced /\ ~writer'.unsynced /\ owed' = owed
    BY DEF DeltaBegin, FreshInv, WriterInv, NoWriter
  <1>3. unsynced' = unsynced
    BY <1>2 DEF unsynced
  <1>4. ChangeSetInv'
    <2>1. writer'.removed = {} /\ writer'.adds = {}
      BY DEF DeltaBegin, NoWriter
    <2>2. UNCHANGED <<chunks, gen, frame, faults>>
      BY DEF DeltaBegin, disk, cache
    <2> QED
      BY <1>2, <2>1, <2>2 DEF FreshInv, FrameFresh, FreshUnless, unsynced, ChangeSetInv
  <1>5. UNCHANGED <<chunks, gen, frame, binary, warm, faults>>
    BY DEF DeltaBegin, disk, cache
  <1> QED
    BY <1>1, <1>3, <1>4, <1>5, BookkeepingStep

LEMMA DropFileKeeps ==
  ASSUME TypeOK, FreshInv, NEW f \in Files, DropFile(f)
  PROVE  FreshInv'
  <1>1. writer.adds = {} /\ writer.op = "delta"
    BY DEF DropFile, FreshInv, WriterInv
  <1>2. WriterInv'
    BY <1>1 DEF DropFile, FreshInv, WriterInv, TypeOK, WriterType, isWriting
  <1>3. ChangeSetInv'
    <2>1. /\ writer'.removed = writer.removed \cup (chunks \cap Of(f))
          /\ writer'.adds = {} /\ writer'.skip = writer.skip
          /\ chunks' = chunks \ Of(f)
          /\ writer.pc = "drop"
      BY <1>1 DEF DropFile, TypeOK, WriterType
    <2>2. UNCHANGED <<gen, frame, faults, owed>>
      BY DEF DropFile, cache
    <2> QED
      BY <1>1, <2>1, <2>2 DEF FreshInv, ChangeSetInv
  <1>4. unsynced' /\ UNCHANGED <<gen, frame, binary, warm>>
    BY DEF DropFile, unsynced, cache, TypeOK, WriterType
  <1> QED
    BY <1>2, <1>3, <1>4, WritingStep

LEMMA DropsDoneKeeps ==
  ASSUME TypeOK, FreshInv, DropsDone
  PROVE  FreshInv'
  <1>1. WriterInv'
    BY DEF DropsDone, FreshInv, WriterInv, TypeOK, WriterType, isWriting
  <1>2. /\ writer.pc = "drop"
        /\ writer'.removed = writer.removed /\ writer'.adds = writer.adds
        /\ writer'.skip = writer.skip /\ writer'.unsynced = writer.unsynced
    BY DEF DropsDone, TypeOK, WriterType
  <1>3. UNCHANGED <<chunks, gen, frame, binary, warm, faults, owed>>
    BY DEF DropsDone, disk, cache
  <1>4. ChangeSetInv'
    BY <1>2, <1>3 DEF FreshInv, ChangeSetInv
  <1>5. unsynced' = unsynced
    BY <1>2, <1>3 DEF unsynced
  <1> QED
    BY <1>1, <1>3, <1>4, <1>5, BookkeepingStep

LEMMA CarryOverKeeps ==
  ASSUME TypeOK, FreshInv, NEW f \in Files, NEW v \in Versions, CarryOver(f, v)
  PROVE  FreshInv'
  <1>1. WriterInv'
    BY DEF CarryOver, FreshInv, WriterInv, TypeOK, WriterType, isWriting
  <1>2. ChangeSetInv'
    BY DEF CarryOver, ChangeSetInv, TypeOK, WriterType
  <1>3. unsynced' /\ UNCHANGED <<gen, frame, binary, warm>>
    BY DEF CarryOver, unsynced, cache, TypeOK, WriterType
  <1> QED
    BY <1>1, <1>2, <1>3, WritingStep

LEMMA ReadFileKeeps ==
  ASSUME TypeOK, FreshInv, NEW f \in Files,
         NEW text \in {{}} \cup {{c} : c \in Of(f)}, ReadFile(f, text)
  PROVE  FreshInv'
  <1> DEFINE stale == (chunks \cap Of(f)) \ text
  <1>1. /\ writer.pc = "embed" /\ writer.cur = {} /\ f \in writer.todo
        /\ chunks' = chunks \ stale
        /\ writer'.pc = "embed" /\ writer'.op = writer.op
        /\ writer'.todo = writer.todo \ {f} /\ writer'.drops = writer.drops
        /\ writer'.removed = writer.removed \cup stale
        /\ writer'.adds = writer.adds
        /\ writer'.cur = text \ chunks /\ writer'.skip = writer.skip
        /\ writer'.unsynced
    BY DEF ReadFile, TypeOK, WriterType
  <1>2. \A c \in text \cup stale : c[1] = f
    BY DEF Of
  <1>3. \A c \in writer.adds : c[1] \notin writer.todo
    BY DEF FreshInv, WriterInv
  <1>4. WriterInv'
    <2>1. \A c \in writer'.adds \cup writer'.cur : c[1] \notin writer'.todo \cup writer'.drops
      BY <1>1, <1>2, <1>3 DEF FreshInv, WriterInv
    <2> QED
      BY <1>1, <2>1 DEF FreshInv, WriterInv, isWriting
  <1>5. stale \cap writer.adds = {}
    BY <1>1, <1>2, <1>3
  <1>6. ChangeSetInv'
    <2>1. UNCHANGED <<gen, frame, faults, owed>>
      BY DEF ReadFile, cache
    <2> QED
      BY <1>1, <1>5, <2>1 DEF FreshInv, ChangeSetInv
  <1>7. unsynced' /\ UNCHANGED <<gen, frame, binary, warm>>
    BY <1>1 DEF ReadFile, unsynced, cache
  <1> QED
    BY <1>4, <1>6, <1>7, WritingStep

LEMMA CommitFileKeeps ==
  ASSUME TypeOK, FreshInv, CommitFile
  PROVE  FreshInv'
  <1>1. /\ writer.pc = "embed" /\ writer.unsynced
        /\ chunks' = chunks \cup writer.cur
        /\ writer' = [writer EXCEPT !.cur = {}, !.adds = @ \cup writer.cur]
    BY DEF CommitFile, FreshInv, WriterInv
  <1>2. WriterInv'
    BY <1>1 DEF FreshInv, WriterInv, TypeOK, WriterType, isWriting
  <1>3. ChangeSetInv'
    <2>1. /\ writer'.adds = writer.adds \cup writer.cur
          /\ writer'.removed = writer.removed /\ writer'.skip = writer.skip
      BY <1>1 DEF TypeOK, WriterType
    <2>2. UNCHANGED <<gen, frame, faults, owed>>
      BY DEF CommitFile, cache
    <2> QED
      BY <1>1, <2>1, <2>2 DEF FreshInv, ChangeSetInv
  <1>4. unsynced' /\ UNCHANGED <<gen, frame, binary, warm>>
    BY <1>1 DEF CommitFile, unsynced, cache, TypeOK, WriterType
  <1> QED
    BY <1>2, <1>3, <1>4, WritingStep

(* The steps of the embed phase that only move the writer on. *)
LEMMA EmbedPhaseKeeps ==
  ASSUME TypeOK, FreshInv,
         (\E unwound \in BOOLEAN : EmbedFails(unwound)) \/ StopBurst \/ EmbedDone
  PROVE  FreshInv'
  <1>1. WriterInv'
    <2>1. CASE \E unwound \in BOOLEAN : EmbedFails(unwound)
      BY <2>1 DEF EmbedFails, FreshInv, WriterInv, TypeOK, WriterType, isWriting
    <2>2. CASE StopBurst
      BY <2>2 DEF StopBurst, FreshInv, WriterInv, TypeOK, WriterType, isWriting
    <2>3. CASE EmbedDone
      BY <2>3 DEF EmbedDone, FreshInv, WriterInv, TypeOK, WriterType, isWriting
    <2> QED
      BY <2>1, <2>2, <2>3
  <1>2. /\ writer.pc = "embed"
        /\ writer'.removed = writer.removed /\ writer'.adds = writer.adds
        /\ writer.skip => writer'.skip
        /\ writer'.unsynced = writer.unsynced
    BY DEF EmbedFails, StopBurst, EmbedDone, TypeOK, WriterType
  <1>3. UNCHANGED <<chunks, gen, frame, binary, warm, faults, owed>>
    BY DEF EmbedFails, StopBurst, EmbedDone, disk, cache
  <1>4. ChangeSetInv'
    BY <1>2, <1>3 DEF FreshInv, ChangeSetInv
  <1>5. unsynced' = unsynced
    BY <1>2, <1>3 DEF unsynced
  <1> QED
    BY <1>1, <1>3, <1>4, <1>5, BookkeepingStep

(* The section ends: no change-set is left to speak of. *)
LEMMA SectionEndKeeps ==
  ASSUME TypeOK, FreshInv,
         NothingToDo \/ DeltaEnd \/ DeltaThrows \/ HydrateEnd \/ FillThrows
  PROVE  FreshInv'
  <1>1. WriterInv' /\ ChangeSetInv'
    BY DEF NothingToDo, DeltaEnd, DeltaThrows, HydrateEnd, FillThrows, WriterInv,
       ChangeSetInv, isWriting, NoWriter
  <1>2. UNCHANGED <<chunks, gen, frame, binary, warm>>
    BY DEF NothingToDo, DeltaEnd, DeltaThrows, HydrateEnd, FillThrows, disk, cache
  <1>3. unsynced => unsynced' \/ faults' # {}
    <2>1. CASE NothingToDo \/ DeltaEnd
      BY <2>1 DEF NothingToDo, DeltaEnd, unsynced, FreshInv, WriterInv
    <2>2. CASE HydrateEnd
      BY <2>2 DEF HydrateEnd, unsynced
    <2>3. CASE DeltaThrows \/ FillThrows
      BY <2>3 DEF DeltaThrows, FillThrows, unsynced
    <2> QED
      BY <2>1, <2>2, <2>3
  <1>4. faults' = {} => faults = {}
    BY DEF NothingToDo, DeltaEnd, DeltaThrows, HydrateEnd, FillThrows, cache
  <1> QED
    BY <1>1, <1>2, <1>3, <1>4, BookkeepingStep

LEMMA PatchCachesKeeps ==
  ASSUME TypeOK, FreshInv, PatchCaches
  PROVE  FreshInv'
  <1>1. gen \in Nat /\ gen' = gen + 1 /\ frame.gen = gen /\ frame'.gen = gen + 1
    BY DEF PatchCaches, TypeOK
  <1>2. WriterInv'
    BY DEF PatchCaches, FreshInv, WriterInv, TypeOK, WriterType, isWriting
  <1>3. /\ binary' = binary /\ binary.gen \in Int /\ binary.gen <= gen
        /\ warm' = warm /\ warm.from \in Int /\ warm.from <= gen
    BY DEF PatchCaches, TypeOK, FrameType, WarmType, Gens, NoGen, FreshInv, StampInv
  <1>4. StampInv'
    BY <1>1, <1>3 DEF FreshInv, StampInv, NoGen
  <1>5. BuildInv' /\ SignsInv'
    BY <1>1, <1>3 DEF BuildInv, SignsInv
  <1>6. ChangeSetInv'
    BY DEF PatchCaches, ChangeSetInv, TypeOK, WriterType
  <1>7. FrameFresh'
    <2>1. SUFFICES ASSUME ~unsynced', faults' = {} PROVE frame'.rows = chunks'
      BY DEF FrameFresh, FreshUnless
    <2>2. faults = {} /\ bm25.rows = frame.rows /\ "drop" \notin owed
      BY <2>1 DEF PatchCaches, unsynced
    <2>3. (frame.rows \ writer.removed) \cup writer.adds = chunks
      BY <1>1, <2>2 DEF PatchCaches, FreshInv, ChangeSetInv
    <2> QED
      BY <2>2, <2>3 DEF PatchCaches, RemovedRows, FreshAdds, disk
  <1> QED
    BY <1>2, <1>4, <1>5, <1>6, <1>7 DEF FreshInv

-----------------------------------------------------------------------------
(* reindexAll, hydrateSidecar, rebuildFromSidecar.                         *)

LEMMA FillBeginKeeps ==
  ASSUME TypeOK, FreshInv,
         FullBegin \/ \E op \in {"hydrate", "rebuild"} : HydrateBegin(op)
  PROVE  FreshInv'
  <1>1. WriterInv' /\ ChangeSetInv' /\ ~writer'.unsynced
    BY DEF FullBegin, HydrateBegin, WriterInv, ChangeSetInv, isWriting, NoWriter
  <1>2. UNCHANGED <<chunks, gen, frame, binary, warm, faults, owed>>
    BY DEF FullBegin, HydrateBegin, disk, cache
  <1>3. unsynced' = unsynced
    BY <1>1, <1>2 DEF FullBegin, HydrateBegin, unsynced, FreshInv, WriterInv
  <1> QED
    BY <1>1, <1>2, <1>3, BookkeepingStep

LEMMA ClearStoresKeeps ==
  ASSUME TypeOK, FreshInv, ClearStores
  PROVE  FreshInv'
  <1>1. WriterInv'
    BY DEF ClearStores, FreshInv, WriterInv, TypeOK, WriterType, isWriting
  <1>2. ChangeSetInv'
    BY DEF ClearStores, ChangeSetInv, TypeOK, WriterType
  <1>3. unsynced' /\ UNCHANGED <<gen, frame, binary, warm>>
    BY DEF ClearStores, unsynced, cache, TypeOK, WriterType
  <1> QED
    BY <1>1, <1>2, <1>3, WritingStep

LEMMA FillFileKeeps ==
  ASSUME TypeOK, FreshInv, NEW f \in Files,
         NEW text \in {{}} \cup {{c} : c \in Of(f)}, FillFile(f, text)
  PROVE  FreshInv'
  <1>1. /\ writer.pc = "fill" /\ writer'.pc = "fill" /\ writer'.op = writer.op
        /\ writer'.todo = writer.todo \ {f} /\ writer'.drops = writer.drops
        /\ writer'.adds = writer.adds /\ writer'.cur = writer.cur
        /\ writer'.unsynced = (writer.unsynced \/ text \ chunks # {})
        /\ chunks' = chunks \cup text
        /\ UNCHANGED <<gen, frame, binary, warm, faults, owed>>
    BY DEF FillFile, TypeOK, WriterType, cache
  <1>2. WriterInv'
    BY <1>1 DEF FreshInv, WriterInv, isWriting
  <1>3. ChangeSetInv'
    BY <1>1 DEF ChangeSetInv
  <1>4. CASE writer'.unsynced
    <2>1. unsynced'
      BY <1>4 DEF unsynced
    <2> QED
      BY <1>1, <1>2, <1>3, <2>1, WritingStep
  <1>5. CASE ~writer'.unsynced
    <2>1. chunks' = chunks
      BY <1>1, <1>5
    <2>2. unsynced' = unsynced
      BY <1>1, <1>5 DEF unsynced
    <2> QED
      BY <1>1, <1>2, <1>3, <2>1, <2>2, BookkeepingStep
  <1> QED
    BY <1>4, <1>5

LEMMA FullStampKeeps ==
  ASSUME TypeOK, FreshInv, FullStamp
  PROVE  FreshInv'
  <1>1. /\ writer'.unsynced = writer.unsynced
        /\ UNCHANGED <<chunks, gen, frame, binary, warm, faults, owed>>
    BY DEF FullStamp, TypeOK, WriterType, cache
  <1>2. WriterInv'
    BY DEF FullStamp, FreshInv, WriterInv, TypeOK, WriterType, isWriting
  <1>3. ChangeSetInv'
    BY DEF FullStamp, ChangeSetInv, TypeOK, WriterType
  <1>4. unsynced' = unsynced
    BY <1>1 DEF unsynced
  <1> QED
    BY <1>1, <1>2, <1>3, <1>4, BookkeepingStep

-----------------------------------------------------------------------------
(* The steps that drop the caches.                                         *)

LEMMA DetachedFrom == Detached(warm).from = warm.from \/ ~TypeOK
  BY DEF Detached, TypeOK, WarmType

LEMMA RequestedFrom == WarmRequested(FALSE).from \in {warm.from, NoGen}
  BY DEF WarmRequested, NoWarm

LEMMA InvalidationKeeps ==
  ASSUME TypeOK, FreshInv,
         FallbackRebuild \/ GoodEnough \/ FullEnd \/ DropAfter \/ QueryDrift
  PROVE  FreshInv'
  <1>1. gen' = gen + 1 /\ frame' = NoFrame /\ binary' = NoFrame
    BY DEF FallbackRebuild, GoodEnough, FullEnd, DropAfter, QueryDrift, InvalidateCaches
  <1>2. warm'.from \in {warm.from, NoGen}
    BY DetachedFrom, RequestedFrom
    DEF FallbackRebuild, GoodEnough, FullEnd, DropAfter, QueryDrift
  <1>3. WriterInv'
    <2>1. CASE FallbackRebuild
      BY <2>1 DEF FallbackRebuild, FreshInv, WriterInv, TypeOK, WriterType, isWriting
    <2>2. CASE FullEnd
      BY <2>2 DEF FullEnd, WriterInv, isWriting, NoWriter
    <2>3. CASE GoodEnough \/ DropAfter \/ QueryDrift
      BY <2>3 DEF GoodEnough, DropAfter, QueryDrift, FreshInv, WriterInv, isWriting
    <2> QED
      BY <2>1, <2>2, <2>3
  <1> QED
    BY <1>1, <1>2, <1>3, DroppingStep DEF FreshInv

-----------------------------------------------------------------------------
(* The warm.                                                               *)

LEMMA WarmReadKeeps ==
  ASSUME TypeOK, FreshInv, WarmRead
  PROVE  FreshInv'
  <1>1. /\ UNCHANGED <<chunks, gen, frame, binary, writer, faults, owed>>
        /\ warm'.pc = "binary" /\ warm'.meta = chunks /\ warm'.from = gen
    BY DEF WarmRead, TypeOK, WarmType, disk, cache
  <1>2. WriterInv' /\ FrameFresh' /\ ChangeSetInv' /\ SignsInv'
    BY <1>1 DEF FreshInv, WriterInv, isWriting, FrameFresh, FreshUnless, unsynced,
       ChangeSetInv, SignsInv
  <1>3. StampInv' /\ BuildInv'
    BY <1>1 DEF FreshInv, StampInv, BuildInv, TypeOK
  <1> QED
    BY <1>2, <1>3 DEF FreshInv

(* The signs a build takes are stamped with the generation of the moment;  *)
(* they cover what it read, and that is the store unless it is too late.   *)
LEMMA WarmSignsKeeps ==
  ASSUME TypeOK, FreshInv, WarmLoadSigns \/ WarmWalkSigns
  PROVE  FreshInv'
  <1>1. /\ UNCHANGED <<chunks, gen, frame, writer, owed>>
        /\ faults' = {} => faults = {}
        /\ warm.pc = "binary" /\ warm'.pc = "assemble"
        /\ warm'.meta = warm.meta /\ warm'.from = warm.from
    BY DEF WarmLoadSigns, WarmWalkSigns, TypeOK, WarmType, disk
  <1>2. unsynced' = unsynced
    BY <1>1 DEF unsynced
  <1>3. WriterInv' /\ FrameFresh' /\ ChangeSetInv'
    BY <1>1, <1>2 DEF FreshInv, WriterInv, isWriting, FrameFresh, FreshUnless, ChangeSetInv
  <1>4. gen \in Nat /\ gen # NoGen
    BY DEF TypeOK, NoGen
  <1>5. binary'.gen = gen \/ binary' = NoFrame
    BY DEF WarmLoadSigns, WarmWalkSigns
  <1>6. SignsInv'
    <2>1. SUFFICES ASSUME binary'.gen = gen, ~unsynced, faults' = {}
                   PROVE  chunks \subseteq binary'.rows
      BY <1>1, <1>2 DEF SignsInv
    <2>2. CASE WarmLoadSigns
      <3>1. warm.from = gen /\ faults = {}
        BY <1>1, <2>1, <2>2 DEF WarmLoadSigns
      <3>2. warm.meta = chunks
        BY <1>1, <2>1, <3>1 DEF FreshInv, BuildInv
      <3> QED
        BY <2>2, <3>2 DEF WarmLoadSigns
    <2>3. CASE WarmWalkSigns
      BY <1>1, <1>4, <2>1, <2>3 DEF WarmWalkSigns, FreshInv, SignsInv, NoFrame
    <2> QED
      BY <2>2, <2>3
  <1>7. BuildInv'
    BY <1>1, <1>2, <1>5 DEF FreshInv, BuildInv
  <1>8. StampInv'
    BY <1>1, <1>4, <1>5 DEF FreshInv, StampInv, NoFrame, NoGen
  <1> QED
    BY <1>3, <1>6, <1>7, <1>8 DEF FreshInv

LEMMA WarmEmptyKeeps ==
  ASSUME TypeOK, FreshInv, WarmEmpty
  PROVE  FreshInv'
  <1>1. /\ UNCHANGED <<chunks, gen, binary, writer, faults, owed>>
        /\ frame' = NoFrame /\ warm' = NoWarm
    BY DEF WarmEmpty, disk
  <1>2. gen \in Nat /\ gen # NoGen /\ frame'.gen = NoGen /\ NoGen <= gen
    BY <1>1 DEF TypeOK, NoFrame, NoGen
  <1>3. WriterInv' /\ FrameFresh' /\ ChangeSetInv' /\ SignsInv' /\ BuildInv'
    BY <1>1, <1>2 DEF FreshInv, WriterInv, isWriting, FrameFresh, FreshUnless, unsynced,
       ChangeSetInv, SignsInv, BuildInv, NoWarm
  <1>4. StampInv'
    BY <1>1, <1>2 DEF FreshInv, StampInv, NoWarm
  <1> QED
    BY <1>3, <1>4 DEF FreshInv

(* The frame a warm publishes is the store: what it read is, and its signs *)
(* cover it.                                                               *)
LEMMA WarmCacheFrameKeeps ==
  ASSUME TypeOK, FreshInv, WarmCacheFrame
  PROVE  FreshInv'
  <1>1. /\ UNCHANGED <<chunks, gen, binary, writer, faults, owed>>
        /\ warm.pc = "assemble" /\ warm.from = gen /\ ~isWriting /\ binary # NoFrame
        /\ frame' = [rows |-> warm.meta \cap binary.rows, gen |-> gen]
        /\ warm'.pc = "bm25" /\ warm'.from = warm.from
    BY DEF WarmCacheFrame, TypeOK, WarmType
  <1>2. gen \in Nat /\ gen # NoGen
    BY DEF TypeOK, NoGen
  <1>3. writer.pc = "idle" /\ unsynced' = unsynced
    BY <1>1 DEF FreshInv, WriterInv, unsynced
  <1>4. WriterInv' /\ ChangeSetInv' /\ SignsInv' /\ BuildInv'
    BY <1>1, <1>3 DEF FreshInv, WriterInv, isWriting, ChangeSetInv, SignsInv, BuildInv
  <1>5. StampInv'
    BY <1>1, <1>2 DEF FreshInv, StampInv
  <1>6. FrameFresh'
    BY <1>1, <1>3 DEF FreshInv, FrameFresh, FreshUnless, BuildInv, SignsInv
  <1> QED
    BY <1>4, <1>5, <1>6 DEF FreshInv

(* The other steps of the warm, the searches, the persists and the          *)
(* continuations touch neither the store nor the frame.                    *)
LEMMA QuietStepsKeep ==
  ASSUME TypeOK, FreshInv,
         \/ RewarmAfter \/ PersistAfter
         \/ \E light \in BOOLEAN : WarmTrigger(light)
         \/ WarmHit \/ WarmPoll \/ WarmDiscard \/ WarmAssembleUncached
         \/ WarmReadBlob \/ WarmLoadBlob \/ WarmFit \/ WarmFitted \/ WarmLoop
         \/ PersistRead \/ PersistPut
         \/ QueryPeek \/ QueryReadBlob \/ QueryLoadBlob \/ QueryFit \/ QueryFitted
         \/ QueryServe \/ QueryAbort
  PROVE  FreshInv'
  <1>1. gen >= NoGen
    BY DEF TypeOK, NoGen
  <1>2. UNCHANGED <<chunks, gen, frame, binary, writer, faults>>
    BY DEF RewarmAfter, PersistAfter, WarmTrigger, WarmHit, WarmPoll, WarmDiscard,
       WarmAssembleUncached, WarmReadBlob, WarmLoadBlob, WarmFit, WarmFitted, WarmLoop,
       PersistRead, PersistPut, QueryPeek, QueryReadBlob, QueryLoadBlob, QueryFit,
       QueryFitted, QueryServe, QueryAbort, disk, cache
  <1>3. "drop" \in owed' <=> "drop" \in owed
    BY DEF RewarmAfter, PersistAfter, WarmTrigger, WarmHit, WarmPoll, WarmDiscard,
       WarmAssembleUncached, WarmReadBlob, WarmLoadBlob, WarmFit, WarmFitted, WarmLoop,
       PersistRead, PersistPut, QueryPeek, QueryReadBlob, QueryLoadBlob, QueryFit,
       QueryFitted, QueryServe, QueryAbort, disk, cache
  <1>4. \/ /\ warm'.pc = warm.pc /\ warm'.from = warm.from /\ warm'.meta = warm.meta
        \/ /\ warm'.pc \notin {"binary", "assemble"}
           /\ warm'.from \in {warm.from, NoGen}
    <2>1. CASE WarmHit \/ WarmPoll \/ WarmDiscard
      BY <2>1 DEF WarmHit, WarmPoll, WarmDiscard, TypeOK, WarmType
    <2>2. CASE WarmAssembleUncached \/ WarmReadBlob \/ WarmLoadBlob
      BY <2>2 DEF WarmAssembleUncached, WarmReadBlob, WarmLoadBlob, TypeOK, WarmType
    <2>3. CASE WarmFit \/ WarmFitted
      BY <2>3 DEF WarmFit, WarmFitted, TypeOK, WarmType
    <2>4. CASE WarmLoop
      BY <2>4 DEF WarmLoop, NoWarm
    <2>5. CASE RewarmAfter \/ \E light \in BOOLEAN : WarmTrigger(light)
      BY <2>5 DEF RewarmAfter, WarmTrigger, WarmRequested, NoWarm
    <2>6. CASE \/ PersistAfter \/ PersistRead \/ PersistPut \/ QueryPeek
               \/ QueryReadBlob \/ QueryLoadBlob \/ QueryFit \/ QueryFitted
               \/ QueryServe \/ QueryAbort
      BY <2>6 DEF PersistAfter, PersistRead, PersistPut, QueryPeek, QueryReadBlob,
         QueryLoadBlob, QueryFit, QueryFitted, QueryServe, QueryAbort
    <2> QED
      BY <2>1, <2>2, <2>3, <2>4, <2>5, <2>6
  <1> QED
    BY <1>1, <1>2, <1>3, <1>4, QuietStep

-----------------------------------------------------------------------------

LEMMA NextFresh ==
  ASSUME TypeOK, FreshInv, [Next]_vars
  PROVE  FreshInv'
  <1>1. CASE Delta
    BY <1>1, DeltaBeginKeeps, DropFileKeeps, DropsDoneKeeps, CarryOverKeeps,
       ReadFileKeeps, CommitFileKeeps, EmbedPhaseKeeps, SectionEndKeeps,
       PatchCachesKeeps, InvalidationKeeps DEF Delta
  <1>2. CASE Fill
    <2>1. CASE AskReindex
      BY <2>1, FreshStart DEF AskReindex
    <2> QED
      BY <1>2, <2>1, FillBeginKeeps, ClearStoresKeeps, FillFileKeeps, InvalidationKeeps,
         SectionEndKeeps, FullStampKeeps DEF Fill
  <1>3. CASE After
    BY <1>3, QuietStepsKeep, InvalidationKeeps DEF After
  <1>4. CASE WarmStep
    BY <1>4, QuietStepsKeep, WarmReadKeeps, WarmSignsKeeps, WarmEmptyKeeps,
       WarmCacheFrameKeeps DEF WarmStep
  <1>5. CASE Query
    BY <1>5, QuietStepsKeep, InvalidationKeeps DEF Query
  <1>6. CASE Restart
    BY <1>6, FreshStart DEF Restart
  <1>7. CASE UNCHANGED vars
    BY <1>7, QuietStep DEF vars, TypeOK
  <1>8. CASE (\E light \in BOOLEAN : WarmTrigger(light)) \/ PersistRead \/ PersistPut
    BY <1>8, QuietStepsKeep
  <1> QED
    BY <1>1, <1>2, <1>3, <1>4, <1>5, <1>6, <1>7, <1>8 DEF Next

(* The inductive invariant holds of every behaviour. *)
THEOREM FreshInvariant == Spec => []FreshInv
  <1>1. Init => FreshInv
    BY InitFresh
  <1>2. TypeOK /\ FreshInv /\ [Next]_vars => FreshInv'
    BY NextFresh
  <1> QED
    BY <1>1, <1>2, TypesHold, PTL DEF Spec

(* A frame that carries the current generation, outside a section that has *)
(* still to bump it and with none of the three faults, shows exactly the   *)
(* rows of the store.                                                      *)
THEOREM FramesAreFresh == Spec => []FrameFresh
  <1>1. FreshInv => FrameFresh
    BY DEF FreshInv
  <1> QED
    BY <1>1, FreshInvariant, PTL
=============================================================================
