---------------------------- MODULE SidecarStore ----------------------------
(***************************************************************************)
(* The sidecar files of one device: append-only vector shards, the jsonl   *)
(* that points into them and the meta file that carries the seq floor      *)
(* (src/src/sidecar/sidecar.ts).                                           *)
(*                                                                         *)
(* Every writer runs under the directory lock, so the file operations it   *)
(* will do are known when it has read the directory: an operation is the   *)
(* list of its file steps, done one by one, with a crash or a failure      *)
(* between any two.  A sync service copies files to peers one by one and   *)
(* in no order, so a peer may hold any version of any file that ever was   *)
(* on this disk: shownLines and shownBytes keep them all.                  *)
(***************************************************************************)
EXTENDS Integers, Sequences, SequencesExt, FiniteSets

CONSTANTS ScIds,       \* chunk ids
          ShardCap,    \* records in a full shard (SHARD_CAP_BYTES / stride)
          SmallShard,  \* a shard of fewer records is small (smallShardBytes)
          MinSmall,    \* minSmallShards of coalesceSmallShards
          MinBytes,    \* minShardBytes of compactDevice, in records
          MaxSeq,      \* bound: no operation starts when a seq reaches it
          ScFaults     \* what may go wrong: a subset of {"crash", "file"}

ASSUME ScAssumption ==
  /\ ShardCap \in Nat \ {0} /\ SmallShard \in Nat /\ MinSmall \in Nat
  /\ MinBytes \in Nat /\ MaxSeq \in Nat
  /\ ScFaults # {} /\ ScFaults \subseteq {"crash", "file"}

VARIABLES disk,        \* file name -> contents, of the files that exist
          dirJob,      \* the operation that holds the directory lock
          trouble,     \* "crash": the process may end at any time; "file": one file
                       \* operation is going to fail for good; "failed": it has
          session,     \* "up", "down", or "sweep" while the plugin boots
          shownLines,  \* every jsonl line a peer may have received
          shownBytes   \* every shard record a peer may have received

scVars == <<disk, dirJob, trouble, session, shownLines, shownBytes>>

-----------------------------------------------------------------------------
(* Files.                                                                  *)

Shard(n) == <<"shard", n>>
Jsonl == <<"jsonl">>
Meta == <<"meta">>
Tmp(name) == <<"tmp", name>>

Exists(name) == name \in DOMAIN disk
With(d, name, contents) == [f \in DOMAIN d \cup {name} |-> IF f = name THEN contents ELSE d[f]]
Without(d, names) == [f \in DOMAIN d \ names |-> d[f]]

(* listDeviceShards: the seqs on disk, a .tmp is not listed.               *)
ShardSeqs == {f[2] : f \in {g \in DOMAIN disk : g[1] = "shard"}}
Top(S) == CHOOSE n \in S : \A k \in S : k <= n
NextAfter(S) == IF S = {} THEN 0 ELSE Top(S) + 1

(* readJsonl; the log that a boot sweep will restore when a crash fell     *)
(* between the remove and the rename of its replacement.                   *)
Lines == IF Exists(Jsonl) THEN disk[Jsonl] ELSE << >>
DurableLines(d) ==
  IF Jsonl \in DOMAIN d THEN d[Jsonl]
  ELSE IF Tmp(Jsonl) \in DOMAIN d THEN d[Tmp(Jsonl)] ELSE << >>

(* readSeqFloorRaw: no meta, no floor.                                     *)
SeqFloor == IF Exists(Meta) THEN disk[Meta] ELSE 0

LargerOf(a, b) == IF a >= b THEN a ELSE b
SeqAboveDisk == NextAfter(ShardSeqs)
FreshSeq == LargerOf(NextAfter(ShardSeqs), SeqFloor)

(* scanJsonl for one device: the latest line of each id.  Every line of an *)
(* id here has one mtime, so winsWithinDevice breaks the tie by place.     *)
winsWithinDevice(a, b) == a.seq > b.seq \/ (a.seq = b.seq /\ a.off > b.off)
Scan(lines) ==
  {l \in ToSet(lines) : ~ \E k \in ToSet(lines) : k.id = l.id /\ winsWithinDevice(k, l)}

(* isOffsetInRange and decodeRecord: the record a line points to is there. *)
Readable(d, l) == Shard(l.seq) \in DOMAIN d /\ l.off <= Len(d[Shard(l.seq)])

(* The ids this device can give back from its own files.                   *)
Held(d) == {l.id : l \in {k \in Scan(DurableLines(d)) : Readable(d, k)}}

(* A set in the order of a key; lines in the order of their places.        *)
InOrder(S, key) ==
  [i \in 1 .. Cardinality(S) |->
     CHOOSE x \in S : Cardinality({y \in S : key[y] < key[x]}) = i - 1]
InPlace(lines) == InOrder(lines, [l \in lines |-> l.seq * (ShardCap + 1) + l.off])

-----------------------------------------------------------------------------
(* File steps.                                                             *)

WriteStep(name, contents) == [do |-> "write", name |-> name, contents |-> contents]
(* writeBinaryAtomic, writeTextAtomic: a .tmp is written and renamed.      *)
ReplaceStep(name, contents) == [do |-> "replace", name |-> name, contents |-> contents]
RenameStep(name) == [do |-> "rename", name |-> name, contents |-> << >>]
RemoveStep(name) == [do |-> "remove", name |-> name, contents |-> << >>]

(* raiseSeqFloorRaw never lowers the floor.                                *)
RaiseFloor(floor) == IF floor <= SeqFloor THEN << >> ELSE <<ReplaceStep(Meta, floor)>>

RemoveShards(S) ==
  [i \in 1 .. Cardinality(S) |-> RemoveStep(Shard(InOrder(S, [n \in S |-> n])[i]))]

(* Records in consecutive shards from seq on, ShardCap to a shard.         *)
Dense(ids, seq) ==
  [i \in 1 .. (Len(ids) + ShardCap - 1) \div ShardCap |->
     [seq |-> seq + i - 1,
      ids |-> SubSeq(ids, (i - 1) * ShardCap + 1,
                     IF i * ShardCap < Len(ids) THEN i * ShardCap ELSE Len(ids))]]
WriteShards(shards) ==
  [i \in 1 .. Len(shards) |-> ReplaceStep(Shard(shards[i].seq), shards[i].ids)]
LinesOf(ids, seq) ==
  [i \in 1 .. Len(ids) |->
     [id |-> ids[i], seq |-> seq + (i - 1) \div ShardCap, off |-> ((i - 1) % ShardCap) + 1]]

NoJob == [op |-> "none", steps |-> << >>, first |-> 0, keep |-> {}]
Job(op, steps) == [op |-> op, steps |-> steps, first |-> FreshSeq, keep |-> {}]

(* withDirLock: one operation of the directory at a time.                  *)
MayStart == session = "up" /\ dirJob.op = "none" /\ FreshSeq < MaxSeq

-----------------------------------------------------------------------------
(* Operations.                                                             *)

(* bulkAppend: fresh shards first, then the lines that refer to them.      *)
BulkAppend(ids) ==
  /\ MayStart /\ ids # << >>
  /\ LET log == Lines \o LinesOf(ids, FreshSeq) IN
     \E logStep \in {WriteStep(Jsonl, log), ReplaceStep(Jsonl, log)} :
       dirJob' = Job("append", WriteShards(Dense(ids, FreshSeq)) \o <<logStep>>)
  /\ UNCHANGED <<disk, trouble, session, shownLines, shownBytes>>

(* writeDeviceMeta keeps the floor of the meta it replaces.                *)
WriteDeviceMeta ==
  /\ MayStart
  /\ dirJob' = Job("meta", <<ReplaceStep(Meta, SeqFloor)>>)
  /\ UNCHANGED <<disk, trouble, session, shownLines, shownBytes>>

(* clearDevice with preserveSeqFloor: the floor, the shards, the log.      *)
ClearDevice ==
  /\ MayStart
  /\ dirJob' = Job("clear",
                   (IF ShardSeqs = {} THEN << >> ELSE RaiseFloor(Top(ShardSeqs) + 1))
                     \o RemoveShards(ShardSeqs) \o <<RemoveStep(Jsonl)>>)
  /\ UNCHANGED <<disk, trouble, session, shownLines, shownBytes>>

(* The zero-reference reclaim that opens compactDevice: shards no line     *)
(* mentions go, after the floor has passed them.                           *)
CompactReclaim ==
  /\ MayStart
  /\ LET orphans == ShardSeqs \ {l.seq : l \in ToSet(Lines)} IN
     dirJob' = Job("reclaim",
                   IF orphans = {} THEN << >>
                   ELSE RaiseFloor(Top(orphans) + 1) \o RemoveShards(orphans))
  /\ UNCHANGED <<disk, trouble, session, shownLines, shownBytes>>

ShardsFirst(op, moved, kept, retired) ==
  LET byPlace == InPlace(moved)
      ids == [i \in 1 .. Len(byPlace) |-> byPlace[i].id]
      dest == Dense(ids, FreshSeq)
  IN Job(op,
         WriteShards(dest) \o RaiseFloor(FreshSeq + Len(dest)) \o RemoveShards(retired)
           \o <<ReplaceStep(Jsonl, InPlace(kept) \o LinesOf(ids, FreshSeq))>>)

(* The rewrite: the moved records go to fresh shards, the log is swapped   *)
(* (the commit), the floor passes the retired seqs, and only then the      *)
(* retired shards go.                                                      *)
Rewrite(op, moved, kept, retired) ==
  LET byPlace == InPlace(moved)
      ids == [i \in 1 .. Len(byPlace) |-> byPlace[i].id]
      dest == Dense(ids, FreshSeq)
  IN Job(op,
         WriteShards(dest)
           \o <<ReplaceStep(Jsonl, InPlace(kept) \o LinesOf(ids, FreshSeq))>>
           \o RaiseFloor(FreshSeq + Len(dest)) \o RemoveShards(retired))

ShardSize(S) == FoldSet(LAMBDA n, sum : sum + Len(disk[Shard(n)]), 0, S)

(* compactDevice after its reclaim: its gates, then the rewrite of what    *)
(* the vault's live set keeps.  complete is FALSE when a note could not be *)
(* read while the set was built.                                           *)
CompactRewrite(live, complete) ==
  /\ session = "up" /\ dirJob.op = "reclaim" /\ dirJob.steps = << >>
  /\ LET kept == {l \in Scan(Lines) : l.id \in live}
         dead == Len(Lines) - Cardinality(kept)
     IN IF /\ ShardSize(ShardSeqs) >= MinBytes
           /\ complete
           /\ Len(Lines) > 0 /\ dead > 0
           /\ 2 * dead >= Len(Lines)                       \* minDeadRatio
           /\ FreshSeq < MaxSeq
        THEN dirJob' = [Rewrite("compact", {l \in kept : Readable(disk, l)}, {}, ShardSeqs)
                        EXCEPT !.keep = live]
        ELSE dirJob' = NoJob
  /\ UNCHANGED <<disk, trouble, session, shownLines, shownBytes>>

(* coalesceSmallShards: the latest records of the small shards move, no    *)
(* liveness is decided.                                                    *)
CoalesceSmallShards ==
  /\ MayStart
  /\ LET small == {n \in ShardSeqs : Len(disk[Shard(n)]) < SmallShard}
         moved == {l \in Scan(Lines) : l.seq \in small}
     IN /\ small # {} /\ Cardinality(small) >= MinSmall
        /\ dirJob' = Rewrite("coalesce", {l \in moved : Readable(disk, l)},
                             Scan(Lines) \ moved, small)
  /\ UNCHANGED <<disk, trouble, session, shownLines, shownBytes>>

-----------------------------------------------------------------------------
(* Steps of the operation in progress.                                     *)

Records(n, ids) == {[id |-> ids[i], seq |-> n, off |-> i] : i \in DOMAIN ids}

ShardRecords(d) == UNION {Records(f[2], d[f]) : f \in {g \in DOMAIN d : g[1] = "shard"}}
TmpRecords(d) ==
  UNION {Records(f[2][2], d[f]) : f \in {g \in DOMAIN d : g[1] = "tmp" /\ g[2][1] = "shard"}}

(* What a peer can have received once the disk is d; a .tmp is copied too. *)
Show(d) ==
  /\ shownLines' = shownLines \cup (IF Jsonl \in DOMAIN d THEN ToSet(d[Jsonl]) ELSE {})
  /\ shownBytes' = shownBytes \cup ShardRecords(d) \cup TmpRecords(d)

(* An atomic write that throws.  While a rewrite still writes its shards,  *)
(* the catch block takes back those that landed, floor first.              *)
Throw(name) ==
  LET landed == {n \in ShardSeqs : n >= dirJob.first} IN
  dirJob' = IF /\ dirJob.op \in {"compact", "coalesce"} /\ name[1] = "shard" /\ landed # {}
              THEN Job("undo", RaiseFloor(name[2]) \o RemoveShards(landed))
              ELSE NoJob

(* A step that succeeds.  A replace has written its .tmp and goes on to    *)
(* rename it.                                                              *)
Perform(s) ==
  \/ s.do = "write" /\ disk' = With(disk, s.name, s.contents)
  \/ s.do = "replace" /\ disk' = With(disk, Tmp(s.name), s.contents)
  \/ s.do = "rename" /\ disk' = With(Without(disk, {Tmp(s.name)}), s.name, disk[Tmp(s.name)])
  \/ s.do = "remove" /\ disk' = Without(disk, {s.name})
Remaining(s, rest) == IF s.do = "replace" THEN <<RenameStep(s.name)>> \o rest ELSE rest

FileStep ==
  /\ session = "up" /\ dirJob.steps # << >>
  /\ LET s == Head(dirJob.steps)
         left == [dirJob EXCEPT !.steps = Remaining(s, Tail(dirJob.steps))]
     IN \/ Perform(s) /\ dirJob' = left /\ Show(disk') /\ UNCHANGED trouble
        \/ (* rename over an existing file fails: remove it, rename again  *)
           /\ s.do = "rename" /\ Exists(s.name)
           /\ disk' = Without(disk, {s.name})
           /\ UNCHANGED <<dirJob, trouble, shownLines, shownBytes>>
        \/ /\ s.do = "rename" /\ trouble = "file" /\ trouble' = "failed"
           /\ Throw(s.name)
           /\ UNCHANGED <<disk, shownLines, shownBytes>>
        \/ /\ s.do = "remove" /\ trouble = "file" /\ trouble' = "failed"  \* swallowed
           /\ dirJob' = left
           /\ UNCHANGED <<disk, shownLines, shownBytes>>
  /\ UNCHANGED session

Release ==
  /\ session = "up" /\ dirJob.op \notin {"none", "reclaim"} /\ dirJob.steps = << >>
  /\ dirJob' = NoJob
  /\ UNCHANGED <<disk, trouble, session, shownLines, shownBytes>>

(* The process ends between two file steps.                                *)
Crash ==
  /\ trouble = "crash" /\ session = "up"
  /\ session' = "down" /\ dirJob' = NoJob
  /\ UNCHANGED <<trouble, disk, shownLines, shownBytes>>

(* sweepOrphanTmpFiles of the next boot: a .tmp beside its real file goes, *)
(* one without it is renamed to it.                                        *)
SweepOrphanTmp ==
  /\ session \in {"down", "sweep"}
  /\ LET tmps == {f \in DOMAIN disk : f[1] = "tmp"} IN
     IF tmps = {} THEN session' = "up" /\ UNCHANGED <<disk, shownLines, shownBytes>>
     ELSE /\ session' = "sweep"
          /\ \E f \in tmps :
               /\ disk' = IF Exists(f[2]) THEN Without(disk, {f})
                          ELSE With(Without(disk, {f}), f[2], disk[f])
               /\ Show(disk')
  /\ UNCHANGED <<dirJob, trouble>>

ScInit ==
  /\ disk = << >> /\ dirJob = NoJob /\ session = "up" /\ trouble \in ScFaults
  /\ shownLines = {} /\ shownBytes = {}

Batches == UNION {[1 .. n -> ScIds] : n \in 1 .. ShardCap + 1}

ScNext ==
  \/ \E ids \in Batches : IsInjective(ids) /\ BulkAppend(ids)
  \/ WriteDeviceMeta
  \/ ClearDevice
  \/ CompactReclaim
  \/ \E live \in SUBSET ScIds, complete \in BOOLEAN : CompactRewrite(live, complete)
  \/ CoalesceSmallShards
  \/ FileStep
  \/ Release
  \/ Crash
  \/ SweepOrphanTmp

ScSpec == ScInit /\ [][ScNext]_scVars

-----------------------------------------------------------------------------
(* Properties.                                                             *)

(* No peer reads another chunk's vector: whatever mixture of old and new   *)
(* files the sync service has brought it, a line never points at a record  *)
(* of another id.  (sidecar.ts: "a (deviceId, seq) shard FILENAME, once    *)
(* used, is never republished with different bytes".)  A rename that fails *)
(* for good is left out: its .tmp stays, and its seq is used again.        *)
ScNeverMisread ==
  trouble = "crash" => \A l \in shownLines, b \in shownBytes :
    l.seq = b.seq /\ l.off = b.off => l.id = b.id

(* A vector once durable stays: only a clear of the device, or the rewrite *)
(* of a compaction whose live set lacks the id, may lose it; not a crash,  *)
(* a reclaim, a fold of small shards, the sweep at boot, or the catch block *)
(* of a rewrite.  When renames may fail for good this is said of steps     *)
(* that find the log and leave it: writeTextAtomic removes it to rename    *)
(* its .tmp, and the next append starts a new log if that fails as well.   *)
ScNothingLost ==
  [][\A id \in Held(disk) :
       \/ id \in Held(disk')
       \/ dirJob.op = "clear"
       \/ dirJob.op = "compact" /\ id \notin dirJob.keep
       \/ trouble # "crash" /\ ~(Jsonl \in DOMAIN disk \cap DOMAIN disk')]_scVars
=============================================================================
