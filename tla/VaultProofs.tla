----------------------------- MODULE VaultProofs -----------------------------
(***************************************************************************)
(* What is kept between the vault, its files on other devices and the      *)
(* index, for any notes, devices, peers and versions: a file record never  *)
(* claims an mtime past its content (RecordsStayTrue), nothing waits in    *)
(* the queues of the flush without something that will take it             *)
(* (QueuesStayArmed), a record names only chunks that are in the store     *)
(* (RecordsStayWhole), and a rebuild from the sidecar gives back every     *)
(* note it owes (RebuildsRestore).  And what a peer receives of the files  *)
(* of the sidecar, in any order and from any moment, never gives a chunk   *)
(* the vector of another (NoVectorMisread): a record once known is never   *)
(* contradicted, because a sequence number is never given twice.           *)
(***************************************************************************)
EXTENDS Schedulers, SidecarHydrate, SidecarStore, SequenceTheorems, FiniteSetTheorems, TLAPS

PassAts == {"idle", "loads", "waits", "copies", "copied", "embeds", "reads", "commits", "done",
            "ended"}
Passing == {"copies", "copied", "embeds", "reads", "commits", "done"}

PassType ==
  [at : PassAts, dirty : SUBSET SdNotes, deleted : SUBSET SdNotes, embed : BOOLEAN,
   todo : SUBSET SdNotes, got : SUBSET SdNotes, note : SdNotes \cup {NoSdNote}, mtime : Nat,
   content : Nat]

QueueType ==
  [dirty : SUBSET SdNotes, deleted : SUBSET SdNotes, idle : BOOLEAN, struct : BOOLEAN]

DrainType ==
  [at : {"off", "diff", "diffing", "burst", "delta"}, remaining : SUBSET SdNotes,
   deletes : SUBSET SdNotes, swept : {<<>>} \cup ((SUBSET SdNotes) \X (SUBSET SdNotes)),
   progressed : BOOLEAN]

RecordType == [mtime : Nat, content : Nat]

SdTypeOK ==
  /\ device \in SdDevices
  /\ changes \in Nat
  /\ vault \in [SdNotes -> Nat]
  /\ record \in [SdNotes -> RecordType]
  /\ activeNote \in SdNotes \cup {NoSdNote}
  /\ queue \in QueueType
  /\ pass \in [SdPasses -> PassType]
  /\ snap \in [SdNotes -> Nat]
  /\ drain \in DrainType
  /\ modelReady \in BOOLEAN
  /\ past \in [overtaken : SUBSET SdNotes, stripped : SUBSET SdNotes]

\* A pass that is at its notes holds the write mutex, and is at one of the vault's.
PassHolds ==
  \A p \in SdPasses :
    /\ pass[p].at \in Passing => sdWriter = p
    /\ pass[p].at \in {"copied", "reads", "commits"} => pass[p].note \in SdNotes

\* The vault's clock is past every content and every mtime taken from it.
ClockLeads ==
  /\ \A n \in SdNotes : vault[n] <= changes /\ record[n].mtime <= changes
  /\ \A p \in SdPasses : pass[p].mtime <= changes

SdBase == SdTypeOK /\ PassHolds /\ ClockLeads

(***************************************************************************)
(* Records                                                                 *)
(***************************************************************************)
\* What an embed under way has in hand will make a true record, unless the path was overtaken.
ReadTrue(p) ==
  pass[p].note \notin past.overtaken =>
    /\ pass[p].at = "reads" =>
         vault[pass[p].note] = 0 \/ pass[p].mtime <= vault[pass[p].note]
    /\ pass[p].at = "commits" => pass[p].mtime <= pass[p].content

RecordInv ==
  /\ SdRecordTrue
  /\ ~device.sidecar => \A p \in SdPasses : pass[p].at \notin {"copies", "copied"} /\ ReadTrue(p)

(***************************************************************************)
(* Queues                                                                  *)
(***************************************************************************)
\* A timer is armed, or the running flush has the note as it is now.
InHand(n) ==
  \/ queue.idle \/ queue.struct
  \/ n \in pass["flush"].dirty /\ vault[n] = snap[n]

\* The record is up to date and no delta will put an older one in its place.
Settled(n) ==
  /\ vault[n] <= record[n].mtime
  /\ \A p \in SdPasses :
       pass[p].at \in {"reads", "commits"} /\ pass[p].note = n => vault[n] <= pass[p].mtime

DirtyHeld ==
  \A n \in queue.dirty \ past.stripped :
    InHand(n) \/ Settled(n) \/ (n = activeNote /\ vault[n] > record[n].mtime)

DeletesHeld == queue.deleted \subseteq pass["flush"].deleted \/ queue.idle \/ queue.struct

FlushIdle == pass["flush"].at = "idle" => pass["flush"].dirty = {} /\ pass["flush"].deleted = {}

QueueInv == FlushIdle /\ (device.faults = {} => DirtyHeld /\ DeletesHeld)

-----------------------------------------------------------------------------
(***************************************************************************)
(* Types                                                                   *)
(***************************************************************************)
\* The device a behaviour starts on is one whose fields are known.
LEMMA DeviceFields ==
  ASSUME device \in SdDevices
  PROVE  /\ device.mobile \in BOOLEAN /\ device.saver \in BOOLEAN /\ device.mayEmbed \in BOOLEAN
         /\ device.sidecar \in BOOLEAN
  BY SdAssumption

LEMMA IdleTyped == PassIdle \in PassType
  BY DEF PassIdle, PassType, PassAts

LEMMA OffTyped == DrainOff \in DrainType
  BY DEF DrainOff, DrainType

LEMMA InitTyped == SdInit => SdTypeOK
<1> SUFFICES ASSUME SdInit PROVE SdTypeOK
  OBVIOUS
<1>1. vault \in [SdNotes -> Nat]
  BY DEF SdInit
<1>2. record \in [SdNotes -> RecordType]
  BY <1>1 DEF SdInit, RecordType, NoRecord
<1>3. pass \in [SdPasses -> PassType]
  BY IdleTyped DEF SdInit
<1>4. queue \in QueueType
  BY DEF SdInit, QueueType
<1>5. drain \in DrainType
  BY OffTyped DEF SdInit
<1> QED
  BY <1>1, <1>2, <1>3, <1>4, <1>5 DEF SdInit, SdTypeOK

\* What an action does to the pass of one of the two keeps every pass typed.
LEMMA PassUpdate ==
  ASSUME pass \in [SdPasses -> PassType], NEW p \in SdPasses, NEW r \in PassType
  PROVE  [pass EXCEPT ![p] = r] \in [SdPasses -> PassType]
  OBVIOUS

LEMMA FlushDirtyTyped ==
  ASSUME SdTypeOK, NEW q \in QueueType, FlushDirty(q)
  PROVE  queue' \in QueueType /\ pass' \in [SdPasses -> PassType] /\ snap' \in [SdNotes -> Nat]
<1>1. Rearm(q) \in QueueType
  BY DEF Rearm, ScheduleFlush, QueueType
<1>2. DefersEmbed(q) \in BOOLEAN
  BY DeviceFields DEF DefersEmbed, SdTypeOK
<1>3. [PassIdle EXCEPT !.at = IF DefersEmbed(q) THEN "waits" ELSE "loads",
                       !.dirty = q.dirty, !.deleted = q.deleted,
                       !.embed = ~DefersEmbed(q)] \in PassType
  BY <1>2, IdleTyped DEF PassType, PassAts, QueueType
<1>4. "flush" \in SdPasses
  BY DEF SdPasses
<1>5. CASE FlushRunning
  BY <1>1, <1>5 DEF FlushDirty, SdTypeOK
<1>6. CASE ~FlushRunning /\ q.dirty = {} /\ q.deleted = {}
  BY <1>6 DEF FlushDirty, SdTypeOK
<1>7. CASE ~FlushRunning /\ ~(q.dirty = {} /\ q.deleted = {})
  BY <1>3, <1>4, <1>7 DEF FlushDirty, SdTypeOK
<1> QED
  BY <1>5, <1>6, <1>7

LEMMA EnqueueTyped ==
  ASSUME SdTypeOK, NEW n
  PROVE  EnqueueIfDirty(n, queue) \in QueueType
  BY DEF EnqueueIfDirty, ScheduleFlush, QueueType, SdTypeOK

LEMMA CatchUpEndsTyped ==
  ASSUME NEW p, NEW b, CatchUpEnds(p, b)
  PROVE  drain' \in DrainType
  BY OffTyped DEF CatchUpEnds

LEMMA RunCatchUpTyped ==
  ASSUME drain \in DrainType, NEW p, NEW s, RunCatchUp(p, s)
  PROVE  drain' \in DrainType
<1>1. [DrainOff EXCEPT !.at = "diff"] \in DrainType
  BY OffTyped DEF DrainType
<1> QED
  BY <1>1 DEF RunCatchUp

\* The actions of the vault, the timers and the flush, and those of the drain and the searches.
HostAct ==
  \/ EditNote \/ LeaveNote \/ CreateNote \/ DeleteNote \/ RenameNote
  \/ ChangeExclusions \/ PollExclusions \/ IdleFires \/ StructFires \/ Blur \/ FlushStep

DrainAct ==
  \/ FlushDeltaThrows \/ CatchUpThrows \/ DrainStep \/ StartupRuns \/ RetryFires
  \/ SessionStarts \/ SessionEnds \/ SessionGoesStale \/ QueryStarts \/ QueryEnds \/ Unload

\* What a change of the vault does to the queues.
LEMMA QueueOps ==
  ASSUME NEW q \in QueueType, NEW n \in SdNotes
  PROVE  /\ Dropped(n, q) \in QueueType
         /\ [q EXCEPT !.dirty = @ \cup {n}] \in QueueType
         /\ ScheduleFlush(q) \in QueueType
         /\ FlushStructuralSoon(q) \in QueueType
  BY DEF Dropped, ScheduleFlush, FlushStructuralSoon, QueueType

\* The actions of the vault, of the timers and of the flush.
LEMMA HostTyped ==
  ASSUME SdTypeOK, HostAct
  PROVE  SdTypeOK'
<1>0. "flush" \in SdPasses
  BY DEF SdPasses
<1> USE DEF userVars, vaultVars, indexVars
<1>1. CASE EditNote
  BY <1>1 DEF EditNote, SdTypeOK
<1>2. CASE LeaveNote
  BY <1>2, EnqueueTyped DEF LeaveNote, SdTypeOK
<1>3. CASE CreateNote
  <2>1. PICK n \in SdNotes :
          /\ vault' = [vault EXCEPT ![n] = changes + 1]
          /\ queue' = ScheduleFlush([queue EXCEPT !.dirty = @ \cup {n}])
    BY <1>3 DEF CreateNote
  <2>2. queue' \in QueueType
    BY <2>1, QueueOps DEF SdTypeOK
  <2> QED
    BY <1>3, <2>1, <2>2 DEF CreateNote, SdTypeOK
<1>4. CASE DeleteNote
  <2>1. PICK n \in SdNotes :
          /\ vault' = [vault EXCEPT ![n] = 0]
          /\ queue' = FlushStructuralSoon(Dropped(n, queue))
          /\ activeNote' = IF activeNote = n THEN NoSdNote ELSE activeNote
    BY <1>4 DEF DeleteNote
  <2>2. queue' \in QueueType
    BY <2>1, QueueOps DEF SdTypeOK
  <2> QED
    BY <1>4, <2>1, <2>2 DEF DeleteNote, SdTypeOK
<1>5. CASE RenameNote
  <2>1. queue' \in QueueType
    <3>1. PICK n \in SdNotes, m \in SdNotes :
            queue' = FlushStructuralSoon([Dropped(n, queue) EXCEPT !.dirty = @ \cup {m}])
      BY <1>5 DEF RenameNote
    <3>2. Dropped(n, queue) \in QueueType
      BY QueueOps DEF SdTypeOK
    <3>3. [Dropped(n, queue) EXCEPT !.dirty = @ \cup {m}] \in QueueType
      BY <3>2, QueueOps
    <3> QED
      BY <3>1, <3>3, QueueOps
  <2>2. past' \in [overtaken : SUBSET SdNotes, stripped : SUBSET SdNotes]
    BY <1>5 DEF RenameNote, SdTypeOK
  <2>3. vault' \in [SdNotes -> Nat] /\ changes' \in Nat /\ activeNote' \in SdNotes \cup {NoSdNote}
    BY <1>5 DEF RenameNote, SdTypeOK
  <2> QED
    BY <1>5, <2>1, <2>2, <2>3 DEF RenameNote, SdTypeOK
<1>6. CASE ChangeExclusions
  BY <1>6 DEF ChangeExclusions, SdTypeOK
<1>7. CASE PollExclusions
  BY <1>7 DEF PollExclusions, SdTypeOK
<1>8. CASE IdleFires
  <2>1. [queue EXCEPT !.idle = FALSE] \in QueueType
    BY DEF SdTypeOK, QueueType
  <2> QED
    BY <1>8, <2>1, FlushDirtyTyped DEF IdleFires, SdTypeOK
<1>9. CASE StructFires
  <2>1. [queue EXCEPT !.struct = FALSE] \in QueueType
    BY DEF SdTypeOK, QueueType
  <2> QED
    BY <1>9, <2>1, FlushDirtyTyped DEF StructFires, SdTypeOK
<1>10. CASE Blur
  <2>1. EnqueueIfDirty(activeNote, queue) \in QueueType
    BY EnqueueTyped
  <2> QED
    BY <1>10, <2>1, FlushDirtyTyped DEF Blur, SdTypeOK
<1>11. CASE FlushLoads
  <2>1. [pass["flush"] EXCEPT !.at = "waits"] \in PassType
    BY <1>0 DEF SdTypeOK, PassType, PassAts
  <2> QED
    BY <1>0, <1>11, <2>1, IdleTyped, PassUpdate DEF FlushLoads, FlushThrows, SdTypeOK
<1>12. CASE FlushEnds
  <2>1. drain' \in DrainType
    BY <1>12, RunCatchUpTyped DEF FlushEnds, SdTypeOK
  <2>2. queue' \in QueueType
    BY <1>12 DEF FlushEnds, SdTypeOK, QueueType
  <2> QED
    BY <1>0, <1>12, <2>1, <2>2, IdleTyped, PassUpdate DEF FlushEnds, SdTypeOK
<1> QED
  BY <1>1, <1>2, <1>3, <1>4, <1>5, <1>6, <1>7, <1>8, <1>9, <1>10, <1>11, <1>12 DEF HostAct, FlushStep

\* A step of a delta gives its own pass another place, and maybe a note.
PassStep(p, r) ==
  /\ pass' = [pass EXCEPT ![p] = r]
  /\ r \in PassType /\ r.dirty = pass[p].dirty /\ r.deleted = pass[p].deleted

LEMMA DeltaStartsTo ==
  ASSUME SdTypeOK, NEW p \in SdPasses, DeltaStarts(p)
  PROVE  \E r : /\ PassStep(p, r)
                /\ r.at \in {"done", "copies", "embeds"} /\ (r.at = "copies" => device.sidecar)
                /\ r.mtime = pass[p].mtime
<1> DEFINE todo == BurstOf(p, pass[p].dirty)
           at == IF todo = {} THEN "done"
                 ELSE IF device.sidecar THEN "copies"
                 ELSE IF pass[p].embed THEN "embeds" ELSE "done"
           r == [pass[p] EXCEPT !.todo = todo, !.at = at]
<1>0. pass[p] \in PassType
  BY DEF SdTypeOK
<1>1. todo \in SUBSET SdNotes
  BY <1>0 DEF BurstOf, LiveNotes, PassType
<1>2. at \in {"done", "copies", "embeds"} /\ (at = "copies" => device.sidecar)
  OBVIOUS
<1>3. pass' = [pass EXCEPT ![p] = r]
  BY <1>2 DEF DeltaStarts, SdTypeOK
<1> HIDE DEF todo, at
<1>4. r \in PassType
  BY <1>0, <1>1, <1>2 DEF PassType, PassAts
<1>5. r.at = at /\ r.mtime = pass[p].mtime /\ r.dirty = pass[p].dirty /\ r.deleted = pass[p].deleted
  BY <1>0 DEF PassType
<1> QED
  BY <1>2, <1>3, <1>4, <1>5 DEF PassStep

LEMMA CopyReadsTo ==
  ASSUME SdTypeOK, NEW p \in SdPasses, CopyReads(p)
  PROVE  \E r : /\ PassStep(p, r)
                /\ r.at \in {"done", "embeds", "copied"} /\ (r.at = "copied" => r.note \in SdNotes)
                /\ r.mtime = pass[p].mtime
<1>0. pass[p] \in PassType
  BY DEF SdTypeOK
<1>1. ASSUME NEW a \in {"done", "embeds"}, pass' = [pass EXCEPT ![p].at = a]
      PROVE  PassStep(p, [pass[p] EXCEPT !.at = a])
  BY <1>0, <1>1 DEF PassStep, PassType, PassAts, SdTypeOK
<1>2. ASSUME NEW a \in {"done", "embeds"}
      PROVE  [pass[p] EXCEPT !.at = a].at = a /\ [pass[p] EXCEPT !.at = a].mtime = pass[p].mtime
  BY <1>0 DEF PassType
<1>3. CASE pass[p].todo \ pass[p].got = {}
  BY <1>1, <1>2, <1>3 DEF CopyReads
<1>4. CASE pass[p].todo \ pass[p].got # {}
  <2>1. PICK n \in pass[p].todo \ pass[p].got :
          \/ pass' = [pass EXCEPT ![p].at = "copied", ![p].note = n, ![p].content = vault[n]]
          \/ pass' = [pass EXCEPT ![p].at = IF pass[p].embed THEN "embeds" ELSE "done"]
    BY <1>4 DEF CopyReads
  <2>2. CASE pass' = [pass EXCEPT ![p].at = "copied", ![p].note = n, ![p].content = vault[n]]
    <3> DEFINE r == [pass[p] EXCEPT !.at = "copied", !.note = n, !.content = vault[n]]
    <3>1. n \in SdNotes
      BY <1>0 DEF PassType
    <3>2. pass' = [pass EXCEPT ![p] = r]
      BY <2>2 DEF SdTypeOK
    <3>3. r \in PassType
      BY <1>0, <3>1 DEF PassType, PassAts, SdTypeOK
    <3>4. /\ r.at = "copied" /\ r.note = n /\ r.mtime = pass[p].mtime
          /\ r.dirty = pass[p].dirty /\ r.deleted = pass[p].deleted
      BY <1>0 DEF PassType
    <3> QED
      BY <3>1, <3>2, <3>3, <3>4 DEF PassStep
  <2>3. CASE pass' = [pass EXCEPT ![p].at = IF pass[p].embed THEN "embeds" ELSE "done"]
    BY <1>1, <1>2, <2>3
  <2> QED
    BY <2>1, <2>2, <2>3
<1> QED
  BY <1>3, <1>4

LEMMA CopyCommitsTo ==
  ASSUME SdTypeOK, PassHolds, NEW p \in SdPasses, CopyCommits(p)
  PROVE  \E r : PassStep(p, r) /\ r.at = "copies" /\ r.mtime = pass[p].mtime
<1> DEFINE r == [pass[p] EXCEPT !.at = "copies", !.got = @ \cup {pass[p].note}]
<1>0. pass[p] \in PassType
  BY DEF SdTypeOK
<1>1. pass' = [pass EXCEPT ![p] = r]
  BY <1>0 DEF CopyCommits, SdTypeOK, PassType
<1>2. r \in PassType
  BY <1>0 DEF CopyCommits, PassHolds, PassType, PassAts
<1>3. r.at = "copies" /\ r.mtime = pass[p].mtime /\ r.dirty = pass[p].dirty /\ r.deleted = pass[p].deleted
  BY <1>0 DEF PassType
<1> QED
  BY <1>1, <1>2, <1>3 DEF PassStep

LEMMA EmbedStartsTo ==
  ASSUME SdTypeOK, NEW p \in SdPasses, EmbedStarts(p)
  PROVE  \E r : /\ PassStep(p, r)
                /\ \/ r.at = "done" /\ r.mtime = pass[p].mtime
                   \/ r.at = "reads" /\ r.note \in SdNotes /\ r.mtime = vault[r.note]
<1>0. pass[p] \in PassType
  BY DEF SdTypeOK
<1>1. CASE pass' = [pass EXCEPT ![p].at = "done"]
  <2> DEFINE r == [pass[p] EXCEPT !.at = "done"]
  <2>1. pass' = [pass EXCEPT ![p] = r]
    BY <1>1 DEF SdTypeOK
  <2>2. r \in PassType
    BY <1>0 DEF PassType, PassAts
  <2>3. r.at = "done" /\ r.mtime = pass[p].mtime /\ r.dirty = pass[p].dirty /\ r.deleted = pass[p].deleted
    BY <1>0 DEF PassType
  <2> QED
    BY <2>1, <2>2, <2>3 DEF PassStep
<1>2. CASE pass' # [pass EXCEPT ![p].at = "done"]
  <2>1. PICK n \in pass[p].todo \ pass[p].got :
          pass' = [pass EXCEPT ![p].at = "reads", ![p].note = n, ![p].mtime = vault[n]]
    BY <1>2 DEF EmbedStarts
  <2> DEFINE r == [pass[p] EXCEPT !.at = "reads", !.note = n, !.mtime = vault[n]]
  <2>2. n \in SdNotes
    BY <1>0 DEF PassType
  <2>3. pass' = [pass EXCEPT ![p] = r]
    BY <2>1 DEF SdTypeOK
  <2>4. r \in PassType
    BY <1>0, <2>2 DEF PassType, PassAts, SdTypeOK
  <2>5. /\ r.at = "reads" /\ r.note = n /\ r.mtime = vault[n]
        /\ r.dirty = pass[p].dirty /\ r.deleted = pass[p].deleted
    BY <1>0 DEF PassType
  <2> QED
    BY <2>2, <2>3, <2>4, <2>5 DEF PassStep
<1> QED
  BY <1>1, <1>2

LEMMA EmbedReadsTo ==
  ASSUME SdTypeOK, PassHolds, NEW p \in SdPasses, EmbedReads(p)
  PROVE  \E r : /\ PassStep(p, r) /\ r.mtime = pass[p].mtime /\ r.note = pass[p].note
                /\ \/ r.at = "embeds"
                   \/ /\ vault[r.note] # 0
                      /\ r.at = "commits" /\ r.content = vault[r.note] /\ r.note \in SdNotes
<1> DEFINE n == pass[p].note
<1>0. pass[p] \in PassType /\ n \in SdNotes
  BY DEF SdTypeOK, PassHolds, EmbedReads
<1>1. CASE vault[n] = 0
  <2> DEFINE r == [pass[p] EXCEPT !.at = "embeds", !.todo = @ \ {n}]
  <2>1. pass' = [pass EXCEPT ![p] = r]
    BY <1>0, <1>1 DEF EmbedReads, SdTypeOK, PassType
  <2>2. r \in PassType
    BY <1>0 DEF PassType, PassAts
  <2>3. /\ r.at = "embeds" /\ r.mtime = pass[p].mtime /\ r.note = n
        /\ r.dirty = pass[p].dirty /\ r.deleted = pass[p].deleted
    BY <1>0 DEF PassType
  <2> QED
    BY <2>1, <2>2, <2>3 DEF PassStep
<1>2. CASE vault[n] # 0
  <2> DEFINE r == [pass[p] EXCEPT !.at = "commits", !.content = vault[n]]
  <2>1. pass' = [pass EXCEPT ![p] = r]
    BY <1>0, <1>2 DEF EmbedReads, SdTypeOK, PassType
  <2>2. r \in PassType
    BY <1>0 DEF PassType, PassAts, SdTypeOK
  <2>3. /\ r.at = "commits" /\ r.mtime = pass[p].mtime /\ r.note = n /\ r.content = vault[n]
        /\ r.dirty = pass[p].dirty /\ r.deleted = pass[p].deleted
    BY <1>0 DEF PassType
  <2> QED
    BY <1>0, <1>2, <2>1, <2>2, <2>3 DEF PassStep
<1> QED
  BY <1>1, <1>2

LEMMA EmbedCommitsTo ==
  ASSUME SdTypeOK, PassHolds, NEW p \in SdPasses, EmbedCommits(p)
  PROVE  \E r : PassStep(p, r) /\ r.at = "embeds" /\ r.mtime = pass[p].mtime
<1> DEFINE r == [pass[p] EXCEPT !.at = "embeds", !.got = @ \cup {pass[p].note}]
<1>0. pass[p] \in PassType
  BY DEF SdTypeOK
<1>1. pass' = [pass EXCEPT ![p] = r]
  BY <1>0 DEF EmbedCommits, SdTypeOK, PassType
<1>2. r \in PassType
  BY <1>0 DEF EmbedCommits, PassHolds, PassType, PassAts
<1>3. r.at = "embeds" /\ r.mtime = pass[p].mtime /\ r.dirty = pass[p].dirty /\ r.deleted = pass[p].deleted
  BY <1>0 DEF PassType
<1> QED
  BY <1>1, <1>2, <1>3 DEF PassStep

LEMMA DeltaEndsTo ==
  ASSUME SdTypeOK, NEW p \in SdPasses, DeltaEnds(p)
  PROVE  \E r : PassStep(p, r) /\ r.at = "ended" /\ r.mtime = pass[p].mtime
<1> DEFINE r == [pass[p] EXCEPT !.at = "ended"]
<1>0. pass[p] \in PassType
  BY DEF SdTypeOK
<1>1. pass' = [pass EXCEPT ![p] = r]
  BY DEF DeltaEnds, SdTypeOK
<1>2. r \in PassType
  BY <1>0 DEF PassType, PassAts
<1>3. r.at = "ended" /\ r.mtime = pass[p].mtime /\ r.dirty = pass[p].dirty /\ r.deleted = pass[p].deleted
  BY <1>0 DEF PassType
<1> QED
  BY <1>1, <1>2, <1>3 DEF PassStep

\* A delta leaves the vault, the queues and the other pass alone, and its own stays typed.
LEMMA DeltaFrame ==
  ASSUME SdTypeOK, PassHolds, NEW p \in SdPasses, DeltaStep(p)
  PROVE  /\ UNCHANGED <<userVars, excludedAt, aligning, queue, snap, drain, pending, kicks, modelReady>>
         /\ \E r : PassStep(p, r)
<1>1. CASE DeltaStarts(p)
  BY <1>1, DeltaStartsTo DEF DeltaStarts
<1>2. CASE CopyReads(p)
  BY <1>2, CopyReadsTo DEF CopyReads
<1>3. CASE CopyCommits(p)
  BY <1>3, CopyCommitsTo DEF CopyCommits
<1>4. CASE EmbedStarts(p)
  BY <1>4, EmbedStartsTo DEF EmbedStarts
<1>5. CASE EmbedReads(p)
  BY <1>5, EmbedReadsTo DEF EmbedReads
<1>6. CASE EmbedCommits(p)
  BY <1>6, EmbedCommitsTo DEF EmbedCommits
<1>7. CASE DeltaEnds(p)
  BY <1>7, DeltaEndsTo DEF DeltaEnds
<1> QED
  BY <1>1, <1>2, <1>3, <1>4, <1>5, <1>6, <1>7 DEF DeltaStep

LEMMA DeltaTyped ==
  ASSUME SdTypeOK, PassHolds, NEW p \in SdPasses, DeltaStep(p)
  PROVE  SdTypeOK'
<1>0. pass[p] \in PassType
  BY DEF SdTypeOK
<1>1. pass' \in [SdPasses -> PassType]
  BY DeltaFrame DEF PassStep, SdTypeOK
<1>2. record' \in [SdNotes -> RecordType] /\ past' \in [overtaken : SUBSET SdNotes, stripped : SUBSET SdNotes]
  <2>1. CASE DeltaStarts(p)
    <3>1. record' \in [SdNotes -> RecordType]
      BY <2>1 DEF DeltaStarts, SdTypeOK, RecordType, NoRecord
    <3>2. past' \in [overtaken : SUBSET SdNotes, stripped : SUBSET SdNotes]
      BY <1>0, <2>1 DEF DeltaStarts, SdTypeOK, PassType, QueueType
    <3> QED
      BY <3>1, <3>2
  <2>2. CASE CopyCommits(p)
    BY <1>0, <2>2 DEF CopyCommits, SdTypeOK, PassHolds, PassType, RecordType
  <2>3. CASE EmbedCommits(p)
    BY <1>0, <2>3 DEF EmbedCommits, CommittedMtime, SdTypeOK, PassHolds, PassType, RecordType
  <2>4. CASE CopyReads(p) \/ EmbedStarts(p) \/ EmbedReads(p) \/ DeltaEnds(p)
    BY <2>4 DEF CopyReads, EmbedStarts, EmbedReads, DeltaEnds, indexVars, SdTypeOK
  <2> QED
    BY <2>1, <2>2, <2>3, <2>4 DEF DeltaStep
<1> QED
  BY <1>1, <1>2, DeltaFrame DEF SdTypeOK, userVars, vaultVars

\* The drain, the searches, and what throws.
LEMMA DrainTyped ==
  ASSUME SdTypeOK, DrainAct
  PROVE  SdTypeOK'
<1> USE DEF userVars, vaultVars, indexVars
<1>0. "flush" \in SdPasses /\ "catchup" \in SdPasses
  BY DEF SdPasses
<1>1. CASE FlushDeltaThrows
  BY <1>0, <1>1, IdleTyped, PassUpdate DEF FlushDeltaThrows, FlushThrows, SdTypeOK
<1>2. CASE CatchUpThrows
  <2>1. drain' \in DrainType
    BY <1>2, CatchUpEndsTyped DEF CatchUpThrows
  <2> QED
    BY <1>0, <1>2, <2>1, IdleTyped, PassUpdate DEF CatchUpThrows, SdTypeOK
<1>3. CASE DrainDiffs
  <2>1. drain' \in DrainType
    <3>1. [drain EXCEPT !.at = "diffing", !.remaining = Dirty, !.deletes = Gone] \in DrainType
      BY DEF SdTypeOK, DrainType, Dirty, Gone, IndexedNotes, LiveNotes
    <3> QED
      BY <1>3, <3>1, CatchUpEndsTyped DEF DrainDiffs
  <2> QED
    BY <1>3, <2>1 DEF DrainDiffs, SdTypeOK
<1>4. CASE DrainSweeps
  <2>1. drain' \in DrainType
    <3>1. <<drain.remaining, drain.deletes>> \in (SUBSET SdNotes) \X (SUBSET SdNotes)
      BY DEF SdTypeOK, DrainType
    <3>2. [drain EXCEPT !.at = "burst", !.swept = <<drain.remaining, drain.deletes>>] \in DrainType
      BY <3>1 DEF SdTypeOK, DrainType
    <3> QED
      BY <1>4, <3>2, CatchUpEndsTyped DEF DrainSweeps
  <2> QED
    BY <1>4, <2>1 DEF DrainSweeps, SdTypeOK
<1>5. CASE DrainBursts
  <2>1. [drain EXCEPT !.at = "diff"] \in DrainType /\ [drain EXCEPT !.at = "delta"] \in DrainType
    BY DEF SdTypeOK, DrainType
  <2>2. drain' \in DrainType
    BY <1>5, <2>1, CatchUpEndsTyped DEF DrainBursts
  <2>3. (AllowEmbed /\ modelReady) \in BOOLEAN
    BY DEF AllowEmbed, SdTypeOK
  <2>4. [PassIdle EXCEPT !.at = "waits", !.dirty = drain.remaining, !.deleted = drain.deletes,
                         !.embed = AllowEmbed /\ modelReady] \in PassType
    BY <2>3, IdleTyped DEF PassType, PassAts, SdTypeOK, DrainType
  <2>5. pass' \in [SdPasses -> PassType]
    BY <1>0, <1>5, <2>4, PassUpdate DEF DrainBursts, SdTypeOK
  <2> QED
    BY <1>5, <2>2, <2>5 DEF DrainBursts, SdTypeOK
<1>6. CASE BurstEnds
  <2>1. drain' \in DrainType
    <3>1. [drain EXCEPT !.at = "burst", !.remaining = @ \ pass["catchup"].got, !.deletes = {},
                        !.progressed = drain.progressed \/ pass["catchup"].got # {}] \in DrainType
      BY DEF SdTypeOK, DrainType
    <3> QED
      BY <1>6, <3>1, CatchUpEndsTyped DEF BurstEnds
  <2> QED
    BY <1>0, <1>6, <2>1, IdleTyped, PassUpdate DEF BurstEnds, SdTypeOK
<1>7. CASE StartupRuns \/ QueryEnds
  <2>1. [DrainOff EXCEPT !.at = "diff"] \in DrainType
    BY OffTyped DEF DrainType
  <2>2. AllowEmbed \in BOOLEAN
    BY DeviceFields DEF AllowEmbed, SdTypeOK
  <2> QED
    BY <1>7, <2>1, <2>2 DEF StartupRuns, QueryEnds, SdTypeOK
<1>8. CASE SessionEnds
  <2>1. drain' \in DrainType
    BY <1>8, RunCatchUpTyped DEF SessionEnds, SdTypeOK
  <2> QED
    BY <1>8, <2>1 DEF SessionEnds, SdTypeOK
<1>9. CASE RetryFires \/ SessionStarts \/ SessionGoesStale \/ QueryStarts \/ Unload
  BY <1>9 DEF RetryFires, SessionStarts, SessionGoesStale, QueryStarts, Unload, SdTypeOK
<1> QED
  BY <1>1, <1>2, <1>3, <1>4, <1>5, <1>6, <1>7, <1>8, <1>9 DEF DrainAct, DrainStep

\* Every step of the specification is one of the three kinds.
LEMMA Kinds == SdNext <=> HostAct \/ DrainAct \/ \E p \in SdPasses : DeltaStep(p)
  BY Zenon DEF SdNext, HostAct, DrainAct

-----------------------------------------------------------------------------
(***************************************************************************)
(* The passes and the mutex                                                *)
(***************************************************************************)
\* Outside its delta a pass stays as it is, or ends up not at its notes.
PassKept(p) ==
  \/ pass'[p] = pass[p]
  \/ pass'[p].at \notin Passing /\ pass'[p].mtime \in {pass[p].mtime, 0}

LEMMA ReplacedKeeps ==
  ASSUME SdTypeOK, NEW q \in SdPasses, NEW r, pass' = [pass EXCEPT ![q] = r],
         r.at \notin Passing, r.mtime = 0
  PROVE  \A p \in SdPasses : PassKept(p)
  BY DEF SdTypeOK, PassKept

LEMMA IdleKeeps ==
  ASSUME SdTypeOK, NEW q \in SdPasses, pass' = [pass EXCEPT ![q] = PassIdle]
  PROVE  \A p \in SdPasses : PassKept(p)
<1>1. PassIdle.at \notin Passing /\ PassIdle.mtime = 0
  BY DEF PassIdle, Passing
<1> QED
  BY <1>1, ReplacedKeeps

LEMMA SameKeeps ==
  ASSUME pass' = pass
  PROVE  \A p \in SdPasses : PassKept(p)
  BY DEF PassKept

LEMMA FlushDirtyKeeps ==
  ASSUME SdTypeOK, NEW q, FlushDirty(q)
  PROVE  \A p \in SdPasses : PassKept(p)
<1> DEFINE r == [PassIdle EXCEPT !.at = IF DefersEmbed(q) THEN "waits" ELSE "loads",
                                 !.dirty = q.dirty, !.deleted = q.deleted,
                                 !.embed = ~DefersEmbed(q)]
<1>1. pass' = pass \/ pass' = [pass EXCEPT !["flush"] = r]
  BY DEF FlushDirty
<1>2. r.at \notin Passing /\ r.mtime = 0
  BY DEF PassIdle, Passing
<1> HIDE DEF r
<1> QED
  BY <1>1, <1>2, SameKeeps, ReplacedKeeps DEF SdPasses

LEMMA ActKeeps ==
  ASSUME SdTypeOK, HostAct \/ DrainAct
  PROVE  (\A p \in SdPasses : PassKept(p)) /\ record' = record
<1> USE DEF userVars, vaultVars, indexVars
<1>1. CASE EditNote \/ LeaveNote \/ CreateNote \/ DeleteNote \/ RenameNote \/ ChangeExclusions
  BY <1>1 DEF EditNote, LeaveNote, CreateNote, DeleteNote, RenameNote, ChangeExclusions, PassKept
<1>2. CASE IdleFires \/ StructFires
  BY <1>2, FlushDirtyKeeps DEF IdleFires, StructFires
<1>3. CASE Blur
  BY <1>3, FlushDirtyKeeps DEF Blur, PassKept
<1>4. CASE FlushStep
  <2>1. CASE FlushLoads
    <3>1. CASE pass' = [pass EXCEPT !["flush"].at = "waits"]
      BY <2>1, <3>1 DEF FlushLoads, SdTypeOK, PassKept, Passing, SdPasses, PassType
    <3>2. CASE pass' = [pass EXCEPT !["flush"] = PassIdle]
      BY <2>1, <3>2, IdleKeeps DEF FlushLoads, SdPasses
    <3> QED
      BY <2>1, <3>1, <3>2 DEF FlushLoads, FlushThrows
  <2>2. CASE FlushEnds
    BY <2>2, IdleKeeps DEF FlushEnds, SdPasses
  <2> QED
    BY <1>4, <2>1, <2>2 DEF FlushStep
<1>5. CASE PollExclusions \/ DrainDiffs \/ DrainSweeps \/ StartupRuns \/ RetryFires
  BY <1>5 DEF PollExclusions, DrainDiffs, DrainSweeps, StartupRuns, RetryFires, PassKept
<1>6. CASE SessionStarts \/ SessionEnds \/ SessionGoesStale \/ QueryStarts \/ QueryEnds \/ Unload
  BY <1>6 DEF SessionStarts, SessionEnds, SessionGoesStale, QueryStarts, QueryEnds, Unload, PassKept
<1>7. CASE FlushDeltaThrows \/ CatchUpThrows \/ BurstEnds
  BY <1>7, IdleKeeps DEF FlushDeltaThrows, FlushThrows, CatchUpThrows, BurstEnds, SdPasses
<1>8. CASE DrainBursts
  <2> DEFINE r == [PassIdle EXCEPT !.at = "waits", !.dirty = drain.remaining,
                                   !.deleted = drain.deletes, !.embed = AllowEmbed /\ modelReady]
  <2>1. pass' = pass \/ pass' = [pass EXCEPT !["catchup"] = r]
    BY <1>8 DEF DrainBursts
  <2>2. r.at \notin Passing /\ r.mtime = 0
    BY DEF PassIdle, Passing
  <2>3. record' = record
    BY <1>8 DEF DrainBursts
  <2> HIDE DEF r
  <2> QED
    BY <2>1, <2>2, <2>3, SameKeeps, ReplacedKeeps DEF SdPasses
<1> QED
  BY <1>1, <1>2, <1>3, <1>4, <1>5, <1>6, <1>7, <1>8 DEF HostAct, DrainAct, DrainStep

\* A pass at its notes holds the mutex: only a delta that waits may take it, when it is free.
LEMMA ActHolds ==
  ASSUME SdTypeOK, PassHolds, HostAct \/ DrainAct
  PROVE  PassHolds'
<1>1. \A p \in SdPasses : PassKept(p)
  BY ActKeeps
<1>2. CASE sdWriter' = sdWriter
  BY <1>1, <1>2 DEF PassHolds, PassKept, Passing
<1>3. CASE FlushDeltaThrows
  <2>1. pass'["flush"].at = "idle" /\ pass["catchup"].at \notin Passing /\ pass'["catchup"] = pass["catchup"]
    BY <1>3 DEF FlushDeltaThrows, FlushThrows, PassIdle, PassHolds, SdTypeOK, SdPasses
  <2> QED
    BY <2>1 DEF PassHolds, Passing, SdPasses
<1>4. CASE CatchUpThrows
  <2>1. pass'["catchup"].at = "idle" /\ pass["flush"].at \notin Passing /\ pass'["flush"] = pass["flush"]
    BY <1>4 DEF CatchUpThrows, PassIdle, PassHolds, SdTypeOK, SdPasses
  <2> QED
    BY <2>1 DEF PassHolds, Passing, SdPasses
<1>5. FlushDeltaThrows \/ CatchUpThrows \/ sdWriter' = sdWriter
  <2> USE DEF userVars, vaultVars, indexVars
  <2>1. CASE EditNote \/ LeaveNote \/ CreateNote \/ DeleteNote \/ RenameNote \/ ChangeExclusions
    BY <2>1 DEF EditNote, LeaveNote, CreateNote, DeleteNote, RenameNote, ChangeExclusions
  <2>2. CASE PollExclusions \/ IdleFires \/ StructFires \/ Blur \/ FlushLoads \/ FlushEnds
    BY <2>2 DEF PollExclusions, IdleFires, StructFires, Blur, FlushLoads, FlushEnds
  <2>3. CASE DrainStep \/ StartupRuns \/ RetryFires
    BY <2>3 DEF DrainStep, DrainDiffs, DrainSweeps, DrainBursts, BurstEnds, StartupRuns, RetryFires
  <2>4. CASE SessionStarts \/ SessionEnds \/ SessionGoesStale \/ QueryStarts \/ QueryEnds \/ Unload
    BY <2>4 DEF SessionStarts, SessionEnds, SessionGoesStale, QueryStarts, QueryEnds, Unload
  <2> QED
    BY <2>1, <2>2, <2>3, <2>4 DEF HostAct, DrainAct, FlushStep
<1> QED
  BY <1>2, <1>3, <1>4, <1>5

\* While a delta is at its notes the other one is not.
LEMMA OneAtItsNotes ==
  ASSUME PassHolds, NEW p \in SdPasses, sdWriter \in {p, "none"}
  PROVE  \A q \in SdPasses \ {p} : pass[q].at \notin Passing
  BY DEF PassHolds, SdPasses

LEMMA DeltaHolds ==
  ASSUME SdTypeOK, PassHolds, NEW p \in SdPasses, DeltaStep(p)
  PROVE  /\ PassHolds' /\ \A q \in SdPasses \ {p} : pass[q].at \notin Passing
<1>1. sdWriter \in {p, "none"}
  <2>1. CASE DeltaStarts(p)
    BY <2>1 DEF DeltaStarts
  <2>2. CASE ~DeltaStarts(p)
    BY <2>2 DEF DeltaStep, PassHolds, Passing, CopyReads, CopyCommits, EmbedStarts, EmbedReads,
                EmbedCommits, DeltaEnds
  <2> QED
    BY <2>1, <2>2
<1>2. \A q \in SdPasses \ {p} : pass[q].at \notin Passing
  BY <1>1, OneAtItsNotes
<1>3. \E r : /\ PassStep(p, r)
             /\ r.at \in Passing => sdWriter' = p
             /\ r.at \in {"copied", "reads", "commits"} => r.note \in SdNotes
  <2>1. CASE DeltaStarts(p)
    BY <2>1, DeltaStartsTo DEF DeltaStarts
  <2>2. CASE CopyReads(p)
    BY <2>2, CopyReadsTo DEF CopyReads, indexVars, PassHolds, Passing
  <2>3. CASE CopyCommits(p)
    BY <2>3, CopyCommitsTo DEF CopyCommits, PassHolds, Passing
  <2>4. CASE EmbedStarts(p)
    BY <2>4, EmbedStartsTo DEF EmbedStarts, indexVars, PassHolds, Passing
  <2>5. CASE EmbedReads(p)
    BY <2>5, EmbedReadsTo DEF EmbedReads, indexVars, PassHolds, Passing
  <2>6. CASE EmbedCommits(p)
    BY <2>6, EmbedCommitsTo DEF EmbedCommits, PassHolds, Passing
  <2>7. CASE DeltaEnds(p)
    BY <2>7, DeltaEndsTo DEF DeltaEnds, Passing
  <2> QED
    BY <2>1, <2>2, <2>3, <2>4, <2>5, <2>6, <2>7 DEF DeltaStep
<1>4. PICK r : /\ PassStep(p, r)
               /\ r.at \in Passing => sdWriter' = p
               /\ r.at \in {"copied", "reads", "commits"} => r.note \in SdNotes
  BY <1>3
<1>5. pass'[p] = r /\ \A q \in SdPasses \ {p} : pass'[q] = pass[q]
  BY <1>4 DEF PassStep, SdTypeOK
<1>6. \A q \in SdPasses \ {p} :
        /\ pass'[q].at \in Passing => sdWriter' = q
        /\ pass'[q].at \in {"copied", "reads", "commits"} => pass'[q].note \in SdNotes
  BY <1>2, <1>5 DEF Passing
<1> QED
  BY <1>2, <1>4, <1>5, <1>6 DEF PassHolds

-----------------------------------------------------------------------------
(***************************************************************************)
(* The vault's clock                                                       *)
(***************************************************************************)
LEMMA ActClock ==
  ASSUME SdTypeOK, ClockLeads, HostAct \/ DrainAct
  PROVE  ClockLeads' /\ changes' >= changes
<1> USE DEF userVars, vaultVars
<1>1. changes' \in Nat /\ changes' >= changes /\ \A n \in SdNotes : vault'[n] <= changes'
  <2>1. CASE EditNote
    BY <2>1 DEF EditNote, SdTypeOK, ClockLeads
  <2>2. CASE CreateNote
    BY <2>2 DEF CreateNote, SdTypeOK, ClockLeads
  <2>3. CASE DeleteNote
    BY <2>3 DEF DeleteNote, SdTypeOK, ClockLeads
  <2>4. CASE RenameNote
    <3>1. PICK n \in SdNotes, m \in SdNotes : vault' = [vault EXCEPT ![m] = vault[n], ![n] = 0]
      BY <2>4 DEF RenameNote
    <3>2. changes' = changes + 1
      BY <2>4 DEF RenameNote
    <3> QED
      BY <3>1, <3>2 DEF SdTypeOK, ClockLeads
  <2>5. CASE LeaveNote \/ ChangeExclusions
    BY <2>5 DEF LeaveNote, ChangeExclusions, SdTypeOK, ClockLeads
  <2>6. CASE UNCHANGED <<changes, vault>>
    BY <2>6 DEF SdTypeOK, ClockLeads
  <2>7. CASE PollExclusions \/ IdleFires \/ StructFires \/ Blur \/ FlushLoads \/ FlushEnds
    BY <2>6, <2>7 DEF PollExclusions, IdleFires, StructFires, Blur, FlushLoads, FlushEnds
  <2>8. CASE DrainAct
    BY <2>6, <2>8 DEF DrainAct, DrainStep, DrainDiffs, DrainSweeps, DrainBursts, BurstEnds,
         FlushDeltaThrows, CatchUpThrows, StartupRuns, RetryFires, SessionStarts, SessionEnds,
         SessionGoesStale, QueryStarts, QueryEnds, Unload
  <2> QED
    BY <2>1, <2>2, <2>3, <2>4, <2>5, <2>7, <2>8 DEF HostAct, FlushStep
<1>2. \A n \in SdNotes : record'[n].mtime <= changes'
  BY <1>1, ActKeeps DEF SdTypeOK, RecordType, ClockLeads
<1>3. \A p \in SdPasses : pass'[p].mtime <= changes'
  BY <1>1, ActKeeps DEF SdTypeOK, PassType, PassKept, ClockLeads
<1> QED
  BY <1>1, <1>2, <1>3 DEF ClockLeads

LEMMA DeltaClock ==
  ASSUME SdTypeOK, PassHolds, ClockLeads, NEW p \in SdPasses, DeltaStep(p)
  PROVE  ClockLeads'
<1>1. changes' = changes /\ vault' = vault
  BY DeltaFrame DEF userVars, vaultVars
<1>2. \E r : PassStep(p, r) /\ r.mtime <= changes
  <2>1. pass[p].mtime <= changes
    BY DEF ClockLeads
  <2> QED
    BY <2>1, DeltaStartsTo, CopyReadsTo, CopyCommitsTo, EmbedStartsTo, EmbedReadsTo, EmbedCommitsTo,
       DeltaEndsTo DEF DeltaStep, ClockLeads
<1>3. \A q \in SdPasses : pass'[q].mtime <= changes
  BY <1>2 DEF PassStep, SdTypeOK, ClockLeads
<1>4. \A n \in SdNotes : record'[n].mtime <= changes
  <2>1. CASE DeltaStarts(p)
    BY <2>1 DEF DeltaStarts, NoRecord, ClockLeads, SdTypeOK
  <2>2. CASE CopyCommits(p)
    BY <2>2 DEF CopyCommits, PassHolds, ClockLeads, SdTypeOK
  <2>3. CASE EmbedCommits(p)
    BY <2>3 DEF EmbedCommits, CommittedMtime, PassHolds, ClockLeads, SdTypeOK
  <2>4. CASE record' = record
    BY <2>4 DEF ClockLeads
  <2> QED
    BY <2>1, <2>2, <2>3, <2>4 DEF DeltaStep, CopyReads, EmbedStarts, EmbedReads, DeltaEnds, indexVars
<1> QED
  BY <1>1, <1>3, <1>4 DEF ClockLeads

LEMMA BaseStep == SdBase /\ [SdNext]_sdVars => SdBase'
<1> SUFFICES ASSUME SdBase, [SdNext]_sdVars PROVE SdBase'
  OBVIOUS
<1>1. CASE HostAct \/ DrainAct
  BY <1>1, HostTyped, DrainTyped, ActHolds, ActClock DEF SdBase
<1>2. ASSUME NEW p \in SdPasses, DeltaStep(p) PROVE SdBase'
  BY <1>2, DeltaTyped, DeltaHolds, DeltaClock DEF SdBase
<1>3. CASE UNCHANGED sdVars
  <2>1. UNCHANGED <<device, changes, vault, record, activeNote, queue, pass, snap, drain, modelReady,
                    past, sdWriter>>
    BY <1>3 DEF sdVars, userVars, vaultVars, indexVars
  <2> QED
    BY <2>1 DEF SdBase, SdTypeOK, PassHolds, ClockLeads
<1> QED
  BY <1>1, <1>2, <1>3, Kinds

LEMMA BaseInit == SdInit => SdBase
<1> SUFFICES ASSUME SdInit PROVE SdBase
  OBVIOUS
<1>1. SdTypeOK
  BY InitTyped
<1>2. \A p \in SdPasses : pass[p] = PassIdle
  BY DEF SdInit
<1>3. PassIdle.at = "idle" /\ PassIdle.mtime = 0
  BY DEF PassIdle
<1>4. PassHolds
  BY <1>2, <1>3 DEF PassHolds, Passing
<1>5. ClockLeads
  BY <1>1, <1>2, <1>3 DEF ClockLeads, SdInit, NoRecord
<1> QED
  BY <1>1, <1>4, <1>5 DEF SdBase

-----------------------------------------------------------------------------
(***************************************************************************)
(* Records                                                                 *)
(***************************************************************************)
\* A note that is being read changes for the newer, goes, or is overtaken.
LEMMA VaultMoves ==
  ASSUME SdTypeOK, HostAct \/ DrainAct, NEW p \in SdPasses, pass[p].at = "reads",
         pass[p].note \in SdNotes
  PROVE  /\ past.overtaken \subseteq past'.overtaken
         /\ \/ vault'[pass[p].note] \in {vault[pass[p].note], 0, changes + 1}
            \/ pass[p].note \in past'.overtaken
<1> USE DEF userVars, vaultVars, indexVars
<1>1. CASE EditNote
  BY <1>1 DEF EditNote, SdTypeOK
<1>2. CASE CreateNote
  BY <1>2 DEF CreateNote, SdTypeOK
<1>3. CASE DeleteNote
  BY <1>3 DEF DeleteNote, SdTypeOK
<1>4. CASE RenameNote
  BY <1>4 DEF RenameNote, SdTypeOK
<1>5. CASE UNCHANGED <<vault, past>>
  BY <1>5
<1>6. CASE LeaveNote \/ ChangeExclusions \/ PollExclusions \/ IdleFires \/ StructFires \/ Blur
           \/ FlushStep
  BY <1>5, <1>6 DEF LeaveNote, ChangeExclusions, PollExclusions, IdleFires, StructFires, Blur,
       FlushStep, FlushLoads, FlushEnds
<1>7. CASE DrainAct
  BY <1>5, <1>7 DEF DrainAct, DrainStep, DrainDiffs, DrainSweeps, DrainBursts, BurstEnds,
       FlushDeltaThrows, CatchUpThrows, StartupRuns, RetryFires, SessionStarts, SessionEnds,
       SessionGoesStale, QueryStarts, QueryEnds, Unload
<1> QED
  BY <1>1, <1>2, <1>3, <1>4, <1>6, <1>7 DEF HostAct

LEMMA ActOvertakes ==
  ASSUME SdTypeOK, HostAct \/ DrainAct
  PROVE  past.overtaken \subseteq past'.overtaken /\ device' = device
<1> USE DEF userVars, vaultVars, indexVars
<1>1. CASE RenameNote
  BY <1>1 DEF RenameNote, SdTypeOK
<1>2. CASE UNCHANGED <<device, past>>
  BY <1>2
<1>3. CASE HostAct /\ ~RenameNote
  BY <1>2, <1>3 DEF HostAct, EditNote, CreateNote, DeleteNote, LeaveNote, ChangeExclusions,
       PollExclusions, IdleFires, StructFires, Blur, FlushStep, FlushLoads, FlushEnds
<1>4. CASE DrainAct
  BY <1>2, <1>4 DEF DrainAct, DrainStep, DrainDiffs, DrainSweeps, DrainBursts, BurstEnds,
       FlushDeltaThrows, CatchUpThrows, StartupRuns, RetryFires, SessionStarts, SessionEnds,
       SessionGoesStale, QueryStarts, QueryEnds, Unload
<1> QED
  BY <1>1, <1>3, <1>4

LEMMA ActRecords ==
  ASSUME SdBase, SdTypeOK', RecordInv, HostAct \/ DrainAct
  PROVE  RecordInv'
<1>1. /\ record' = record /\ device' = device /\ past.overtaken \subseteq past'.overtaken
      /\ \A p \in SdPasses : PassKept(p)
  BY ActKeeps, ActOvertakes DEF SdBase
<1>2. SdRecordTrue'
  BY <1>1 DEF RecordInv, SdRecordTrue
<1>3. ASSUME ~device.sidecar, NEW p \in SdPasses
      PROVE  pass'[p].at \notin {"copies", "copied"} /\ ReadTrue(p)'
  <2>1. pass[p].at \notin {"copies", "copied"} /\ ReadTrue(p)
    BY <1>3 DEF RecordInv
  <2>2. CASE pass'[p].at \notin Passing
    BY <2>2 DEF Passing, ReadTrue
  <2>3. CASE pass'[p] = pass[p] /\ pass[p].at = "reads"
    <3>1. pass[p].note \in SdNotes
      BY <2>3 DEF SdBase, PassHolds
    <3>2. \/ vault'[pass[p].note] \in {vault[pass[p].note], 0, changes + 1}
          \/ pass[p].note \in past'.overtaken
      BY <2>3, <3>1, VaultMoves DEF SdBase
    <3>3. pass[p].mtime <= changes /\ pass[p].mtime \in Nat /\ changes \in Nat
      BY DEF SdBase, ClockLeads, SdTypeOK, PassType
    <3> QED
      BY <1>1, <2>1, <2>3, <3>2, <3>3 DEF ReadTrue
  <2>4. CASE pass'[p] = pass[p] /\ pass[p].at # "reads"
    BY <1>1, <2>1, <2>4 DEF ReadTrue
  <2> QED
    BY <1>1, <2>2, <2>3, <2>4 DEF PassKept
<1> QED
  BY <1>1, <1>2, <1>3 DEF RecordInv

LEMMA DeltaRecords ==
  ASSUME SdBase, RecordInv, NEW p \in SdPasses, DeltaStep(p)
  PROVE  RecordInv'
<1>1. vault' = vault /\ device' = device
  BY DeltaFrame DEF SdBase, userVars, vaultVars
<1>2. past'.overtaken = past.overtaken
  BY DEF DeltaStep, DeltaStarts, CopyReads, CopyCommits, EmbedStarts, EmbedReads, EmbedCommits,
         DeltaEnds, indexVars, SdBase, SdTypeOK
<1> SUFFICES ASSUME ~device.sidecar
             PROVE  /\ \A n \in SdNotes \ past.overtaken : record'[n].mtime <= record'[n].content
                    /\ \A q \in SdPasses : pass'[q].at \notin {"copies", "copied"} /\ ReadTrue(q)'
  BY <1>1, <1>2 DEF RecordInv, SdRecordTrue
<1>3. /\ \A n \in SdNotes \ past.overtaken : record[n].mtime <= record[n].content
      /\ \A q \in SdPasses : pass[q].at \notin {"copies", "copied"} /\ ReadTrue(q)
  BY DEF RecordInv, SdRecordTrue
<1>4. \A n \in SdNotes \ past.overtaken : record'[n].mtime <= record'[n].content
  <2>1. CASE DeltaStarts(p)
    BY <1>3, <2>1 DEF DeltaStarts, NoRecord, SdBase, SdTypeOK
  <2>2. CASE EmbedCommits(p)
    <3>1. pass[p].note \notin past.overtaken => pass[p].mtime <= pass[p].content
      BY <1>3, <2>2 DEF EmbedCommits, ReadTrue
    <3> QED
      BY <1>3, <2>2, <3>1 DEF EmbedCommits, CommittedMtime, SdBase, SdTypeOK, PassHolds
  <2>3. CASE record' = record
    BY <1>3, <2>3
  <2> QED
    BY <1>3, <2>1, <2>2, <2>3 DEF DeltaStep, CopyReads, CopyCommits, EmbedStarts, EmbedReads,
       DeltaEnds, indexVars
<1>5. \E r : /\ PassStep(p, r) /\ r.at \notin {"copies", "copied"}
             /\ r.note \notin past.overtaken =>
                  /\ r.at = "reads" => vault[r.note] = 0 \/ r.mtime <= vault[r.note]
                  /\ r.at = "commits" => r.mtime <= r.content
  <2>1. CASE DeltaStarts(p)
    BY <2>1, DeltaStartsTo DEF SdBase
  <2>2. CASE EmbedStarts(p)
    <3>1. PICK r : /\ PassStep(p, r)
                   /\ \/ r.at = "done" /\ r.mtime = pass[p].mtime
                      \/ r.at = "reads" /\ r.note \in SdNotes /\ r.mtime = vault[r.note]
      BY <2>2, EmbedStartsTo DEF SdBase
    <3>2. r.at = "reads" => r.mtime <= vault[r.note]
      BY <3>1 DEF SdBase, SdTypeOK
    <3> QED
      BY <3>1, <3>2
  <2>3. CASE EmbedReads(p)
    <3>1. PICK r : /\ PassStep(p, r) /\ r.mtime = pass[p].mtime /\ r.note = pass[p].note
                   /\ \/ r.at = "embeds"
                      \/ /\ vault[r.note] # 0
                         /\ r.at = "commits" /\ r.content = vault[r.note] /\ r.note \in SdNotes
      BY <2>3, EmbedReadsTo DEF SdBase
    <3>2. ReadTrue(p) /\ pass[p].at = "reads"
      BY <1>3, <2>3 DEF EmbedReads
    <3> QED
      BY <3>1, <3>2 DEF ReadTrue
  <2>4. CASE EmbedCommits(p) \/ DeltaEnds(p)
    BY <2>4, EmbedCommitsTo, DeltaEndsTo DEF SdBase
  <2> QED
    BY <1>3, <2>1, <2>2, <2>3, <2>4 DEF DeltaStep, CopyReads, CopyCommits
<1>6. PICK r : /\ PassStep(p, r) /\ r.at \notin {"copies", "copied"}
               /\ r.note \notin past.overtaken =>
                    /\ r.at = "reads" => vault[r.note] = 0 \/ r.mtime <= vault[r.note]
                    /\ r.at = "commits" => r.mtime <= r.content
  BY <1>5
<1>7. pass'[p] = r /\ \A q \in SdPasses \ {p} : pass'[q] = pass[q]
  BY <1>6 DEF PassStep, SdBase, SdTypeOK
<1>8. \A q \in SdPasses : pass'[q].at \notin {"copies", "copied"} /\ ReadTrue(q)'
  BY <1>1, <1>2, <1>3, <1>6, <1>7 DEF ReadTrue
<1> QED
  BY <1>4, <1>8

LEMMA RecordInit == SdInit => RecordInv
<1> SUFFICES ASSUME SdInit PROVE RecordInv
  OBVIOUS
<1>1. \A p \in SdPasses : pass[p] = PassIdle
  BY DEF SdInit
<1>2. PassIdle.at = "idle"
  BY DEF PassIdle
<1>3. SdRecordTrue
  <2>1. \A n \in SdNotes : vault[n] \in Nat
    BY InitTyped DEF SdTypeOK
  <2>2. \A n \in SdNotes : record[n].mtime = record[n].content /\ record[n].mtime \in Nat
    BY <2>1 DEF SdInit, NoRecord
  <2> QED
    BY <2>2 DEF SdRecordTrue
<1> QED
  BY <1>1, <1>2, <1>3 DEF RecordInv, ReadTrue

\* A file record never claims an mtime past the content it was made from (commitFile of
\* search.ts), unless an older note was renamed onto its path while it was read.
THEOREM RecordsStayTrue == SdSpec => []SdRecordTrue
<1>1. SdInit => SdBase /\ RecordInv
  BY BaseInit, RecordInit
<1>2. SdBase /\ RecordInv /\ [SdNext]_sdVars => (SdBase /\ RecordInv)'
  <2> SUFFICES ASSUME SdBase, RecordInv, [SdNext]_sdVars PROVE SdBase' /\ RecordInv'
    OBVIOUS
  <2>1. SdBase'
    BY BaseStep
  <2>2. CASE HostAct \/ DrainAct
    BY <2>1, <2>2, ActRecords DEF SdBase
  <2>3. ASSUME NEW p \in SdPasses, DeltaStep(p) PROVE RecordInv'
    BY <2>3, DeltaRecords
  <2>4. CASE UNCHANGED sdVars
    <3>1. UNCHANGED <<device, vault, record, pass, past>>
      BY <2>4 DEF sdVars, userVars, vaultVars, indexVars
    <3>2. SdRecordTrue'
      BY <3>1 DEF RecordInv, SdRecordTrue
    <3>3. ASSUME NEW p \in SdPasses, ReadTrue(p) PROVE ReadTrue(p)'
      BY <3>1, <3>3 DEF ReadTrue
    <3> QED
      BY <2>1, <3>1, <3>2, <3>3 DEF RecordInv
  <2> QED
    BY <2>1, <2>2, <2>3, <2>4, Kinds
<1>3. RecordInv => SdRecordTrue
  BY DEF RecordInv
<1> QED
  BY <1>1, <1>2, <1>3, PTL DEF SdSpec

-----------------------------------------------------------------------------
(***************************************************************************)
(* Queues                                                                  *)
(***************************************************************************)
LEMMA ArmedHolds ==
  ASSUME queue'.idle \/ queue'.struct
  PROVE  DirtyHeld' /\ DeletesHeld'
  BY DEF DirtyHeld, DeletesHeld, InHand

\* A flush takes all there is in the queues, or arms a timer for it.
LEMMA FlushTakesAll ==
  ASSUME SdTypeOK, FlushIdle, NEW q \in QueueType, FlushDirty(q), vault' = vault
  PROVE  DirtyHeld' /\ DeletesHeld' /\ FlushIdle'
<1>0. "flush" \in SdPasses
  BY DEF SdPasses
<1>1. CASE FlushRunning /\ (q.dirty # {} \/ q.deleted # {})
  <2>1. queue'.idle \/ queue'.struct
    BY <1>1 DEF FlushDirty, Rearm, ScheduleFlush, QueueType
  <2>2. pass' = pass
    BY <1>1 DEF FlushDirty
  <2> QED
    BY <2>1, <2>2, ArmedHolds DEF FlushIdle
<1>2. CASE q.dirty = {} /\ q.deleted = {}
  <2>1. queue' = q /\ pass' = pass
    BY <1>2 DEF FlushDirty, Rearm
  <2> QED
    BY <1>2, <2>1 DEF DirtyHeld, DeletesHeld, FlushIdle
<1>3. CASE ~FlushRunning /\ (q.dirty # {} \/ q.deleted # {})
  <2> DEFINE r == [PassIdle EXCEPT !.at = IF DefersEmbed(q) THEN "waits" ELSE "loads",
                                   !.dirty = q.dirty, !.deleted = q.deleted,
                                   !.embed = ~DefersEmbed(q)]
  <2>1. queue' = q /\ snap' = vault /\ pass' = [pass EXCEPT !["flush"] = r]
    BY <1>3 DEF FlushDirty
  <2>2. r.at \in {"waits", "loads"} /\ r.dirty = q.dirty /\ r.deleted = q.deleted
    BY DEF PassIdle
  <2> HIDE DEF r
  <2>3. pass'["flush"] = r
    BY <1>0, <2>1 DEF SdTypeOK
  <2>4. DeletesHeld' /\ FlushIdle'
    BY <2>1, <2>2, <2>3 DEF DeletesHeld, FlushIdle
  <2>5. \A n \in queue'.dirty : n \in pass'["flush"].dirty /\ vault'[n] = snap'[n]
    BY <2>1, <2>2, <2>3
  <2> QED
    BY <2>4, <2>5 DEF DirtyHeld, InHand
<1> QED
  BY <1>1, <1>2, <1>3

\* Nothing that the queues rest on changes but the place of a pass.
LEMMA QuietHolds ==
  ASSUME SdTypeOK, QueueInv,
         UNCHANGED <<device, vault, record, queue, snap, past, activeNote>>,
         pass'["flush"] = pass["flush"], \A p \in SdPasses : PassKept(p)
  PROVE  QueueInv'
<1>1. FlushIdle'
  BY DEF QueueInv, FlushIdle
<1>2. ASSUME device.faults = {} PROVE DirtyHeld' /\ DeletesHeld'
  <2>1. DeletesHeld'
    BY <1>2 DEF QueueInv, DeletesHeld
  <2>2. ASSUME NEW n, InHand(n) PROVE InHand(n)'
    BY <2>2 DEF InHand
  <2>3. ASSUME NEW n, Settled(n) PROVE Settled(n)'
    BY <2>3 DEF Settled, PassKept, Passing
  <2> QED
    BY <1>2, <2>1, <2>2, <2>3 DEF QueueInv, DirtyHeld
<1> QED
  BY <1>1, <1>2 DEF QueueInv

\* EnqueueIfDirty arms the timer, or finds the note's record up to date.
LEMMA EnqueueArms ==
  ASSUME SdTypeOK, NEW n \in SdNotes
  PROVE  \/ EnqueueIfDirty(n, queue).idle
         \/ EnqueueIfDirty(n, queue) = queue /\ ~(vault[n] > record[n].mtime)
  BY DEF EnqueueIfDirty, ScheduleFlush, SdTypeOK, QueueType

LEMMA EditQueues ==
  ASSUME SdBase, QueueInv, EditNote
  PROVE  QueueInv'
<1>1. activeNote \in SdNotes /\ vault' = [vault EXCEPT ![activeNote] = changes + 1]
  BY DEF EditNote
<1>2. UNCHANGED <<device, record, queue, pass, snap, past, activeNote>>
  BY DEF EditNote, indexVars
<1>3. FlushIdle' /\ (device.faults = {} => DeletesHeld')
  BY <1>2 DEF QueueInv, FlushIdle, DeletesHeld
<1>4. ASSUME device.faults = {}, NEW n \in queue.dirty \ past.stripped
      PROVE  InHand(n)' \/ Settled(n)' \/ (n = activeNote /\ vault'[n] > record[n].mtime)
  <2>1. n \in SdNotes
    BY DEF SdBase, SdTypeOK, QueueType
  <2>2. CASE n = activeNote
    <3>1. vault'[n] = changes + 1
      BY <1>1, <2>2 DEF SdBase, SdTypeOK
    <3>2. record[n].mtime <= changes /\ record[n].mtime \in Nat /\ changes \in Nat
      BY <2>1 DEF SdBase, SdTypeOK, ClockLeads, RecordType
    <3> QED
      BY <2>2, <3>1, <3>2
  <2>3. CASE n # activeNote
    <3>1. vault'[n] = vault[n]
      BY <1>1, <2>1, <2>3 DEF SdBase, SdTypeOK
    <3> QED
      BY <1>2, <1>4, <2>3, <3>1 DEF QueueInv, DirtyHeld, InHand, Settled
  <2> QED
    BY <2>2, <2>3
<1> QED
  BY <1>2, <1>3, <1>4 DEF QueueInv, DirtyHeld

LEMMA LeaveQueues ==
  ASSUME SdBase, QueueInv, LeaveNote
  PROVE  QueueInv'
<1>1. UNCHANGED <<device, vault, record, pass, snap, past>>
  BY DEF LeaveNote, indexVars
<1>2. FlushIdle'
  BY <1>1 DEF QueueInv, FlushIdle
<1>3. ASSUME device.faults = {} PROVE DirtyHeld' /\ DeletesHeld'
  <2>1. queue' = EnqueueIfDirty(activeNote, queue)
    BY <1>3 DEF LeaveNote
  <2>2. CASE queue'.idle
    BY <2>2, ArmedHolds
  <2>3. CASE ~queue'.idle
    <3>1. queue' = queue /\ (activeNote \in SdNotes => ~(vault[activeNote] > record[activeNote].mtime))
      <4>1. CASE activeNote \in SdNotes
        BY <2>1, <2>3, <4>1, EnqueueArms DEF SdBase
      <4>2. CASE activeNote \notin SdNotes
        BY <2>1, <4>2 DEF EnqueueIfDirty
      <4> QED
        BY <4>1, <4>2
    <3>2. ASSUME NEW n \in queue.dirty \ past.stripped PROVE InHand(n) \/ Settled(n)
      <4>1. n \in SdNotes
        BY DEF SdBase, SdTypeOK, QueueType
      <4> QED
        BY <1>3, <3>1, <3>2, <4>1 DEF QueueInv, DirtyHeld
    <3>3. ASSUME NEW n, InHand(n) \/ Settled(n) PROVE InHand(n)' \/ Settled(n)'
      BY <1>1, <3>1, <3>3 DEF InHand, Settled
    <3> QED
      BY <1>1, <1>3, <3>1, <3>2, <3>3 DEF QueueInv, DirtyHeld, DeletesHeld
  <2> QED
    BY <2>2, <2>3
<1> QED
  BY <1>1, <1>2, <1>3 DEF QueueInv

LEMMA ChangeArms ==
  ASSUME SdBase, QueueInv, CreateNote \/ DeleteNote \/ RenameNote
  PROVE  QueueInv'
<1>1. pass' = pass
  BY DEF CreateNote, DeleteNote, RenameNote
<1>2. queue'.idle \/ queue'.struct
  <2>1. CASE CreateNote
    <3>1. PICK n \in SdNotes : queue' = ScheduleFlush([queue EXCEPT !.dirty = @ \cup {n}])
      BY <2>1 DEF CreateNote
    <3> QED
      BY <3>1 DEF ScheduleFlush, SdBase, SdTypeOK, QueueType
  <2>2. CASE DeleteNote
    <3>1. PICK n \in SdNotes : queue' = FlushStructuralSoon(Dropped(n, queue))
      BY <2>2 DEF DeleteNote
    <3> QED
      BY <3>1 DEF FlushStructuralSoon, Dropped, SdBase, SdTypeOK, QueueType
  <2>3. CASE RenameNote
    <3>1. PICK n \in SdNotes, m \in SdNotes :
            queue' = FlushStructuralSoon([Dropped(n, queue) EXCEPT !.dirty = @ \cup {m}])
      BY <2>3 DEF RenameNote
    <3> QED
      BY <3>1 DEF FlushStructuralSoon, Dropped, SdBase, SdTypeOK, QueueType
  <2> QED
    BY <2>1, <2>2, <2>3
<1> QED
  BY <1>1, <1>2, ArmedHolds DEF QueueInv, FlushIdle

LEMMA FlushEndsQueues ==
  ASSUME SdBase, QueueInv, FlushEnds
  PROVE  QueueInv'
<1> DEFINE f == pass["flush"]
<1>0. "flush" \in SdPasses /\ PassIdle.at = "idle" /\ PassIdle.dirty = {} /\ PassIdle.deleted = {}
  BY DEF SdPasses, PassIdle
<1>1. /\ pass' = [pass EXCEPT !["flush"] = PassIdle]
      /\ queue' = [queue EXCEPT !.deleted = @ \ f.deleted,
                                !.dirty = @ \ {n \in f.dirty : vault[n] = snap[n]}]
      /\ UNCHANGED <<device, vault, record, snap, past, activeNote>>
  BY DEF FlushEnds, userVars, vaultVars, indexVars
<1>2. pass'["flush"] = PassIdle /\ \A p \in SdPasses \ {"flush"} : pass'[p] = pass[p]
  BY <1>0, <1>1 DEF SdBase, SdTypeOK
<1>3. /\ queue'.idle = queue.idle /\ queue'.struct = queue.struct
      /\ queue'.deleted = queue.deleted \ f.deleted
      /\ queue'.dirty = queue.dirty \ {n \in f.dirty : vault[n] = snap[n]}
  BY <1>1 DEF SdBase, SdTypeOK, QueueType
<1>4. FlushIdle'
  BY <1>0, <1>2 DEF FlushIdle
<1>5. ASSUME device.faults = {} PROVE DeletesHeld'
  BY <1>3, <1>5 DEF QueueInv, DeletesHeld
<1>6. ASSUME device.faults = {}, NEW n \in queue'.dirty \ past.stripped
      PROVE  InHand(n)' \/ Settled(n)' \/ (n = activeNote /\ vault[n] > record[n].mtime)
  <2>1. n \in queue.dirty \ past.stripped /\ ~(n \in f.dirty /\ vault[n] = snap[n])
    BY <1>3, <1>6
  <2>2. CASE InHand(n)
    BY <1>3, <2>1, <2>2 DEF InHand
  <2>3. CASE Settled(n)
    <3>1. Settled(n)'
      BY <1>0, <1>1, <1>2, <2>3 DEF Settled
    <3> QED
      BY <3>1
  <2> QED
    BY <1>6, <2>1, <2>2, <2>3 DEF QueueInv, DirtyHeld
<1> QED
  BY <1>1, <1>4, <1>5, <1>6 DEF QueueInv, DirtyHeld

LEMMA TimerQueues ==
  ASSUME SdBase, QueueInv, IdleFires \/ StructFires \/ Blur
  PROVE  QueueInv'
<1>1. vault' = vault /\ UNCHANGED <<device, record, past, activeNote>>
  BY DEF IdleFires, StructFires, Blur, userVars, vaultVars, indexVars
<1>2. FlushIdle
  BY DEF QueueInv
<1>3. CASE IdleFires
  <2>1. [queue EXCEPT !.idle = FALSE] \in QueueType
    BY DEF SdBase, SdTypeOK, QueueType
  <2> QED
    BY <1>1, <1>2, <1>3, <2>1, FlushTakesAll DEF IdleFires, SdBase, QueueInv
<1>4. CASE StructFires
  <2>1. [queue EXCEPT !.struct = FALSE] \in QueueType
    BY DEF SdBase, SdTypeOK, QueueType
  <2> QED
    BY <1>1, <1>2, <1>4, <2>1, FlushTakesAll DEF StructFires, SdBase, QueueInv
<1>5. CASE Blur
  <2> DEFINE q == EnqueueIfDirty(activeNote, queue)
  <2>1. q \in QueueType
    BY EnqueueTyped DEF SdBase
  <2>2. CASE ~device.saver
    <3>1. FlushDirty(q)
      BY <1>5, <2>2 DEF Blur
    <3> QED
      BY <1>1, <1>2, <2>1, <3>1, FlushTakesAll DEF SdBase, QueueInv
  <2>3. CASE device.saver
    <3>1. queue' = q /\ pass' = pass /\ snap' = snap
      BY <1>5, <2>3 DEF Blur
    <3>2. CASE q.idle
      BY <1>2, <3>1, <3>2, ArmedHolds DEF QueueInv, FlushIdle
    <3>3. CASE ~q.idle
      <4>1. queue' = queue
        BY <3>1, <3>3, EnqueueArms DEF EnqueueIfDirty, SdBase
      <4>2. \A p \in SdPasses : PassKept(p)
        BY <3>1 DEF PassKept
      <4> QED
        BY <1>1, <3>1, <4>1, <4>2, QuietHolds DEF SdBase
    <3> QED
      BY <3>2, <3>3
  <2> QED
    BY <2>2, <2>3
<1> QED
  BY <1>3, <1>4, <1>5

\* What throws is left without a timer: no such device is one of these.
LEMMA ThrowQueues ==
  ASSUME SdBase, QueueInv, FlushThrows, device.faults # {}, device' = device
  PROVE  QueueInv'
<1>1. "flush" \in SdPasses /\ PassIdle.dirty = {} /\ PassIdle.deleted = {}
  BY DEF SdPasses, PassIdle
<1>2. pass'["flush"] = PassIdle
  BY <1>1 DEF FlushThrows, SdBase, SdTypeOK
<1> QED
  BY <1>1, <1>2 DEF QueueInv, FlushIdle

LEMMA ActQueues ==
  ASSUME SdBase, QueueInv, HostAct \/ DrainAct
  PROVE  QueueInv'
<1>0. \A p \in SdPasses : PassKept(p)
  BY ActKeeps DEF SdBase
<1>1. CASE EditNote \/ LeaveNote \/ CreateNote \/ DeleteNote \/ RenameNote
  BY <1>1, EditQueues, LeaveQueues, ChangeArms
<1>2. CASE IdleFires \/ StructFires \/ Blur
  BY <1>2, TimerQueues
<1>3. CASE FlushEnds
  BY <1>3, FlushEndsQueues
<1>4. CASE FlushLoads
  <2>1. CASE pass' = [pass EXCEPT !["flush"].at = "waits"]
    <3>1. UNCHANGED <<device, vault, record, queue, snap, past, activeNote>>
      BY <1>4 DEF FlushLoads, FlushThrows, userVars, vaultVars, indexVars
    <3>2. pass["flush"].at = "loads"
      BY <1>4 DEF FlushLoads
    <3>3. /\ pass'["flush"].at = "waits"
          /\ pass'["flush"].dirty = pass["flush"].dirty
          /\ pass'["flush"].deleted = pass["flush"].deleted
          /\ \A p \in SdPasses \ {"flush"} : pass'[p] = pass[p]
      BY <2>1 DEF SdBase, SdTypeOK, PassType, SdPasses
    <3>4. FlushIdle'
      BY <3>3 DEF FlushIdle
    <3>5. ASSUME NEW n, InHand(n) PROVE InHand(n)'
      BY <3>1, <3>3, <3>5 DEF InHand
    <3>6. ASSUME NEW n, Settled(n) PROVE Settled(n)'
      BY <1>0, <3>1, <3>6 DEF Settled, PassKept, Passing
    <3>7. ASSUME device.faults = {} PROVE DirtyHeld' /\ DeletesHeld'
      BY <3>1, <3>3, <3>5, <3>6, <3>7 DEF QueueInv, DirtyHeld, DeletesHeld
    <3> QED
      BY <3>1, <3>4, <3>7 DEF QueueInv
  <2>2. CASE FlushThrows /\ "load" \in device.faults
    BY <1>4, <2>2, ThrowQueues DEF FlushLoads, userVars
  <2> QED
    BY <1>4, <2>1, <2>2 DEF FlushLoads
<1>5. CASE FlushDeltaThrows
  BY <1>5, ThrowQueues DEF FlushDeltaThrows, userVars
<1>6. CASE ChangeExclusions \/ PollExclusions \/ StartupRuns \/ RetryFires \/ DrainDiffs \/ DrainSweeps
  <2>1. UNCHANGED <<device, vault, record, queue, snap, past, activeNote, pass>>
    BY <1>6 DEF ChangeExclusions, PollExclusions, StartupRuns, RetryFires, DrainDiffs, DrainSweeps,
         userVars, vaultVars, indexVars
  <2> QED
    BY <1>0, <2>1, QuietHolds DEF SdBase
<1>7. CASE SessionStarts \/ SessionEnds \/ SessionGoesStale \/ QueryStarts \/ QueryEnds \/ Unload
  <2>1. UNCHANGED <<device, vault, record, queue, snap, past, activeNote, pass>>
    BY <1>7 DEF SessionStarts, SessionEnds, SessionGoesStale, QueryStarts, QueryEnds, Unload,
         userVars, vaultVars, indexVars
  <2> QED
    BY <1>0, <2>1, QuietHolds DEF SdBase
<1>8. CASE DrainBursts \/ BurstEnds \/ CatchUpThrows
  <2>1. UNCHANGED <<device, vault, record, queue, snap, past, activeNote>>
    BY <1>8 DEF DrainBursts, BurstEnds, CatchUpThrows, userVars, vaultVars, indexVars
  <2>2. pass'["flush"] = pass["flush"]
    BY <1>8 DEF DrainBursts, BurstEnds, CatchUpThrows, SdBase, SdTypeOK, SdPasses
  <2> QED
    BY <1>0, <2>1, <2>2, QuietHolds DEF SdBase
<1> QED
  BY <1>1, <1>2, <1>3, <1>4, <1>5, <1>6, <1>7, <1>8 DEF HostAct, FlushStep, DrainAct, DrainStep

\* A step of a delta changes the record of a note only to what it read, or drops it.
LEMMA DeltaQueues ==
  ASSUME SdBase, SdTypeOK', QueueInv, NEW p \in SdPasses, DeltaStep(p)
  PROVE  QueueInv'
<1>1. UNCHANGED <<device, vault, activeNote, queue, snap>>
  BY DeltaFrame DEF SdBase, userVars, vaultVars
<1>2. \A q \in SdPasses \ {p} : pass'[q] = pass[q] /\ pass[q].at \notin Passing
  BY DeltaFrame, DeltaHolds DEF SdBase, SdTypeOK, PassStep
<1>3. pass'[p].dirty = pass[p].dirty /\ pass'[p].deleted = pass[p].deleted
  BY DeltaFrame DEF SdBase, SdTypeOK, PassStep
<1>4. /\ pass'["flush"].dirty = pass["flush"].dirty
      /\ pass'["flush"].deleted = pass["flush"].deleted
  BY <1>2, <1>3 DEF SdPasses
<1>5. past.stripped \subseteq past'.stripped
  <2>1. CASE DeltaStarts(p)
    BY <2>1 DEF DeltaStarts, SdBase, SdTypeOK
  <2>2. CASE past' = past
    BY <2>2
  <2> QED
    BY <2>1, <2>2 DEF DeltaStep, CopyReads, CopyCommits, EmbedStarts, EmbedReads, EmbedCommits,
       DeltaEnds, indexVars
<1>6. FlushIdle'
  <2>1. CASE p = "flush"
    <3>1. pass'[p].at # "idle"
      <4>1. \E r : PassStep(p, r) /\ r.at # "idle"
        BY DeltaStartsTo, CopyReadsTo, CopyCommitsTo, EmbedStartsTo, EmbedReadsTo, EmbedCommitsTo,
           DeltaEndsTo DEF DeltaStep, SdBase
      <4> QED
        BY <4>1 DEF PassStep, SdBase, SdTypeOK
    <3> QED
      BY <2>1, <3>1 DEF FlushIdle
  <2>2. CASE p # "flush"
    BY <1>2, <2>2 DEF FlushIdle, QueueInv, SdPasses
  <2> QED
    BY <2>1, <2>2
<1> SUFFICES ASSUME device.faults = {} PROVE DirtyHeld' /\ DeletesHeld'
  BY <1>1, <1>6 DEF QueueInv
<1>7. DeletesHeld'
  BY <1>1, <1>4 DEF QueueInv, DeletesHeld
<1>8. ASSUME NEW n, InHand(n) PROVE InHand(n)'
  BY <1>1, <1>4, <1>8 DEF InHand
<1> SUFFICES ASSUME NEW n \in queue.dirty \ past'.stripped, ~InHand(n)
             PROVE  Settled(n)' \/ (n = activeNote /\ vault[n] > record'[n].mtime)
  BY <1>1, <1>7, <1>8 DEF DirtyHeld
<1>9. n \in SdNotes /\ vault[n] \in Nat /\ record[n].mtime \in Nat /\ record'[n].mtime \in Nat
  BY DEF SdBase, SdTypeOK, QueueType, RecordType
<1>10. Settled(n) \/ (n = activeNote /\ vault[n] > record[n].mtime)
  BY <1>5 DEF QueueInv, DirtyHeld
<1>11. CASE DeltaStarts(p)
  <2>1. PICK r : PassStep(p, r) /\ r.at \in {"done", "copies", "embeds"}
    BY <1>11, DeltaStartsTo DEF SdBase
  <2>2. \A q \in SdPasses : pass'[q].at \notin {"reads", "commits"}
    BY <1>2, <2>1 DEF PassStep, SdBase, SdTypeOK, Passing
  <2>3. CASE n \in pass[p].deleted
    <3>1. record'[n].mtime = 0
      BY <1>9, <1>11, <2>3 DEF DeltaStarts, NoRecord
    <3>2. Awaited(n)
      BY <1>11, <2>3 DEF DeltaStarts, SdBase, SdTypeOK
    <3>3. n = activeNote
      BY <3>2 DEF Awaited, InHand
    <3> QED
      BY <1>1, <1>9, <2>2, <3>1, <3>3 DEF Settled
  <2>4. CASE n \notin pass[p].deleted
    <3>1. record'[n] = record[n]
      BY <1>9, <1>11, <2>4 DEF DeltaStarts
    <3> QED
      BY <1>1, <1>10, <2>2, <3>1 DEF Settled
  <2> QED
    BY <2>3, <2>4
<1>12. CASE CopyCommits(p)
  <2>1. PICK r : PassStep(p, r) /\ r.at = "copies"
    BY <1>12, CopyCommitsTo DEF SdBase
  <2>2. \A q \in SdPasses : pass'[q].at \notin {"reads", "commits"}
    BY <1>2, <2>1 DEF PassStep, SdBase, SdTypeOK, Passing
  <2>3. record'[n].mtime = record[n].mtime \/ record'[n].mtime = vault[n]
    BY <1>9, <1>12 DEF CopyCommits, SdBase, SdTypeOK
  <2> QED
    BY <1>1, <1>9, <1>10, <2>2, <2>3 DEF Settled
<1>13. CASE EmbedCommits(p)
  <2>1. PICK r : PassStep(p, r) /\ r.at = "embeds"
    BY <1>13, EmbedCommitsTo DEF SdBase
  <2>2. \A q \in SdPasses : pass'[q].at \notin {"reads", "commits"}
    BY <1>2, <2>1 DEF PassStep, SdBase, SdTypeOK, Passing
  <2>3. CASE n = pass[p].note
    <3>1. record'[n].mtime = pass[p].mtime
      BY <1>9, <1>13, <2>3 DEF EmbedCommits, CommittedMtime, SdBase, SdTypeOK
    <3>2. pass[p].at \in {"reads", "commits"} /\ pass[p].mtime \in Nat
      BY <1>13 DEF EmbedCommits, SdBase, SdTypeOK, PassType
    <3> QED
      BY <1>1, <1>9, <1>10, <2>2, <2>3, <3>1, <3>2 DEF Settled
  <2>4. CASE n # pass[p].note
    <3>1. record'[n] = record[n]
      BY <1>9, <1>13, <2>4 DEF EmbedCommits, SdBase, SdTypeOK
    <3> QED
      BY <1>1, <1>10, <2>2, <3>1 DEF Settled
  <2> QED
    BY <2>3, <2>4
<1>14. CASE EmbedStarts(p)
  <2>1. record' = record
    BY <1>14 DEF EmbedStarts, indexVars
  <2>2. PICK r : /\ PassStep(p, r)
                 /\ \/ r.at = "done" /\ r.mtime = pass[p].mtime
                    \/ r.at = "reads" /\ r.note \in SdNotes /\ r.mtime = vault[r.note]
    BY <1>14, EmbedStartsTo DEF SdBase
  <2>3. pass'[p] = r
    BY <2>2 DEF PassStep, SdBase, SdTypeOK
  <2>4. \A q \in SdPasses :
          pass'[q].at \in {"reads", "commits"} /\ pass'[q].note = n => vault[n] <= pass'[q].mtime
    BY <1>2, <1>9, <2>2, <2>3 DEF Passing
  <2> QED
    BY <1>1, <1>10, <2>1, <2>4 DEF Settled
<1>15. CASE EmbedReads(p)
  <2>1. record' = record /\ pass[p].at = "reads"
    BY <1>15 DEF EmbedReads, indexVars
  <2>2. PICK r : PassStep(p, r) /\ r.mtime = pass[p].mtime /\ r.note = pass[p].note
    BY <1>15, EmbedReadsTo DEF SdBase
  <2>3. pass'[p] = r
    BY <2>2 DEF PassStep, SdBase, SdTypeOK
  <2> QED
    BY <1>1, <1>2, <1>10, <2>1, <2>2, <2>3 DEF Settled, Passing
<1>16. CASE CopyReads(p) \/ DeltaEnds(p)
  <2>1. record' = record
    BY <1>16 DEF CopyReads, DeltaEnds, indexVars
  <2>2. \E r : PassStep(p, r) /\ r.at \notin {"reads", "commits"}
    BY <1>16, CopyReadsTo, DeltaEndsTo DEF SdBase
  <2>3. \A q \in SdPasses : pass'[q].at \notin {"reads", "commits"}
    BY <1>2, <2>2 DEF PassStep, SdBase, SdTypeOK, Passing
  <2> QED
    BY <1>1, <1>10, <2>1, <2>3 DEF Settled
<1> QED
  BY <1>11, <1>12, <1>13, <1>14, <1>15, <1>16 DEF DeltaStep

LEMMA QueueInit == SdInit => QueueInv
<1>1. PassIdle.dirty = {} /\ PassIdle.deleted = {} /\ "flush" \in SdPasses
  BY DEF PassIdle, SdPasses
<1> QED
  BY <1>1 DEF SdInit, QueueInv, FlushIdle, DirtyHeld, DeletesHeld

\* What the queues hold has a timer, a running flush or the editor to wait for
\* (flushDirty and its timers in plugin-schedulers.ts), where nothing throws.
THEOREM QueuesStayArmed == SdSpec => []SdTimerArmed
<1>1. SdInit => SdBase /\ QueueInv
  BY BaseInit, QueueInit
<1>2. SdBase /\ QueueInv /\ [SdNext]_sdVars => (SdBase /\ QueueInv)'
  <2> SUFFICES ASSUME SdBase, QueueInv, [SdNext]_sdVars PROVE SdBase' /\ QueueInv'
    OBVIOUS
  <2>1. SdBase'
    BY BaseStep
  <2>2. CASE HostAct \/ DrainAct
    BY <2>1, <2>2, ActQueues
  <2>3. ASSUME NEW p \in SdPasses, DeltaStep(p) PROVE QueueInv'
    BY <2>1, <2>3, DeltaQueues DEF SdBase
  <2>4. CASE UNCHANGED sdVars
    <3>1. UNCHANGED <<device, vault, record, queue, snap, past, activeNote, pass>>
      BY <2>4 DEF sdVars, userVars, vaultVars, indexVars
    <3>2. \A p \in SdPasses : PassKept(p)
      BY <3>1 DEF PassKept
    <3> QED
      BY <2>1, <3>1, <3>2, QuietHolds DEF SdBase
  <2> QED
    BY <2>1, <2>2, <2>3, <2>4, Kinds
<1>3. SdBase /\ QueueInv => SdTimerArmed
  <2> SUFFICES ASSUME SdBase, QueueInv, device.faults = {},
                      NEW n \in ((queue.dirty \cap Dirty) \ past.stripped) \cup queue.deleted
               PROVE  n = activeNote \/ queue.idle \/ queue.struct \/ FlushRunning
    BY DEF SdTimerArmed
  <2>1. CASE n \in queue.deleted
    BY <2>1 DEF QueueInv, DeletesHeld, FlushIdle, FlushRunning
  <2>2. CASE n \in (queue.dirty \cap Dirty) \ past.stripped
    <3>1. n \in SdNotes /\ vault[n] > record[n].mtime /\ vault[n] \in Nat /\ record[n].mtime \in Nat
      BY <2>2 DEF Dirty, LiveNotes, SdBase, SdTypeOK, RecordType
    <3>2. ~Settled(n)
      BY <3>1 DEF Settled
    <3> QED
      BY <2>2, <3>2 DEF QueueInv, DirtyHeld, InHand, FlushIdle, FlushRunning
  <2> QED
    BY <2>1, <2>2
<1> QED
  BY <1>1, <1>2, <1>3, PTL DEF SdSpec

------------------------------------------------------------------------------
\* The sidecar: restoring notes from the files of other devices.

\* A chunk names its note, so no two notes share one.
ChunksAt(n) == {n} \X Nat
HyOwn ==
  /\ ver \in [HyNotes -> Nat]
  /\ recs \in [HyNotes -> SUBSET (HyNotes \X Nat)]
  /\ \A n \in HyNotes : recs[n] \subseteq ChunksAt(n)

LEMMA ChunksAreOwn ==
  ASSUME NEW n \in HyNotes, ver \in [HyNotes -> Nat]
  PROVE  ChunksOf(n) \subseteq ChunksAt(n) /\ ChunksOf(n) \in SUBSET (HyNotes \X Nat)
  BY DEF ChunksOf, ChunksAt

LEMMA OwnInit == HyInit => HyOwn
  BY DEF HyInit, HyOwn

\* The store or the records change in four ways: a note is put whole, with its
\* stale chunks gone or not; everything goes; a record goes, with its chunks or
\* without them; orphans go.
Puts(n) ==
  /\ recs' = [recs EXCEPT ![n] = ChunksOf(n)]
  /\ ChunksOf(n) \subseteq idb' /\ idb \ idb' \subseteq recs[n]
  /\ ver' = ver
Wipes == recs' = [n \in HyNotes |-> {}] /\ ver' = ver
Drops(n) == recs' = [recs EXCEPT ![n] = {}] /\ idb \ idb' \subseteq recs[n] /\ ver' = ver
Sweeps == recs' = recs /\ idb \ idb' \subseteq orphans /\ ver' = ver
Edits == UNCHANGED <<recs, idb>> /\ ver' \in [HyNotes -> Nat]

LEMMA FiveWays ==
  ASSUME HyOwn, [HyNext]_hyVars
  PROVE  (\E n \in HyNotes : Puts(n) \/ Drops(n)) \/ Wipes \/ Sweeps \/ Edits
<1> USE DEF HyOwn
<1>1. ASSUME NEW n \in HyNotes, ChangeNote(n) \/ ForgetNote(n)  PROVE Edits
  BY <1>1 DEF ChangeNote, ForgetNote, Edits
<1>2. ASSUME NEW p \in HyPeers, \/ \E n \in HyNotes : PeerPublishes(p, n)
                                \/ PeerCompacts(p) \/ Deliver(p)
      PROVE  Edits
  BY <1>2 DEF PeerPublishes, PeerCompacts, Deliver, Edits
<1>3. CASE ReconcileSidecar \/ RebuildFromSidecar \/ HyScan \/ WalkEnds \/ FindOrphans
  <2>1. Edits
    BY <1>3 DEF ReconcileSidecar, RebuildFromSidecar, HyScan, WalkEnds, FindOrphans, Edits
  <2> QED  BY <2>1
<1>4. CASE Inspect
  <2>1. Edits \/ Wipes
    BY <1>4 DEF Inspect, Edits, Wipes
  <2> QED  BY <2>1
<1>5. ASSUME NEW n \in HyNotes, WalkNote(n)  PROVE Puts(n) \/ Edits
  BY <1>5 DEF WalkNote, PutNote, Whole, Puts, Edits
<1>6. ASSUME NEW n \in HyNotes, DedupViaSidecar(n)  PROVE Puts(n) \/ Edits
  BY <1>6 DEF DedupViaSidecar, Whole, Puts, Edits
<1>7. ASSUME NEW n \in HyNotes, EmbedNote(n)  PROVE Puts(n)
  BY <1>7 DEF EmbedNote, Puts
<1>8. ASSUME NEW n \in HyNotes, RemoveNote(n) \/ LoseRecord(n)  PROVE Drops(n)
  BY <1>8 DEF RemoveNote, LoseRecord, Drops
<1>9. CASE ClearAllStores
  BY <1>9 DEF ClearAllStores, Wipes
<1>10. CASE DeleteOrphans
  BY <1>10 DEF DeleteOrphans, Sweeps
<1>11. CASE UNCHANGED hyVars
  BY <1>11 DEF hyVars, Edits
<1> QED
  BY <1>1, <1>2, <1>3, <1>4, <1>5, <1>6, <1>7, <1>8, <1>9, <1>10, <1>11 DEF HyNext

LEMMA OwnStep ==
  ASSUME HyOwn, [HyNext]_hyVars
  PROVE  HyOwn'
<1>1. ASSUME NEW n \in HyNotes, Puts(n)  PROVE HyOwn'
  BY <1>1, ChunksAreOwn DEF Puts, HyOwn
<1>2. ASSUME NEW n \in HyNotes, Drops(n)  PROVE HyOwn'
  BY <1>2 DEF Drops, HyOwn
<1>3. CASE Wipes \/ Sweeps \/ Edits
  BY <1>3 DEF Wipes, Sweeps, Edits, HyOwn
<1> QED
  BY <1>1, <1>2, <1>3, FiveWays

\* A record never names a chunk the store lacks, whatever order the peers' files
\* arrive in, save through the delete half of an orphan sweep: any notes, peers,
\* versions and roles.
THEOREM RecordsStayWhole == HySpec => HyRecordsWhole
<1>1. ASSUME HyOwn, [HyNext]_hyVars, NEW n \in HyNotes
      PROVE  \/ recs'[n] \subseteq idb'
             \/ recs'[n] = recs[n] /\ (idb \ idb') \cap recs[n] \subseteq orphans
  <2>1. ASSUME NEW m \in HyNotes, Puts(m)
        PROVE  \/ recs'[n] \subseteq idb'
               \/ recs'[n] = recs[n] /\ (idb \ idb') \cap recs[n] \subseteq orphans
    <3>1. CASE m = n
      BY <1>1, <2>1, <3>1 DEF HyOwn, Puts
    <3>2. CASE m # n
      BY <1>1, <2>1, <3>2 DEF HyOwn, Puts, ChunksAt
    <3> QED  BY <3>1, <3>2
  <2>2. ASSUME NEW m \in HyNotes, Drops(m)
        PROVE  \/ recs'[n] \subseteq idb'
               \/ recs'[n] = recs[n] /\ (idb \ idb') \cap recs[n] \subseteq orphans
    <3>1. CASE m = n
      BY <1>1, <2>2, <3>1 DEF HyOwn, Drops
    <3>2. CASE m # n
      BY <1>1, <2>2, <3>2 DEF HyOwn, Drops, ChunksAt
    <3> QED  BY <3>1, <3>2
  <2>3. CASE Wipes \/ Sweeps \/ Edits
    BY <1>1, <2>3 DEF Wipes, Sweeps, Edits
  <2> QED
    BY <1>1, <2>1, <2>2, <2>3, FiveWays
<1>2. HyOwn /\ [HyNext]_hyVars
      => [\A n \in HyNotes :
            \/ recs'[n] \subseteq idb'
            \/ recs'[n] = recs[n] /\ (idb \ idb') \cap recs[n] \subseteq orphans]_hyVars
  BY <1>1
<1>3. HyOwn /\ [HyNext]_hyVars => HyOwn'
  BY OwnStep
<1> QED
  BY OwnInit, <1>2, <1>3, PTL DEF HySpec, HyRecordsWhole

-----------------------------------------------------------------------------
\* A rebuild: from the wipe on, a note that is still owed is one the sidecar covers,
\* on its way or restored; what the catalogue takes to be in the store is of notes
\* that have been walked.
IsJob(j) ==
  j \in [pc : {"idle", "inspect", "scan", "walk"}, kind : {"none", "reconcile", "rebuild"},
         sig : {j.sig}, scan : {j.scan}, todo : SUBSET HyNotes, owed : SUBSET HyNotes]
IsCatalog(k) ==
  k \in [sig : {k.sig}, scan : {k.scan}, existing : {k.existing}, loaded : BOOLEAN,
         known : BOOLEAN]

Owes(n) ==
  /\ n \in HyLive
  /\ hyJob.pc = "scan" => Covered(n)
  /\ hyJob.pc = "walk" =>
       /\ \A scan \in {hyJob.scan} : ChunksOf(n) \subseteq Ids(scan) /\ Whole(scan, n)
       /\ n \in hyJob.todo \/ recs[n] = ChunksOf(n)

Rebuilding == hyJob.kind = "rebuild" /\ hyJob.pc \in {"scan", "walk"}

HyRestoring ==
  /\ HyOwn /\ IsJob(hyJob) /\ IsCatalog(catalog)
  /\ Rebuilding =>
       /\ \A n \in hyJob.owed : Owes(n)
       /\ hyJob.pc = "scan" => catalog = NoCatalog /\ idb = {}
       /\ hyJob.pc = "walk" => \A c \in catalog.existing : c[1] \notin hyJob.todo

LEMMA IdleIsJob == IsJob(HyIdle)
  BY DEF IsJob, HyIdle

LEMMA RestoringInit == HyInit => HyRestoring
<1>1. IsCatalog(NoCatalog)
  BY DEF IsCatalog, NoCatalog
<1>2. ASSUME HyInit  PROVE HyRestoring
  <2>1. hyJob = HyIdle /\ catalog = NoCatalog /\ ~Rebuilding
    BY <1>2 DEF HyInit, HyIdle, Rebuilding
  <2> QED
    BY <1>1, <1>2, <2>1, IdleIsJob, OwnInit DEF HyRestoring
<1> QED
  BY <1>2

LEMMA SameCover ==
  ASSUME NEW n \in HyNotes, local' = local, ver'[n] = ver[n]
  PROVE  /\ Covered(n)' <=> Covered(n)
         /\ ChunksOf(n)' = ChunksOf(n)
         /\ \A scan : Whole(scan, n)' <=> Whole(scan, n)
<1>1. ChunksOf(n)' = ChunksOf(n)
  BY DEF ChunksOf
<1>2. \A scan, c : ReadRecord(scan, c)' <=> ReadRecord(scan, c)
  BY DEF ReadRecord, Winner
<1>3. ScanLogs' = ScanLogs
  BY DEF ScanLogs, AcceptedLogs, metaAccepts
<1>4. Covered(n)' <=> Covered(n)
  BY <1>1, <1>2, <1>3 DEF Covered, Ids
<1>5. ASSUME NEW scan  PROVE Whole(scan, n)' <=> Whole(scan, n)
  <2>1. Got(scan, n)' = Got(scan, n)
    BY <1>1, <1>2 DEF Got
  <2> QED
    BY <2>1, <1>1 DEF Whole
<1> QED
  BY <1>1, <1>4, <1>5

\* The world moves: a note that is changed or no longer covered is owed no more.
LEMMA WorldRestores ==
  ASSUME HyRestoring,
         \/ \E n \in HyNotes : ChangeNote(n) \/ ForgetNote(n)
         \/ \E p \in HyPeers, n \in HyNotes : PeerPublishes(p, n)
         \/ \E p \in HyPeers : PeerCompacts(p) \/ Deliver(p)
  PROVE  HyRestoring'
<1>1. HyOwn'
  BY OwnStep DEF HyRestoring, HyNext
<1>2. ASSUME NEW m \in HyNotes, ChangeNote(m) \/ ForgetNote(m)
      PROVE  HyRestoring'
  <2>1. hyJob' = [hyJob EXCEPT !.owed = @ \ {m}] /\ UNCHANGED <<local, idb, recs, catalog>>
    BY <1>2 DEF ChangeNote, ForgetNote, Forget
  <2>2. \A n \in HyNotes \ {m} : ver'[n] = ver[n]
    BY <1>2 DEF ChangeNote, ForgetNote, HyRestoring, HyOwn
  <2>3. IsJob(hyJob)' /\ IsCatalog(catalog)'
    BY <2>1 DEF HyRestoring, IsJob, IsCatalog
  <2>4. hyJob'.pc = hyJob.pc /\ hyJob'.kind = hyJob.kind /\ hyJob'.scan = hyJob.scan
        /\ hyJob'.todo = hyJob.todo /\ hyJob'.owed = hyJob.owed \ {m}
    BY <2>1 DEF HyRestoring, IsJob
  <2>5. ASSUME Rebuilding, NEW n \in hyJob'.owed  PROVE Owes(n)'
    <3>1. n \in HyNotes \ {m} /\ n \in hyJob.owed /\ Owes(n)
      BY <2>4, <2>5 DEF HyRestoring, IsJob
    <3>2. /\ Covered(n)' <=> Covered(n)
          /\ ChunksOf(n)' = ChunksOf(n)
          /\ \A scan : Whole(scan, n)' <=> Whole(scan, n)
      BY <3>1, <2>1, <2>2, SameCover
    <3>3. (n \in HyLive)' <=> n \in HyLive
      BY <3>1, <2>2 DEF HyLive
    <3> QED
      BY <2>1, <2>4, <3>1, <3>2, <3>3 DEF Owes, Ids
  <2> QED
    BY <1>1, <2>1, <2>3, <2>4, <2>5 DEF HyRestoring, Rebuilding
<1>3. ASSUME NEW p \in HyPeers, Deliver(p)
      PROVE  HyRestoring'
  <2>1. /\ UNCHANGED <<ver, idb, recs, catalog>>
        /\ hyJob' = [hyJob EXCEPT !.owed =
                       {n \in @ : /\ Covered(n)'
                                  /\ \A scan \in {hyJob.scan} :
                                       hyJob.pc = "walk" => Whole(scan, n)'}]
    BY <1>3 DEF Deliver
  <2>2. IsJob(hyJob)' /\ IsCatalog(catalog)'
    BY <2>1 DEF HyRestoring, IsJob, IsCatalog
  <2>3. /\ hyJob'.pc = hyJob.pc /\ hyJob'.kind = hyJob.kind /\ hyJob'.scan = hyJob.scan
        /\ hyJob'.todo = hyJob.todo
        /\ hyJob'.owed = {n \in hyJob.owed : /\ Covered(n)'
                                             /\ \A scan \in {hyJob.scan} :
                                                  hyJob.pc = "walk" => Whole(scan, n)'}
    BY <2>1 DEF HyRestoring, IsJob
  <2>4. ASSUME Rebuilding, NEW n \in hyJob'.owed  PROVE Owes(n)'
    <3>1. /\ n \in HyNotes /\ n \in hyJob.owed /\ Owes(n) /\ Covered(n)'
          /\ \A scan \in {hyJob.scan} : hyJob.pc = "walk" => Whole(scan, n)'
      BY <2>3, <2>4 DEF HyRestoring, IsJob
    <3>2. ChunksOf(n)' = ChunksOf(n) /\ HyLive' = HyLive
      BY <2>1 DEF ChunksOf, HyLive
    <3> QED
      BY <2>1, <2>3, <3>1, <3>2 DEF Owes, Ids
  <2> QED
    BY <1>1, <2>1, <2>2, <2>3, <2>4 DEF HyRestoring, Rebuilding
<1>4. ASSUME NEW p \in HyPeers, (\E n \in HyNotes : PeerPublishes(p, n)) \/ PeerCompacts(p)
      PROVE  HyRestoring'
  <2>1. UNCHANGED <<ver, local, idb, recs, catalog, hyJob>>
    BY <1>4 DEF PeerPublishes, PeerCompacts
  <2>2. ASSUME Rebuilding, NEW n \in hyJob.owed  PROVE Owes(n)'
    <3>1. n \in HyNotes /\ Owes(n)
      BY <2>2 DEF HyRestoring, IsJob
    <3>2. /\ Covered(n)' <=> Covered(n)
          /\ ChunksOf(n)' = ChunksOf(n)
          /\ \A scan : Whole(scan, n)' <=> Whole(scan, n)
      BY <2>1, <3>1, SameCover
    <3> QED
      BY <2>1, <3>1, <3>2 DEF Owes, Ids, HyLive
  <2> QED
    BY <1>1, <2>1, <2>2 DEF HyRestoring, Rebuilding, IsJob, IsCatalog
<1> QED
  BY <1>2, <1>3, <1>4

\* The start of a rebuild: what it owes is covered, and the store is wiped.
LEMMA InspectRestores ==
  ASSUME HyRestoring, Inspect
  PROVE  HyRestoring'
<1>1. HyOwn'
  BY OwnStep DEF HyRestoring, HyNext
<1>2. CASE Blocked
  <2>1. hyJob' = HyIdle /\ catalog' = catalog
    BY <1>2 DEF Inspect, Finish
  <2>2. IsJob(hyJob)' /\ IsCatalog(catalog)' /\ ~Rebuilding'
    BY <2>1, IdleIsJob DEF HyRestoring, Rebuilding, HyIdle, IsCatalog
  <2> QED
    BY <1>1, <2>2 DEF HyRestoring
<1>3. CASE ~Blocked
  <2>1. hyJob' = [hyJob EXCEPT !.pc = "scan",
                               !.owed = {n \in HyLive : ChunksOf(n) \subseteq Ids(ScanLogs)}]
    BY <1>3 DEF Inspect
  <2>2. IsJob(hyJob)'
    BY <2>1 DEF HyRestoring, IsJob, HyLive
  <2>3. /\ hyJob'.pc = "scan" /\ hyJob'.kind = hyJob.kind
        /\ hyJob'.owed = {n \in HyLive : ChunksOf(n) \subseteq Ids(ScanLogs)}
    BY <2>1 DEF HyRestoring, IsJob
  <2>4. CASE hyJob.kind = "rebuild"
    <3>1. PreflightReady /\ idb' = {} /\ catalog' = NoCatalog /\ UNCHANGED <<ver, local>>
      BY <1>3, <2>4 DEF Inspect, Blocked, CatalogAfterWipe
    <3>2. ASSUME NEW n \in hyJob'.owed  PROVE Owes(n)'
      <4>1. n \in HyNotes /\ n \in HyLive /\ Covered(n)
        BY <2>3, <3>1, <3>2 DEF Covered, PreflightReady, HyLive
      <4>2. Covered(n)'
        BY <3>1, <4>1, SameCover
      <4> QED
        BY <2>3, <3>1, <4>1, <4>2 DEF Owes, HyLive
    <3>3. IsCatalog(catalog)'
      BY <3>1 DEF IsCatalog, NoCatalog
    <3> QED
      BY <1>1, <2>2, <2>3, <3>1, <3>2, <3>3 DEF HyRestoring
  <2>5. CASE hyJob.kind # "rebuild"
    BY <1>1, <1>3, <2>2, <2>3, <2>5 DEF Inspect, HyRestoring, Rebuilding, IsCatalog
  <2> QED
    BY <2>4, <2>5
<1> QED
  BY <1>2, <1>3

\* An owed note is not overlooked by an empty scan.
LEMMA OwedIsScanned ==
  ASSUME HyRestoring, Rebuilding, hyJob.pc = "scan", NEW n \in hyJob.owed
  PROVE  /\ AcceptedLogs # {} /\ ~(Ids(ScanLogs) \subseteq {})
         /\ ChunksOf(n) \subseteq Ids(ScanLogs) /\ Whole(ScanLogs, n) /\ n \in HyLive
<1>1. n \in HyLive /\ Covered(n)
  BY DEF HyRestoring, Owes
<1>2. ChunksOf(n) # {}
  BY <1>1 DEF HyLive, ChunksOf
<1>3. ChunksOf(n) \subseteq Ids(ScanLogs)
  BY <1>1 DEF Covered
<1>4. Whole(ScanLogs, n)
  BY <1>1 DEF Covered, Whole, Got
<1>5. PICK c : c \in Ids(ScanLogs)
  BY <1>2, <1>3
<1>6. AcceptedLogs # {}
  BY <1>5 DEF Ids, ScanLogs
<1> QED
  BY <1>1, <1>3, <1>4, <1>5, <1>6

LEMMA ScanRestores ==
  ASSUME HyRestoring, HyScan
  PROVE  HyRestoring'
<1>1. HyOwn'
  BY OwnStep DEF HyRestoring, HyNext
<1>2. /\ UNCHANGED <<ver, local, idb, recs>>
      /\ hyJob.pc = "scan"
  BY DEF HyScan
<1>3. CASE hyJob' = HyIdle
  <2>1. IsCatalog(catalog)'
    <3>1. IsCatalog(catalog) /\ (catalog' = catalog \/ catalog' = WithCatalog)
      BY DEF HyScan, HyRestoring
    <3>2. IsCatalog(WithCatalog)
      BY <3>1 DEF WithCatalog, IsCatalog
    <3> QED
      BY <3>1, <3>2
  <2>2. IsJob(hyJob)' /\ ~Rebuilding'
    BY <1>3, IdleIsJob DEF Rebuilding, HyIdle
  <2> QED
    BY <1>1, <2>1, <2>2 DEF HyRestoring
<1>4. CASE hyJob' # HyIdle
  <2>1. /\ catalog' = WithCatalog
        /\ hyJob' = [hyJob EXCEPT !.pc = "walk", !.scan = catalog'.scan, !.todo = HyLive]
    BY <1>4 DEF HyScan, Finish
  <2>2. IsJob(hyJob)' /\ IsCatalog(catalog)'
    BY <2>1 DEF WithCatalog, HyRestoring, IsJob, IsCatalog, HyLive
  <2>3. /\ hyJob'.pc = "walk" /\ hyJob'.kind = hyJob.kind /\ hyJob'.owed = hyJob.owed
        /\ hyJob'.scan = catalog'.scan /\ hyJob'.todo = HyLive
    BY <2>1 DEF HyRestoring, IsJob
  <2>4. CASE hyJob.kind = "rebuild"
    <3>1. Rebuilding /\ catalog = NoCatalog /\ idb = {}
      BY <1>2, <2>4 DEF HyRestoring, Rebuilding
    <3>2. catalog'.scan = ScanLogs /\ catalog'.existing = {}
      BY <2>1, <3>1 DEF WithCatalog, NoCatalog
    <3>3. ASSUME NEW n \in hyJob'.owed  PROVE Owes(n)'
      <4>1. /\ n \in HyNotes /\ n \in HyLive
            /\ ChunksOf(n) \subseteq Ids(ScanLogs) /\ Whole(ScanLogs, n)
        BY <1>2, <2>3, <3>1, <3>3, OwedIsScanned DEF HyRestoring, IsJob
      <4>2. ChunksOf(n)' = ChunksOf(n) /\ \A scan : Whole(scan, n)' <=> Whole(scan, n)
        BY <1>2, <4>1, SameCover
      <4>3. \A scan \in {hyJob'.scan} : ChunksOf(n)' \subseteq Ids(scan) /\ Whole(scan, n)'
        BY <2>3, <3>2, <4>1, <4>2
      <4>4. (n \in HyLive)'
        BY <1>2, <4>1 DEF HyLive
      <4> QED
        BY <2>3, <4>1, <4>3, <4>4 DEF Owes, Ids
    <3> QED
      BY <1>1, <2>2, <2>3, <3>2, <3>3 DEF HyRestoring
  <2>5. CASE hyJob.kind # "rebuild"
    BY <1>1, <2>2, <2>3, <2>5 DEF HyRestoring, Rebuilding
  <2> QED
    BY <2>4, <2>5
<1> QED
  BY <1>3, <1>4

\* The walk: each note is restored when its turn comes, for nothing of it is in the
\* catalogue before.
LEMMA WalkRestores ==
  ASSUME HyRestoring, NEW m \in HyNotes, WalkNote(m)
  PROVE  HyRestoring'
<1>1. HyOwn'
  BY OwnStep DEF HyRestoring, HyNext
<1>2. /\ hyJob.pc = "walk" /\ m \in hyJob.todo /\ UNCHANGED <<ver, local>>
      /\ hyJob' = [hyJob EXCEPT !.todo = @ \ {m}]
  BY DEF WalkNote
<1>3. /\ IsJob(hyJob)'
      /\ hyJob'.pc = "walk" /\ hyJob'.kind = hyJob.kind /\ hyJob'.owed = hyJob.owed
      /\ hyJob'.scan = hyJob.scan /\ hyJob'.todo = hyJob.todo \ {m}
  BY <1>2 DEF HyRestoring, IsJob
<1>4. /\ IsCatalog(catalog)'
      /\ catalog'.existing \subseteq catalog.existing \cup ChunksOf(m)
      /\ \A n \in HyNotes \ {m} : recs'[n] = recs[n]
  <2>1. CASE UNCHANGED <<idb, recs, catalog>>
    BY <2>1 DEF HyRestoring, IsCatalog
  <2>2. CASE PutNote(hyJob.scan, m)
    BY <2>2 DEF PutNote, HyRestoring, IsCatalog, HyOwn
  <2> QED
    BY <2>1, <2>2 DEF WalkNote
<1>5. CASE Rebuilding
  <2>1. \A c \in catalog'.existing : c[1] \notin hyJob'.todo
    BY <1>2, <1>3, <1>4, <1>5, ChunksAreOwn DEF HyRestoring, Rebuilding, HyOwn, ChunksAt
  <2>2. ASSUME NEW n \in hyJob.owed  PROVE Owes(n)'
    <3>1. /\ n \in HyNotes /\ n \in HyLive
          /\ \A scan \in {hyJob.scan} : ChunksOf(n) \subseteq Ids(scan) /\ Whole(scan, n)
          /\ n \in hyJob.todo \/ recs[n] = ChunksOf(n)
      BY <1>2, <1>5 DEF HyRestoring, Owes, IsJob
    <3>2. /\ ChunksOf(n)' = ChunksOf(n) /\ HyLive' = HyLive
          /\ \A scan : Whole(scan, n)' <=> Whole(scan, n)
      BY <1>2, <3>1, SameCover DEF HyLive
    <3>3. n \in hyJob'.todo \/ recs'[n] = ChunksOf(n)
      <4>1. CASE n # m
        BY <1>3, <1>4, <3>1, <4>1
      <4>2. CASE n = m
        <5>1. PICK c : c \in ChunksOf(m)
          BY <3>1, <4>2 DEF HyLive, ChunksOf
        <5>2. c[1] = m
          BY <5>1, ChunksAreOwn DEF HyRestoring, HyOwn, ChunksAt
        <5>3. c \notin catalog.existing
          BY <1>2, <1>5, <5>2 DEF HyRestoring
        <5>4. Candidate(hyJob.scan, m) /\ Whole(hyJob.scan, m)
          BY <3>1, <4>2, <5>1, <5>3 DEF Candidate
        <5>5. recs' = [recs EXCEPT ![m] = ChunksOf(m)]
          BY <5>4 DEF WalkNote, PutNote
        <5> QED
          BY <4>2, <5>5 DEF HyRestoring, HyOwn
      <4> QED
        BY <4>1, <4>2
    <3> QED
      BY <1>3, <3>1, <3>2, <3>3 DEF Owes, Ids
  <2> QED
    BY <1>1, <1>3, <1>4, <2>1, <2>2 DEF HyRestoring
<1>6. CASE ~Rebuilding
  BY <1>1, <1>2, <1>3, <1>4, <1>6 DEF HyRestoring, Rebuilding
<1> QED
  BY <1>5, <1>6

LEMMA RestoringStep ==
  ASSUME HyRestoring, [HyNext]_hyVars
  PROVE  HyRestoring'
<1>1. HyOwn'
  BY OwnStep DEF HyRestoring
<1>2. CASE ReconcileSidecar \/ RebuildFromSidecar
  <2>1. /\ hyJob' = [HyIdle EXCEPT !.pc = "inspect", !.kind = hyJob'.kind, !.sig = hyJob'.sig]
        /\ hyJob'.kind \in {"reconcile", "rebuild"} /\ catalog' = catalog
    BY <1>2 DEF ReconcileSidecar, RebuildFromSidecar, HyIdle
  <2>2. IsJob(hyJob)' /\ ~Rebuilding'
    BY <2>1 DEF HyIdle, IsJob, Rebuilding
  <2> QED
    BY <1>1, <2>1, <2>2 DEF HyRestoring, IsCatalog
<1>3. CASE WalkEnds
  <2>1. hyJob' = HyIdle /\ catalog' = catalog
    BY <1>3 DEF WalkEnds, Finish
  <2>2. IsJob(hyJob)' /\ ~Rebuilding'
    BY <2>1, IdleIsJob DEF HyIdle, Rebuilding
  <2> QED
    BY <1>1, <2>1, <2>2 DEF HyRestoring, IsCatalog
<1>4. ASSUME NEW n \in HyNotes, DedupViaSidecar(n)  PROVE HyRestoring'
  <2>1. hyJob' = hyJob /\ ~Rebuilding
    BY <1>4 DEF DedupViaSidecar, Idle, Rebuilding
  <2>2. IsCatalog(WithCatalog)
    BY DEF HyRestoring, WithCatalog, IsCatalog
  <2>3. IsCatalog(catalog)'
    BY <1>4, <2>2 DEF DedupViaSidecar, IsCatalog
  <2> QED
    BY <1>1, <2>1, <2>3 DEF HyRestoring, Rebuilding, IsJob
<1>5. CASE \/ \E n \in HyNotes : EmbedNote(n) \/ RemoveNote(n) \/ LoseRecord(n)
           \/ ClearAllStores \/ FindOrphans \/ DeleteOrphans
  <2>1. UNCHANGED <<hyJob, catalog>> /\ ~Rebuilding
    BY <1>5 DEF EmbedNote, RemoveNote, LoseRecord, ClearAllStores, FindOrphans, DeleteOrphans,
                Idle, Rebuilding
  <2> QED
    BY <1>1, <2>1 DEF HyRestoring, Rebuilding, IsJob, IsCatalog
<1>6. CASE UNCHANGED hyVars
  <2>1. UNCHANGED <<ver, local, idb, recs, hyJob, catalog>>
    BY <1>6 DEF hyVars
  <2>2. ASSUME Rebuilding, NEW n \in hyJob.owed  PROVE Owes(n)'
    <3>1. n \in HyNotes /\ Owes(n)
      BY <2>2 DEF HyRestoring, IsJob
    <3>2. /\ Covered(n)' <=> Covered(n)
          /\ ChunksOf(n)' = ChunksOf(n)
          /\ \A scan : Whole(scan, n)' <=> Whole(scan, n)
      BY <2>1, <3>1, SameCover
    <3> QED
      BY <2>1, <3>1, <3>2 DEF Owes, Ids, HyLive
  <2> QED
    BY <1>1, <2>1, <2>2 DEF HyRestoring, Rebuilding, IsJob, IsCatalog
<1> QED
  BY <1>2, <1>3, <1>4, <1>5, <1>6, WorldRestores, InspectRestores, ScanRestores, WalkRestores
  DEF HyNext

\* A rebuild gives back every note it owes, for any notes, peers and versions, and
\* however edits, peers and the sync service interleave with it.
THEOREM RebuildsRestore == HySpec => HyRebuildRestores
<1>1. ASSUME HyRestoring, [HyNext]_hyVars, hyJob.kind = "rebuild",
             hyJob.pc \in {"scan", "walk"}, hyJob'.pc = "idle", NEW n \in hyJob.owed
      PROVE  recs[n] = ChunksOf(n)
  <2>1. Rebuilding /\ Owes(n) /\ n \in HyNotes
    BY <1>1 DEF HyRestoring, Rebuilding, IsJob
  <2>2. HyScan \/ WalkEnds
    <3>1. hyJob' # hyJob /\ ~Idle /\ hyJob.pc # "inspect"
      BY <1>1 DEF Idle
    <3>2. ASSUME NEW m \in HyNotes, ChangeNote(m) \/ ForgetNote(m) \/ WalkNote(m)  PROVE FALSE
      BY <1>1, <3>2 DEF ChangeNote, ForgetNote, Forget, WalkNote, HyRestoring, IsJob
    <3>3. ASSUME NEW p \in HyPeers, Deliver(p)  PROVE FALSE
      BY <1>1, <3>3 DEF Deliver, HyRestoring, IsJob
    <3> QED
      BY <1>1, <3>1, <3>2, <3>3
      DEF HyNext, hyVars, PeerPublishes, PeerCompacts, ReconcileSidecar, RebuildFromSidecar,
          Inspect, DedupViaSidecar, EmbedNote, RemoveNote, LoseRecord, ClearAllStores,
          FindOrphans, DeleteOrphans
  <2>3. CASE HyScan
    <3>1. /\ AcceptedLogs # {} /\ ~(Ids(ScanLogs) \subseteq {})
          /\ catalog = NoCatalog /\ idb = {}
      BY <1>1, <2>1, <2>3, OwedIsScanned DEF HyScan, HyRestoring
    <3>2. catalog' = WithCatalog /\ WithCatalog.scan = ScanLogs /\ WithCatalog.existing = {}
      BY <2>3, <3>1 DEF HyScan, WithCatalog, NoCatalog
    <3>3. hyJob' = [hyJob EXCEPT !.pc = "walk", !.scan = catalog'.scan, !.todo = HyLive]
      BY <2>3, <3>1, <3>2 DEF HyScan
    <3> QED
      BY <1>1, <3>3 DEF HyRestoring, IsJob
  <2>4. CASE WalkEnds
    <3>1. /\ hyJob.todo = {} \/ Ids(hyJob.scan) \subseteq catalog.existing
          /\ hyJob.pc = "walk"
      BY <2>4 DEF WalkEnds
    <3>2. n \notin hyJob.todo
      <4>1. CASE Ids(hyJob.scan) \subseteq catalog.existing
        <5>1. ChunksOf(n) \subseteq catalog.existing
          BY <2>1, <3>1, <4>1 DEF Owes
        <5>2. PICK c : c \in ChunksOf(n)
          BY <2>1 DEF Owes, HyLive, ChunksOf
        <5>3. c[1] = n
          BY <1>1, <2>1, <5>2, ChunksAreOwn DEF HyRestoring, HyOwn, ChunksAt
        <5> QED
          BY <1>1, <2>1, <3>1, <5>1, <5>2, <5>3 DEF HyRestoring
      <4> QED
        BY <3>1, <4>1
    <3> QED
      BY <2>1, <3>1, <3>2 DEF Owes
  <2> QED
    BY <2>2, <2>3, <2>4
<1>2. HyRestoring /\ [HyNext]_hyVars
      => [hyJob.kind = "rebuild" /\ hyJob.pc \in {"scan", "walk"} /\ hyJob'.pc = "idle"
            => \A n \in hyJob.owed : recs[n] = ChunksOf(n)]_hyVars
  BY <1>1
<1>3. HyRestoring /\ [HyNext]_hyVars => HyRestoring'
  BY RestoringStep
<1> QED
  BY RestoringInit, <1>2, <1>3, PTL DEF HySpec, HyRebuildRestores

-----------------------------------------------------------------------------
(* The files of the sidecar (SidecarStore).                                 *)

\* A record with the place it is at; a line of the log is one too.
Places == [id : ScIds, seq : Nat, off : 1 .. ShardCap]
SamePlace(r, s) == r.seq = s.seq /\ r.off = s.off

ShardNames == {Shard(n) : n \in Nat}
Named == ShardNames \cup {Jsonl, Meta}

\* What a file of a name may contain.
Fits(x, c) ==
  /\ x \in ShardNames => c \in Seq(ScIds) /\ Len(c) <= ShardCap
  /\ x = Jsonl => c \in Seq(Places)
  /\ x = Meta => c \in Nat
Doings == {"write", "replace", "rename", "remove"}

\* The record r is in contents c of a file x.
Has(r, x, c) ==
  \/ x = Shard(r.seq) /\ r.off \in DOMAIN c /\ c[r.off] = r.id
  \/ x = Jsonl /\ \E i \in DOMAIN c : c[i] = r
HasWritten(r, d) ==
  \E x \in Named : \/ x \in DOMAIN d /\ Has(r, x, d[x])
                   \/ Tmp(x) \in DOMAIN d /\ Has(r, x, d[Tmp(x)])
Planned(r, s) ==
  \E i \in DOMAIN s : s[i].do \in {"write", "replace"} /\ Has(r, s[i].name, s[i].contents)

\* The floor that a restart would find.
FloorOf(d) == IF Meta \in DOMAIN d THEN d[Meta]
              ELSE IF Tmp(Meta) \in DOMAIN d THEN d[Tmp(Meta)] ELSE 0
\* No operation that starts from d uses the seq n again.
Burned(n, d) == \/ n < FloorOf(d)
                \/ \E m \in Nat : n <= m /\ (Shard(m) \in DOMAIN d \/ Tmp(Shard(m)) \in DOMAIN d)

Typed(d) ==
  /\ IsFiniteSet(DOMAIN d)
  /\ \A f \in DOMAIN d : f \in Named \/ \E x \in Named : f = Tmp(x)
  /\ \A x \in Named : /\ x \in DOMAIN d => Fits(x, d[x])
                      /\ Tmp(x) \in DOMAIN d => Fits(x, d[Tmp(x)])

\* What is left of an operation: one file step after the other.
IsPlan(s) ==
  /\ Len(s) \in Nat /\ s = [i \in 1 .. Len(s) |-> s[i]]
  /\ \A i \in DOMAIN s : s[i].do \in Doings /\ s[i].name \in Named
\* A .tmp is there exactly between the two halves of a replace.
Renames(s, d) ==
  /\ \A x \in Named : Tmp(x) \in DOMAIN d => s # << >> /\ s[1].do = "rename" /\ s[1].name = x
  /\ \A i \in DOMAIN s : s[i].do = "rename" => i = 1 /\ Tmp(s[i].name) \in DOMAIN d
\* A shard goes when the floor has passed it.
FloorFirst(s, d) ==
  \A i \in DOMAIN s : \A n \in Nat : s[i].do = "remove" /\ s[i].name = Shard(n) =>
    \/ n < FloorOf(d)
    \/ \E j \in DOMAIN s : /\ j < i /\ s[j].name = Meta
                           /\ \/ s[j].do = "replace" /\ n < s[j].contents
                              \/ s[j].do = "rename" /\ n < d[Tmp(Meta)]
\* The floor never falls.
FloorRises(s, d) ==
  /\ \A i \in DOMAIN s : s[i].name = Meta =>
       /\ s[i].do \in {"replace", "rename"}
       /\ s[i].do = "replace" => FloorOf(d) <= s[i].contents
       /\ s[i].do = "rename" => FloorOf(d) <= d[Tmp(Meta)]
  /\ \A i, j \in DOMAIN s : s[i].name = Meta /\ s[j].name = Meta => i = j
\* A line is written after the shard it points into.
ShardsBefore(s, d) ==
  \A i \in DOMAIN s : s[i].do \in {"write", "replace"} =>
    /\ Fits(s[i].name, s[i].contents)
    /\ s[i].do = "write" => s[i].name = Jsonl
    /\ s[i].name = Jsonl => \A k \in DOMAIN s[i].contents :
         \/ Burned(s[i].contents[k].seq, d)
         \/ \E j \in DOMAIN s, n \in Nat : /\ j < i /\ s[j].do = "replace" /\ s[j].name = Shard(n)
                                          /\ s[i].contents[k].seq <= n
PlanOk(s, d) == IsPlan(s) /\ FloorFirst(s, d) /\ FloorRises(s, d) /\ ShardsBefore(s, d)

Known(r) == \/ r \in shownLines \cup shownBytes \/ HasWritten(r, disk) \/ Planned(r, dirJob.steps)

JobShape(j) ==
  /\ j = [op |-> j.op, steps |-> j.steps, first |-> j.first, keep |-> j.keep]
  /\ j.op = "none" => j.steps = << >>

ScInv ==
  /\ JobShape(dirJob)
  /\ session \in {"up", "down", "sweep"}
  /\ shownLines \subseteq Places /\ shownBytes \subseteq Places
  /\ Typed(disk) /\ PlanOk(dirJob.steps, disk)
  /\ session = "up" => Renames(dirJob.steps, disk)
  /\ session # "up" => dirJob.steps = << >>
  /\ \A r, s \in Places : Known(r) /\ Known(s) /\ SamePlace(r, s) => r.id = s.id
  /\ \A r \in Places : r \in shownLines \cup shownBytes \/ HasWritten(r, disk) => Burned(r.seq, disk)

LEMMA NamesDiffer ==
  /\ \A n \in Nat : Shard(n) \in Named /\ Shard(n) # Jsonl /\ Shard(n) # Meta
  /\ \A n, m \in Nat : Shard(n) = Shard(m) => n = m
  /\ Jsonl \in Named /\ Meta \in Named /\ Jsonl # Meta
  /\ \A x, y \in Named : Tmp(x) # y /\ (Tmp(x) = Tmp(y) => x = y)
  BY DEF Shard, Jsonl, Meta, Tmp, Named, ShardNames

\* What a step does to the plan: its head is done, or a replace becomes a rename.
Shifted(s, t) ==
  /\ 1 \in DOMAIN s /\ Head(s) = s[1]
  /\ IsPlan(t) /\ DOMAIN s = 1 .. Len(s) /\ Len(s) \in Nat
  /\ \A i \in DOMAIN t : i \in Nat /\ i # 0 /\ i + 1 \in DOMAIN s /\ t[i] = s[i + 1]
  /\ \A i \in DOMAIN s : i = 1 \/ (i - 1 \in DOMAIN t /\ (i - 1) + 1 = i)
HalfDone(s, t) ==
  /\ IsPlan(t) /\ DOMAIN t = DOMAIN s /\ 1 \in DOMAIN s /\ t # << >>
  /\ t[1].do = "rename" /\ t[1].name = s[1].name
  /\ \A i \in DOMAIN s : i # 1 => t[i] = s[i]

LEMMA HeadDone ==
  ASSUME NEW s, IsPlan(s), s # << >>, NEW t, t = Tail(s)
  PROVE  Shifted(s, t)
<1> DEFINE V == {s[i] : i \in DOMAIN s}
<1>1. Len(s) \in Nat /\ DOMAIN s = 1 .. Len(s) /\ s \in Seq(V)
  BY DEF IsPlan
<1> HIDE DEF V
<1>2. Len(s) # 0
  BY <1>1
<1>3. /\ Head(s) = s[1] /\ t \in Seq(V) /\ Len(t) = Len(s) - 1
      /\ \A i \in 1 .. Len(t) : t[i] = s[i + 1]
  BY <1>1, <1>2
<1>4. DOMAIN t = 1 .. Len(t) /\ Len(t) \in Nat /\ t = [i \in 1 .. Len(t) |-> t[i]]
  <2>1. Len(t) \in Nat /\ t \in [1 .. Len(t) -> V] /\ DOMAIN t = 1 .. Len(t)
    BY <1>3, LenProperties
  <2> QED
    BY <2>1
<1>5. \A i \in DOMAIN t : i \in Nat /\ i # 0 /\ i + 1 \in DOMAIN s /\ t[i] = s[i + 1]
  BY <1>1, <1>2, <1>3, <1>4
<1>6. \A i \in DOMAIN t : t[i].do \in Doings /\ t[i].name \in Named
  BY <1>5 DEF IsPlan
<1>7. \A i \in DOMAIN s : i = 1 \/ (i - 1 \in DOMAIN t /\ (i - 1) + 1 = i)
  BY <1>1, <1>2, <1>3, <1>4
<1> QED
  BY <1>1, <1>2, <1>3, <1>4, <1>5, <1>6, <1>7 DEF IsPlan, Shifted

LEMMA HeadHalfDone ==
  ASSUME NEW s, IsPlan(s), s # << >>, s[1].do = "replace",
         NEW t, t = <<RenameStep(s[1].name)>> \o Tail(s)
  PROVE  HalfDone(s, t)
<1> DEFINE V == {s[i] : i \in DOMAIN s} \cup {RenameStep(s[1].name)}
           r == RenameStep(s[1].name)
<1>1. Len(s) \in Nat /\ DOMAIN s = 1 .. Len(s) /\ s \in Seq(V) /\ r \in V
  BY DEF IsPlan
<1>r. r.do = "rename" /\ r.name = s[1].name
  BY DEF RenameStep
<1> HIDE DEF V, r
<1>2. Len(s) # 0
  BY <1>1
<1>3. /\ Tail(s) \in Seq(V) /\ Len(Tail(s)) = Len(s) - 1
      /\ \A i \in 1 .. Len(Tail(s)) : Tail(s)[i] = s[i + 1]
  BY <1>1, <1>2
<1>4. t = <<r>> \o Tail(s)
  BY DEF r
<1>5. /\ t \in Seq(V) /\ Len(t) = Len(s) /\ t[1] = r
      /\ \A i \in 1 .. Len(s) : i # 1 => t[i] = s[i]
  BY <1>1, <1>2, <1>3, <1>4
<1>6. DOMAIN t = DOMAIN s /\ 1 \in DOMAIN s /\ t = [i \in 1 .. Len(t) |-> t[i]] /\ t # << >>
  BY <1>1, <1>2, <1>5
<1>7. \A i \in DOMAIN t : t[i].do \in Doings /\ t[i].name \in Named
  BY <1>1, <1>5, <1>6, <1>r DEF IsPlan, Doings
<1> QED
  BY <1>1, <1>5, <1>6, <1>7, <1>r DEF IsPlan, HalfDone

LEMMA FloorIsNat ==
  ASSUME NEW d, Typed(d)
  PROVE  FloorOf(d) \in Nat
  BY NamesDiffer DEF Typed, Fits, FloorOf

LEMMA FloorBurns ==
  ASSUME NEW d, NEW e, Typed(d), Typed(e), FloorOf(d) <= FloorOf(e),
         \A m \in Nat : Shard(m) \in DOMAIN d \/ Tmp(Shard(m)) \in DOMAIN d =>
           Shard(m) \in DOMAIN e \/ Tmp(Shard(m)) \in DOMAIN e \/ m < FloorOf(e),
         NEW n \in Nat, Burned(n, d)
  PROVE  Burned(n, e)
<1>1. FloorOf(d) \in Nat /\ FloorOf(e) \in Nat
  BY FloorIsNat
<1>2. CASE n < FloorOf(d)
  BY <1>1, <1>2 DEF Burned
<1>3. ASSUME NEW m \in Nat, n <= m, Shard(m) \in DOMAIN d \/ Tmp(Shard(m)) \in DOMAIN d
      PROVE  Burned(n, e)
  <2>1. CASE m < FloorOf(e)
    BY <1>1, <1>3, <2>1 DEF Burned
  <2>2. CASE Shard(m) \in DOMAIN e \/ Tmp(Shard(m)) \in DOMAIN e
    BY <1>3, <2>2 DEF Burned
  <2> QED
    BY <1>3, <2>1, <2>2
<1> QED
  BY <1>2, <1>3 DEF Burned

\* The head of the plan is done and e is the disk it leaves.
LEMMA RestIsPlanned ==
  ASSUME NEW s, NEW d, PlanOk(s, d), Renames(s, d), s # << >>, s[1].do # "replace",
         NEW t, t = Tail(s), NEW e, FloorOf(d) \in Nat, FloorOf(e) \in Nat,
         FloorOf(d) <= FloorOf(e),
         s[1].name # Meta => FloorOf(e) = FloorOf(d),
         s[1].name = Meta /\ s[1].do = "rename" => FloorOf(e) = d[Tmp(Meta)],
         \A n \in Nat : Burned(n, d) => Burned(n, e),
         \A x \in Named : Tmp(x) \notin DOMAIN e,
         \A i \in DOMAIN s : s[i].do \in {"write", "replace"} /\ s[i].name = Jsonl =>
           \A k \in DOMAIN s[i].contents : s[i].contents[k].seq \in Nat
  PROVE  /\ PlanOk(t, e) /\ Renames(t, e)
         /\ \A r \in Places : Planned(r, t) => Planned(r, s)
<1>1. /\ 1 \in DOMAIN s /\ IsPlan(t) /\ DOMAIN s = 1 .. Len(s) /\ Len(s) \in Nat
      /\ \A i \in DOMAIN t : i \in Nat /\ i # 0 /\ i + 1 \in DOMAIN s /\ t[i] = s[i + 1]
      /\ \A i \in DOMAIN s : i = 1 \/ (i - 1 \in DOMAIN t /\ (i - 1) + 1 = i)
  <2>1. IsPlan(s)
    BY DEF PlanOk
  <2>2. Shifted(s, t)
    BY <2>1, HeadDone
  <2> QED
    BY <2>2 DEF Shifted
<1>2. \A i \in DOMAIN t : i + 1 # 1 /\ t[i].do # "rename"
  BY <1>1 DEF Renames
<1>3. FloorFirst(t, e)
  <2> SUFFICES ASSUME NEW i \in DOMAIN t, NEW n \in Nat, t[i].do = "remove", t[i].name = Shard(n)
               PROVE  \/ n < FloorOf(e)
                      \/ \E j \in DOMAIN t : /\ j < i /\ t[j].name = Meta
                                             /\ t[j].do = "replace" /\ n < t[j].contents
    BY DEF FloorFirst
  <2>1. \/ n < FloorOf(d)
        \/ \E j \in DOMAIN s : /\ j < i + 1 /\ s[j].name = Meta
                               /\ \/ s[j].do = "replace" /\ n < s[j].contents
                                  \/ s[j].do = "rename" /\ n < d[Tmp(Meta)]
    BY <1>1 DEF PlanOk, FloorFirst
  <2>2. CASE n < FloorOf(d)
    BY <2>2
  <2>3. ASSUME NEW j \in DOMAIN s, j < i + 1, s[j].name = Meta, s[j].do = "rename", n < d[Tmp(Meta)]
        PROVE  n < FloorOf(e)
    <3>1. j = 1
      BY <2>3 DEF Renames
    <3> QED
      BY <2>3, <3>1
  <2>4. ASSUME NEW j \in DOMAIN s, j < i + 1, s[j].name = Meta, s[j].do = "replace", n < s[j].contents
        PROVE  \E k \in DOMAIN t : /\ k < i /\ t[k].name = Meta
                                   /\ t[k].do = "replace" /\ n < t[k].contents
    <3>1. j - 1 \in DOMAIN t /\ (j - 1) + 1 = j
      BY <1>1, <2>4
    <3>2. t[j - 1] = s[j] /\ j - 1 < i
      BY <1>1, <2>4, <3>1
    <3> QED
      BY <2>4, <3>1, <3>2
  <2> QED
    BY <2>1, <2>2, <2>3, <2>4
<1>4. FloorRises(t, e)
  <2>1. ASSUME NEW i \in DOMAIN t, t[i].name = Meta
        PROVE  /\ t[i].do \in {"replace", "rename"}
               /\ t[i].do = "replace" => FloorOf(e) <= t[i].contents
    <3>1. s[1].name # Meta
      BY <1>1, <1>2, <2>1 DEF PlanOk, FloorRises
    <3> QED
      BY <1>1, <2>1, <3>1 DEF PlanOk, FloorRises
  <2>2. ASSUME NEW i \in DOMAIN t, NEW j \in DOMAIN t, t[i].name = Meta, t[j].name = Meta
        PROVE  i = j
    <3>1. i + 1 = j + 1
      BY <1>1, <2>2 DEF PlanOk, FloorRises
    <3> QED
      BY <1>1, <3>1
  <2> QED
    BY <1>2, <2>1, <2>2 DEF FloorRises
<1>5. ShardsBefore(t, e)
  <2>1. ASSUME NEW i \in DOMAIN t, t[i].do \in {"write", "replace"}, t[i].name = Jsonl,
               NEW k \in DOMAIN t[i].contents
        PROVE  \/ Burned(t[i].contents[k].seq, e)
               \/ \E j \in DOMAIN t, n \in Nat : /\ j < i /\ t[j].do = "replace" /\ t[j].name = Shard(n)
                                                /\ t[i].contents[k].seq <= n
    <3> DEFINE q == t[i].contents[k].seq
    <3>1. /\ q \in Nat
          /\ \/ Burned(q, d)
             \/ \E j \in DOMAIN s, n \in Nat : /\ j < i + 1 /\ s[j].do = "replace" /\ s[j].name = Shard(n)
                                              /\ q <= n
      BY <1>1, <2>1 DEF PlanOk, ShardsBefore
    <3> HIDE DEF q
    <3>2. ASSUME NEW j \in DOMAIN s, NEW n \in Nat, j < i + 1, s[j].do = "replace", s[j].name = Shard(n), q <= n
          PROVE  \E h \in DOMAIN t, m \in Nat : /\ h < i /\ t[h].do = "replace" /\ t[h].name = Shard(m)
                                              /\ q <= m
      <4>1. j - 1 \in DOMAIN t /\ (j - 1) + 1 = j
        BY <1>1, <3>2
      <4>2. t[j - 1] = s[j] /\ j - 1 < i
        BY <1>1, <3>2, <4>1
      <4> QED
        BY <3>2, <4>1, <4>2
    <3> QED
      BY <3>1, <3>2 DEF q
  <2>2. ASSUME NEW i \in DOMAIN t, t[i].do \in {"write", "replace"}
        PROVE  Fits(t[i].name, t[i].contents) /\ (t[i].do = "write" => t[i].name = Jsonl)
    BY <1>1, <2>2 DEF PlanOk, ShardsBefore
  <2> QED
    BY <2>1, <2>2 DEF ShardsBefore
<1>6. Renames(t, e)
  BY <1>2 DEF Renames
<1>7. \A r \in Places : Planned(r, t) => Planned(r, s)
  BY <1>1 DEF Planned
<1> QED
  BY <1>1, <1>3, <1>4, <1>5, <1>6, <1>7 DEF PlanOk

\* A replace has written its .tmp, and e is the disk.
LEMMA HalfIsPlanned ==
  ASSUME NEW s, NEW d, PlanOk(s, d), Renames(s, d), s # << >>, s[1].do = "replace",
         NEW t, t = <<RenameStep(s[1].name)>> \o Tail(s),
         NEW e, FloorOf(d) \in Nat, FloorOf(e) \in Nat, FloorOf(d) <= FloorOf(e),
         s[1].name # Meta => FloorOf(e) = FloorOf(d),
         s[1].name = Meta => e[Tmp(Meta)] = s[1].contents /\ FloorOf(e) <= s[1].contents,
         \A n \in Nat : Burned(n, d) => Burned(n, e),
         \A x \in Named : Tmp(x) \in DOMAIN e => x = s[1].name,
         Tmp(s[1].name) \in DOMAIN e,
         \A i \in DOMAIN s : s[i].do \in {"write", "replace"} /\ s[i].name = Jsonl =>
           \A k \in DOMAIN s[i].contents : s[i].contents[k].seq \in Nat
  PROVE  /\ PlanOk(t, e) /\ Renames(t, e)
         /\ \A r \in Places : Planned(r, t) => Planned(r, s)
<1>1. /\ IsPlan(t) /\ DOMAIN t = DOMAIN s /\ 1 \in DOMAIN s /\ t # << >>
      /\ t[1].do = "rename" /\ t[1].name = s[1].name
      /\ \A i \in DOMAIN s : i # 1 => t[i] = s[i]
  <2>1. IsPlan(s)
    BY DEF PlanOk
  <2>2. HalfDone(s, t)
    BY <2>1, HeadHalfDone
  <2> QED
    BY <2>2 DEF HalfDone
<1>2. \A i \in DOMAIN t : i # 1 => t[i].do # "rename"
  BY <1>1 DEF Renames
<1>3. FloorFirst(t, e)
  <2> SUFFICES ASSUME NEW i \in DOMAIN t, NEW n \in Nat, t[i].do = "remove", t[i].name = Shard(n)
               PROVE  \/ n < FloorOf(e)
                      \/ \E j \in DOMAIN t : /\ j < i /\ t[j].name = Meta
                                             /\ \/ t[j].do = "replace" /\ n < t[j].contents
                                                \/ t[j].do = "rename" /\ n < e[Tmp(Meta)]
    BY DEF FloorFirst
  <2>1. \/ n < FloorOf(d)
        \/ \E j \in DOMAIN s : /\ j < i /\ s[j].name = Meta
                               /\ \/ s[j].do = "replace" /\ n < s[j].contents
                                  \/ s[j].do = "rename" /\ n < d[Tmp(Meta)]
    BY <1>1 DEF PlanOk, FloorFirst
  <2>2. CASE n < FloorOf(d)
    BY <2>2
  <2>3. ASSUME NEW j \in DOMAIN s, j < i, s[j].name = Meta, s[j].do = "rename"
        PROVE  FALSE
    BY <2>3 DEF Renames
  <2>4. ASSUME NEW j \in DOMAIN s, j < i, s[j].name = Meta, s[j].do = "replace", n < s[j].contents
        PROVE  \E k \in DOMAIN t : /\ k < i /\ t[k].name = Meta
                                   /\ \/ t[k].do = "replace" /\ n < t[k].contents
                                      \/ t[k].do = "rename" /\ n < e[Tmp(Meta)]
    BY <1>1, <2>4
  <2> QED
    BY <2>1, <2>2, <2>3, <2>4
<1>4. FloorRises(t, e)
  <2>1. ASSUME NEW i \in DOMAIN t, t[i].name = Meta
        PROVE  /\ t[i].do \in {"replace", "rename"}
               /\ t[i].do = "replace" => FloorOf(e) <= t[i].contents
               /\ t[i].do = "rename" => FloorOf(e) <= e[Tmp(Meta)]
    <3>1. CASE i = 1
      BY <1>1, <2>1, <3>1
    <3>2. CASE i # 1
      <4>1. s[1].name # Meta
        BY <1>1, <2>1, <3>2 DEF PlanOk, FloorRises
      <4> QED
        BY <1>1, <1>2, <2>1, <3>2, <4>1 DEF PlanOk, FloorRises
    <3> QED
      BY <3>1, <3>2
  <2>2. \A i, j \in DOMAIN t : t[i].name = Meta /\ t[j].name = Meta => i = j
    <3>1. \A i \in DOMAIN s : t[i].name = s[i].name
      BY <1>1
    <3>2. \A i, j \in DOMAIN s : s[i].name = Meta /\ s[j].name = Meta => i = j
      BY DEF PlanOk, FloorRises
    <3>3. DOMAIN t = DOMAIN s
      BY <1>1
    <3> QED
      BY <3>1, <3>2, <3>3
  <2> QED
    BY <2>1, <2>2 DEF FloorRises
<1>5. ShardsBefore(t, e)
  <2>1. ASSUME NEW i \in DOMAIN t, t[i].do \in {"write", "replace"}, t[i].name = Jsonl,
               NEW k \in DOMAIN t[i].contents
        PROVE  \/ Burned(t[i].contents[k].seq, e)
               \/ \E j \in DOMAIN t, n \in Nat : /\ j < i /\ t[j].do = "replace" /\ t[j].name = Shard(n)
                                                /\ t[i].contents[k].seq <= n
    <3> DEFINE q == t[i].contents[k].seq
    <3>1. /\ q \in Nat
          /\ \/ Burned(q, d)
             \/ \E j \in DOMAIN s, n \in Nat : /\ j < i /\ s[j].do = "replace" /\ s[j].name = Shard(n)
                                              /\ q <= n
      <4>1. i \in DOMAIN s /\ t[i] = s[i]
        BY <1>1, <2>1
      <4> HIDE DEF q
      <4>2. s[i].do \in {"write", "replace"} /\ s[i].name = Jsonl /\ k \in DOMAIN s[i].contents
            /\ q = s[i].contents[k].seq
        BY <2>1, <4>1 DEF q
      <4> QED
        BY <4>1, <4>2 DEF PlanOk, ShardsBefore
    <3> HIDE DEF q
    <3>2. ASSUME NEW j \in DOMAIN s, NEW n \in Nat, j < i, s[j].do = "replace", s[j].name = Shard(n), q <= n
          PROVE  \/ Burned(q, e)
                 \/ \E h \in DOMAIN t, m \in Nat : /\ h < i /\ t[h].do = "replace" /\ t[h].name = Shard(m)
                                                  /\ q <= m
      <4>1. CASE j = 1
        BY <3>2, <4>1 DEF Burned
      <4>2. CASE j # 1
        BY <1>1, <3>2, <4>2
      <4> QED
        BY <4>1, <4>2
    <3> QED
      BY <3>1, <3>2 DEF q
  <2>2. ASSUME NEW i \in DOMAIN t, t[i].do \in {"write", "replace"}
        PROVE  Fits(t[i].name, t[i].contents) /\ (t[i].do = "write" => t[i].name = Jsonl)
    BY <1>1, <2>2 DEF PlanOk, ShardsBefore
  <2> QED
    BY <2>1, <2>2 DEF ShardsBefore
<1>6. Renames(t, e)
  BY <1>1, <1>2 DEF Renames
<1>7. \A r \in Places : Planned(r, t) => Planned(r, s)
  BY <1>1 DEF Planned
<1> QED
  BY <1>1, <1>3, <1>4, <1>5, <1>6, <1>7 DEF PlanOk

\* A rename has removed the file it replaces, and will be tried again.
LEMMA RetryIsPlanned ==
  ASSUME NEW s, NEW d, PlanOk(s, d), Renames(s, d), s # << >>, s[1].do = "rename",
         NEW e, FloorOf(d) \in Nat, FloorOf(e) \in Nat, FloorOf(d) <= FloorOf(e),
         s[1].name # Meta => FloorOf(e) = FloorOf(d),
         s[1].name = Meta => e[Tmp(Meta)] = d[Tmp(Meta)] /\ FloorOf(e) = d[Tmp(Meta)],
         \A n \in Nat : Burned(n, d) => Burned(n, e),
         \A x \in Named : Tmp(x) \in DOMAIN e <=> Tmp(x) \in DOMAIN d,
         \A i \in DOMAIN s : s[i].do \in {"write", "replace"} /\ s[i].name = Jsonl =>
           \A k \in DOMAIN s[i].contents : s[i].contents[k].seq \in Nat
  PROVE  PlanOk(s, e) /\ Renames(s, e)
<1>0. IsPlan(s) /\ 1 \in DOMAIN s /\ DOMAIN s = 1 .. Len(s) /\ Len(s) \in Nat
  BY DEF PlanOk, IsPlan
<1>1. FloorFirst(s, e)
  <2> SUFFICES ASSUME NEW i \in DOMAIN s, NEW n \in Nat, s[i].do = "remove", s[i].name = Shard(n)
               PROVE  \/ n < FloorOf(e)
                      \/ \E j \in DOMAIN s : /\ j < i /\ s[j].name = Meta
                                             /\ s[j].do = "replace" /\ n < s[j].contents
    BY DEF FloorFirst
  <2>1. \/ n < FloorOf(d)
        \/ \E j \in DOMAIN s : /\ j < i /\ s[j].name = Meta
                               /\ \/ s[j].do = "replace" /\ n < s[j].contents
                                  \/ s[j].do = "rename" /\ n < d[Tmp(Meta)]
    BY DEF PlanOk, FloorFirst
  <2>2. ASSUME NEW j \in DOMAIN s, s[j].name = Meta, s[j].do = "rename", n < d[Tmp(Meta)]
        PROVE  n < FloorOf(e)
    BY <2>2 DEF Renames
  <2>3. CASE n < FloorOf(d)
    BY <2>3
  <2> QED
    BY <2>1, <2>2, <2>3
<1>2. FloorRises(s, e)
  <2>1. ASSUME NEW i \in DOMAIN s, s[i].name = Meta
        PROVE  /\ s[i].do \in {"replace", "rename"}
               /\ s[i].do = "replace" => FloorOf(e) <= s[i].contents
               /\ s[i].do = "rename" => FloorOf(e) <= e[Tmp(Meta)]
    <3>1. CASE s[1].name = Meta
      BY <1>0, <2>1, <3>1 DEF PlanOk, FloorRises
    <3>2. CASE s[1].name # Meta
      <4>1. i # 1
        BY <2>1, <3>2
      <4> QED
        BY <2>1, <3>2, <4>1 DEF PlanOk, FloorRises, Renames
    <3> QED
      BY <3>1, <3>2
  <2> QED
    BY <2>1 DEF PlanOk, FloorRises
<1>3. ShardsBefore(s, e)
  BY DEF PlanOk, ShardsBefore
<1>4. Renames(s, e)
  BY <1>0 DEF Renames, IsPlan
<1> QED
  BY <1>0, <1>1, <1>2, <1>3, <1>4 DEF PlanOk

-----------------------------------------------------------------------------
(* What a file step leaves, one lemma for each kind of step.                *)

HeadOk(s, d) ==
  /\ 1 \in DOMAIN s /\ s[1].do \in Doings /\ s[1].name \in Named
  /\ s[1].do \in {"write", "replace"} =>
       /\ Fits(s[1].name, s[1].contents)
       /\ \A r \in Places : Has(r, s[1].name, s[1].contents) => Planned(r, s)
       /\ s[1].name = Jsonl => \A r \in Places : Has(r, Jsonl, s[1].contents) => Burned(r.seq, d)
  /\ \A i \in DOMAIN s : s[i].do \in {"write", "replace"} /\ s[i].name = Jsonl =>
       \A k \in DOMAIN s[i].contents : s[i].contents[k].seq \in Nat

LEMMA HeadIs ==
  ASSUME NEW s, NEW d, PlanOk(s, d), s # << >>
  PROVE  HeadOk(s, d)
<1>1. 1 \in DOMAIN s /\ s[1].do \in Doings /\ s[1].name \in Named /\ DOMAIN s = 1 .. Len(s) /\ Len(s) \in Nat
  BY DEF PlanOk, IsPlan
<1>2. ASSUME s[1].do \in {"write", "replace"}
      PROVE  Fits(s[1].name, s[1].contents)
  BY <1>1, <1>2 DEF PlanOk, ShardsBefore
<1>3. ASSUME s[1].do \in {"write", "replace"}, NEW r \in Places, Has(r, s[1].name, s[1].contents)
      PROVE  Planned(r, s)
  BY <1>1, <1>3 DEF Planned
<1>4. ASSUME s[1].do \in {"write", "replace"}, s[1].name = Jsonl, NEW r \in Places,
             Has(r, Jsonl, s[1].contents)
      PROVE  Burned(r.seq, d)
  <2>1. r.seq \in Nat
    BY DEF Places
  <2>2. PICK k \in DOMAIN s[1].contents : s[1].contents[k] = r
    BY <1>4, <2>1, NamesDiffer DEF Has
  <2>3. \A j \in DOMAIN s : ~(j < 1)
    BY <1>1
  <2> QED
    BY <1>1, <1>4, <2>2, <2>3 DEF PlanOk, ShardsBefore
<1>5. ASSUME NEW i \in DOMAIN s, s[i].do \in {"write", "replace"}, s[i].name = Jsonl,
             NEW k \in DOMAIN s[i].contents
      PROVE  s[i].contents[k].seq \in Nat
  <2>1. s[i].contents \in Seq(Places)
    BY <1>5 DEF PlanOk, ShardsBefore, Fits
  <2>2. s[i].contents[k] \in Places
    BY <2>1
  <2> QED
    BY <2>2 DEF Places
<1> QED
  BY <1>1, <1>2, <1>3, <1>4, <1>5 DEF HeadOk

Moved(d, s, e, t) ==
  /\ Typed(e) /\ PlanOk(t, e) /\ Renames(t, e)
  /\ \A n \in Nat : Burned(n, d) => Burned(n, e)
  /\ \A r \in Places : HasWritten(r, e) => HasWritten(r, d) \/ (Planned(r, s) /\ Burned(r.seq, e))
  /\ \A r \in Places : Planned(r, t) => Planned(r, s)

LEMMA RemoveMoves ==
  ASSUME NEW s, NEW d, Typed(d), PlanOk(s, d), Renames(s, d), s # << >>, s[1].do = "remove",
         NEW t, t = Tail(s), NEW e, e = Without(d, {s[1].name})
  PROVE  Moved(d, s, e, t)
<1> DEFINE x == s[1].name
<1>1. HeadOk(s, d)
  BY HeadIs
<1>2. x \in Named /\ x # Meta /\ \A n \in Nat : x = Shard(n) => n < FloorOf(d)
  <2>1. 1 \in DOMAIN s /\ DOMAIN s = 1 .. Len(s) /\ Len(s) \in Nat
    BY <1>1 DEF HeadOk, PlanOk, IsPlan
  <2>2. x \in Named /\ x # Meta
    BY <1>1, <2>1 DEF HeadOk, PlanOk, FloorRises
  <2>3. \A j \in DOMAIN s : ~(j < 1)
    BY <2>1
  <2>4. \A n \in Nat : x = Shard(n) => n < FloorOf(d)
    BY <2>1, <2>3 DEF PlanOk, FloorFirst
  <2> QED
    BY <2>2, <2>4
<1>3. /\ DOMAIN e = DOMAIN d \ {x}
      /\ \A f \in DOMAIN e : e[f] = d[f]
  BY DEF Without
<1>4. \A y \in Named : Tmp(y) \notin DOMAIN d
  BY DEF Renames
<1> HIDE DEF x
<1>5. Typed(e)
  <2>1. IsFiniteSet(DOMAIN e)
    BY <1>3, FS_Subset DEF Typed
  <2> QED
    BY <1>3, <2>1 DEF Typed
<1>6. FloorOf(d) \in Nat /\ FloorOf(e) = FloorOf(d)
  BY <1>2, <1>3, <1>4, FloorIsNat, NamesDiffer DEF FloorOf
<1>7. \A n \in Nat : Burned(n, d) => Burned(n, e)
  <2>1. \A m \in Nat : Shard(m) \in DOMAIN d \/ Tmp(Shard(m)) \in DOMAIN d =>
          Shard(m) \in DOMAIN e \/ Tmp(Shard(m)) \in DOMAIN e \/ m < FloorOf(e)
    BY <1>2, <1>3, <1>4, <1>6, NamesDiffer
  <2>2. FloorOf(d) <= FloorOf(e)
    BY <1>6
  <2> QED
    BY <1>5, <2>1, <2>2, FloorBurns
<1>8. \A r \in Places : HasWritten(r, e) => HasWritten(r, d)
  BY <1>3 DEF HasWritten
<1>9. \A y \in Named : Tmp(y) \notin DOMAIN e
  BY <1>3, <1>4
<1>10. /\ PlanOk(t, e) /\ Renames(t, e)
       /\ \A r \in Places : Planned(r, t) => Planned(r, s)
  <2>1. FloorOf(e) \in Nat /\ FloorOf(d) <= FloorOf(e) /\ (s[1].name # Meta => FloorOf(e) = FloorOf(d))
        /\ (s[1].name = Meta /\ s[1].do = "rename" => FloorOf(e) = d[Tmp(Meta)])
    BY <1>6
  <2>2. \A i \in DOMAIN s : s[i].do \in {"write", "replace"} /\ s[i].name = Jsonl =>
          \A k \in DOMAIN s[i].contents : s[i].contents[k].seq \in Nat
    BY <1>1 DEF HeadOk
  <2>3. s[1].do # "replace"
    OBVIOUS
  <2> QED
    BY <1>6, <1>7, <1>9, <2>1, <2>2, <2>3, RestIsPlanned
<1> QED
  BY <1>5, <1>7, <1>8, <1>10 DEF Moved

LEMMA WriteMoves ==
  ASSUME NEW s, NEW d, Typed(d), PlanOk(s, d), Renames(s, d), s # << >>, s[1].do = "write",
         NEW t, t = Tail(s), NEW e, e = With(d, s[1].name, s[1].contents)
  PROVE  Moved(d, s, e, t)
<1> DEFINE c == s[1].contents
<1>1. HeadOk(s, d)
  BY HeadIs
<1>2. s[1].name = Jsonl /\ Fits(Jsonl, c) /\ Jsonl \in Named /\ Jsonl # Meta
  BY <1>1, NamesDiffer DEF HeadOk, PlanOk, ShardsBefore
<1>3. /\ DOMAIN e = DOMAIN d \cup {Jsonl} /\ e[Jsonl] = c
      /\ \A f \in DOMAIN d : f # Jsonl => e[f] = d[f]
  BY <1>2 DEF With
<1>4. \A y \in Named : Tmp(y) \notin DOMAIN d /\ Tmp(y) # Jsonl
  BY <1>2, NamesDiffer DEF Renames
<1> HIDE DEF c
<1>5. Typed(e)
  <2>1. IsFiniteSet(DOMAIN e)
    BY <1>3, FS_AddElement DEF Typed
  <2> QED
    BY <1>2, <1>3, <1>4, <2>1 DEF Typed
<1>6. FloorOf(d) \in Nat /\ FloorOf(e) = FloorOf(d)
  BY <1>2, <1>3, <1>4, FloorIsNat, NamesDiffer DEF FloorOf
<1>7. \A n \in Nat : Burned(n, d) => Burned(n, e)
  <2>1. \A m \in Nat : Shard(m) \in DOMAIN d \/ Tmp(Shard(m)) \in DOMAIN d =>
          Shard(m) \in DOMAIN e \/ Tmp(Shard(m)) \in DOMAIN e \/ m < FloorOf(e)
    BY <1>3
  <2>2. FloorOf(d) <= FloorOf(e)
    BY <1>6
  <2> QED
    BY <1>5, <2>1, <2>2, FloorBurns
<1>8. \A r \in Places : HasWritten(r, e) => HasWritten(r, d) \/ (Planned(r, s) /\ Burned(r.seq, e))
  <2> SUFFICES ASSUME NEW r \in Places, HasWritten(r, e)
               PROVE  HasWritten(r, d) \/ (Planned(r, s) /\ Burned(r.seq, e))
    OBVIOUS
  <2>1. CASE Has(r, Jsonl, c)
    <3>1. r.seq \in Nat
      BY DEF Places
    <3>2. Planned(r, s) /\ Burned(r.seq, d)
      BY <1>1, <1>2, <2>1 DEF HeadOk, c
    <3> QED
      BY <1>7, <3>1, <3>2
  <2>2. CASE ~Has(r, Jsonl, c)
    BY <1>3, <1>4, <2>2 DEF HasWritten
  <2> QED
    BY <2>1, <2>2
<1>9. \A y \in Named : Tmp(y) \notin DOMAIN e
  BY <1>3, <1>4
<1>10. /\ PlanOk(t, e) /\ Renames(t, e)
       /\ \A r \in Places : Planned(r, t) => Planned(r, s)
  <2>1. FloorOf(e) \in Nat /\ FloorOf(d) <= FloorOf(e) /\ (s[1].name # Meta => FloorOf(e) = FloorOf(d))
        /\ (s[1].name = Meta /\ s[1].do = "rename" => FloorOf(e) = d[Tmp(Meta)])
    BY <1>6
  <2>2. \A i \in DOMAIN s : s[i].do \in {"write", "replace"} /\ s[i].name = Jsonl =>
          \A k \in DOMAIN s[i].contents : s[i].contents[k].seq \in Nat
    BY <1>1 DEF HeadOk
  <2>3. s[1].do # "replace"
    OBVIOUS
  <2> QED
    BY <1>6, <1>7, <1>9, <2>1, <2>2, <2>3, RestIsPlanned
<1> QED
  BY <1>5, <1>7, <1>8, <1>10 DEF Moved

LEMMA ReplaceMoves ==
  ASSUME NEW s, NEW d, Typed(d), PlanOk(s, d), Renames(s, d), s # << >>, s[1].do = "replace",
         NEW t, t = <<RenameStep(s[1].name)>> \o Tail(s),
         NEW e, e = With(d, Tmp(s[1].name), s[1].contents)
  PROVE  Moved(d, s, e, t)
<1> DEFINE c == s[1].contents
           x == s[1].name
<1>1. HeadOk(s, d)
  BY HeadIs
<1>2. x \in Named /\ Fits(x, c)
  BY <1>1 DEF HeadOk
<1>3. /\ DOMAIN e = DOMAIN d \cup {Tmp(x)} /\ e[Tmp(x)] = c
      /\ \A f \in DOMAIN d : f # Tmp(x) => e[f] = d[f]
  BY DEF With
<1>4. /\ \A y \in Named : Tmp(y) \notin DOMAIN d /\ y # Tmp(x)
      /\ \A y \in Named : Tmp(y) \in DOMAIN e => y = x
      /\ Meta \in Named /\ \A n \in Nat : Shard(n) \in Named
  <2>1. \A y \in Named : Tmp(y) \notin DOMAIN d
    BY DEF Renames
  <2> HIDE DEF x, c
  <2> QED
    BY <1>2, <1>3, <2>1, NamesDiffer
<1>m. x = Meta => c \in Nat /\ FloorOf(d) <= c
  BY <1>1, <1>2 DEF HeadOk, Fits, PlanOk, FloorRises
<1> HIDE DEF c, x
<1>5. Typed(e)
  <2>1. IsFiniteSet(DOMAIN e)
    BY <1>3, FS_AddElement DEF Typed
  <2> QED
    BY <1>2, <1>3, <1>4, <2>1 DEF Typed
<1>6. /\ FloorOf(d) \in Nat /\ FloorOf(e) \in Nat
      /\ x # Meta => FloorOf(e) = FloorOf(d)
      /\ x = Meta => e[Tmp(Meta)] = c /\ FloorOf(e) <= c /\ FloorOf(d) <= FloorOf(e)
  <2>1. FloorOf(d) \in Nat /\ FloorOf(e) \in Nat
    BY <1>5, FloorIsNat
  <2>2. x # Meta => FloorOf(e) = FloorOf(d)
    BY <1>3, <1>4 DEF FloorOf
  <2>3. ASSUME x = Meta  PROVE FloorOf(e) \in {c, FloorOf(d)}
    BY <1>3, <1>4, <2>3 DEF FloorOf
  <2> QED
    BY <1>3, <1>m, <2>1, <2>2, <2>3
<1>7. \A n \in Nat : Burned(n, d) => Burned(n, e)
  <2>1. \A m \in Nat : Shard(m) \in DOMAIN d \/ Tmp(Shard(m)) \in DOMAIN d =>
          Shard(m) \in DOMAIN e \/ Tmp(Shard(m)) \in DOMAIN e \/ m < FloorOf(e)
    BY <1>3
  <2>2. FloorOf(d) <= FloorOf(e)
    BY <1>6
  <2> QED
    BY <1>5, <2>1, <2>2, FloorBurns
<1>8. \A r \in Places : HasWritten(r, e) => HasWritten(r, d) \/ (Planned(r, s) /\ Burned(r.seq, e))
  <2> SUFFICES ASSUME NEW r \in Places, HasWritten(r, e)
               PROVE  HasWritten(r, d) \/ (Planned(r, s) /\ Burned(r.seq, e))
    OBVIOUS
  <2>0. r.seq \in Nat
    BY DEF Places
  <2>1. CASE Has(r, x, c)
    <3>1. Planned(r, s)
      BY <1>1, <2>1 DEF HeadOk, c, x
    <3>2. CASE x = Jsonl
      <4>1. Burned(r.seq, d)
        BY <1>1, <2>1, <3>2 DEF HeadOk, c, x
      <4> QED
        BY <1>7, <2>0, <3>1, <4>1
    <3>3. CASE x = Shard(r.seq)
      <4>1. r.seq <= r.seq /\ Tmp(Shard(r.seq)) \in DOMAIN e
        BY <1>3, <2>0, <3>3
      <4>2. Burned(r.seq, e)
        BY <2>0, <4>1 DEF Burned
      <4> QED
        BY <3>1, <4>2
    <3> QED
      BY <2>1, <3>2, <3>3 DEF Has
  <2>2. CASE ~Has(r, x, c)
    BY <1>2, <1>3, <1>4, <2>2 DEF HasWritten
  <2> QED
    BY <2>1, <2>2
<1>10. /\ PlanOk(t, e) /\ Renames(t, e)
       /\ \A r \in Places : Planned(r, t) => Planned(r, s)
  <2>1. FloorOf(d) <= FloorOf(e) /\ (s[1].name # Meta => FloorOf(e) = FloorOf(d))
        /\ (s[1].name = Meta => e[Tmp(Meta)] = s[1].contents /\ FloorOf(e) <= s[1].contents)
    BY <1>6 DEF c, x
  <2>2. \A i \in DOMAIN s : s[i].do \in {"write", "replace"} /\ s[i].name = Jsonl =>
          \A k \in DOMAIN s[i].contents : s[i].contents[k].seq \in Nat
    BY <1>1 DEF HeadOk
  <2>3. Tmp(s[1].name) \in DOMAIN e /\ \A y \in Named : Tmp(y) \in DOMAIN e => y = s[1].name
    BY <1>3, <1>4 DEF x
  <2> QED
    BY <1>6, <1>7, <2>1, <2>2, <2>3, HalfIsPlanned
<1> QED
  BY <1>5, <1>7, <1>8, <1>10 DEF Moved

\* The .tmp of x takes the place of x: what a rename does to the records and to
\* what is burned, at the end of a replace and in the sweep of a boot.
Renamed(d, x, e) ==
  /\ Typed(e)
  /\ FloorOf(d) \in Nat /\ FloorOf(e) \in Nat /\ FloorOf(d) <= FloorOf(e)
  /\ x # Meta => FloorOf(e) = FloorOf(d)
  /\ x = Meta => FloorOf(e) = d[Tmp(Meta)]
  /\ \A n \in Nat : Burned(n, d) => Burned(n, e)
  /\ \A r \in Places : HasWritten(r, e) => HasWritten(r, d)
  /\ \A y \in Named : Tmp(y) \in DOMAIN e <=> Tmp(y) \in DOMAIN d /\ y # x

LEMMA RenamedIs ==
  ASSUME NEW d, Typed(d), NEW x \in Named, Tmp(x) \in DOMAIN d,
         x = Meta => FloorOf(d) <= d[Tmp(Meta)],
         NEW e, e = With(Without(d, {Tmp(x)}), x, d[Tmp(x)])
  PROVE  Renamed(d, x, e)
<1>1. x # Tmp(x)
  BY NamesDiffer
<1>2. /\ DOMAIN e = (DOMAIN d \ {Tmp(x)}) \cup {x} /\ e[x] = d[Tmp(x)]
      /\ \A f \in DOMAIN d : f # Tmp(x) /\ f # x => e[f] = d[f]
  BY <1>1 DEF With, Without
<1>3. \A y \in Named : /\ Tmp(y) \in DOMAIN e <=> Tmp(y) \in DOMAIN d /\ y # x
                       /\ Tmp(y) # x /\ y # Tmp(x) /\ (Tmp(y) = Tmp(x) => y = x)
  BY <1>2, NamesDiffer
<1>4. Meta \in Named /\ \A n \in Nat : Shard(n) \in Named
  BY NamesDiffer
<1>5. Typed(e)
  <2>1. IsFiniteSet(DOMAIN d \ {Tmp(x)})
    BY FS_Subset DEF Typed
  <2>2. IsFiniteSet(DOMAIN e)
    BY <1>2, <2>1, FS_AddElement
  <2>3. \A f \in DOMAIN e : f \in Named \/ \E y \in Named : f = Tmp(y)
    BY <1>2 DEF Typed
  <2>4. ASSUME NEW y \in Named
        PROVE  /\ y \in DOMAIN e => Fits(y, e[y])
               /\ Tmp(y) \in DOMAIN e => Fits(y, e[Tmp(y)])
    BY <1>2, <1>3 DEF Typed
  <2> QED
    BY <2>2, <2>3, <2>4 DEF Typed
<1>6. FloorOf(d) \in Nat /\ FloorOf(e) \in Nat
  BY <1>5, FloorIsNat
<1>7. x # Meta => FloorOf(e) = FloorOf(d)
  BY <1>2, <1>3, <1>4 DEF FloorOf
<1>8. x = Meta => FloorOf(e) = d[Tmp(Meta)]
  BY <1>2 DEF FloorOf
<1>9. FloorOf(d) <= FloorOf(e)
  BY <1>6, <1>7, <1>8
<1>10. \A n \in Nat : Burned(n, d) => Burned(n, e)
  <2>1. \A m \in Nat : Shard(m) \in DOMAIN d \/ Tmp(Shard(m)) \in DOMAIN d =>
          Shard(m) \in DOMAIN e \/ Tmp(Shard(m)) \in DOMAIN e \/ m < FloorOf(e)
    BY <1>2, <1>3, <1>4
  <2> QED
    BY <1>5, <1>9, <2>1, FloorBurns
<1>11. \A r \in Places : HasWritten(r, e) => HasWritten(r, d)
  BY <1>2, <1>3 DEF HasWritten
<1> QED
  BY <1>3, <1>5, <1>6, <1>7, <1>8, <1>9, <1>10, <1>11 DEF Renamed

LEMMA RenameMoves ==
  ASSUME NEW s, NEW d, Typed(d), PlanOk(s, d), Renames(s, d), s # << >>, s[1].do = "rename",
         NEW t, t = Tail(s),
         NEW e, e = With(Without(d, {Tmp(s[1].name)}), s[1].name, d[Tmp(s[1].name)])
  PROVE  Moved(d, s, e, t)
<1> DEFINE x == s[1].name
<1>1. HeadOk(s, d)
  BY HeadIs
<1>2. x \in Named /\ Tmp(x) \in DOMAIN d /\ (x = Meta => FloorOf(d) <= d[Tmp(Meta)])
  BY <1>1 DEF HeadOk, Renames, PlanOk, FloorRises
<1>3. e = With(Without(d, {Tmp(x)}), x, d[Tmp(x)])
  OBVIOUS
<1>4. \A y \in Named : Tmp(y) \in DOMAIN d => y = x
  BY DEF Renames
<1> HIDE DEF x
<1>5. Renamed(d, x, e)
  BY <1>2, <1>3, RenamedIs
<1>10. /\ PlanOk(t, e) /\ Renames(t, e)
       /\ \A r \in Places : Planned(r, t) => Planned(r, s)
  <2>1. /\ FloorOf(d) \in Nat /\ FloorOf(e) \in Nat /\ FloorOf(d) <= FloorOf(e)
        /\ (s[1].name # Meta => FloorOf(e) = FloorOf(d))
        /\ (s[1].name = Meta /\ s[1].do = "rename" => FloorOf(e) = d[Tmp(Meta)])
    BY <1>5 DEF Renamed, x
  <2>2. \A i \in DOMAIN s : s[i].do \in {"write", "replace"} /\ s[i].name = Jsonl =>
          \A k \in DOMAIN s[i].contents : s[i].contents[k].seq \in Nat
    BY <1>1 DEF HeadOk
  <2>3. s[1].do # "replace"
    OBVIOUS
  <2>4. \A y \in Named : Tmp(y) \notin DOMAIN e
    BY <1>4, <1>5 DEF Renamed
  <2>5. \A n \in Nat : Burned(n, d) => Burned(n, e)
    BY <1>5 DEF Renamed
  <2> QED
    BY <2>1, <2>2, <2>3, <2>4, <2>5, RestIsPlanned
<1> QED
  BY <1>5, <1>10 DEF Moved, Renamed

LEMMA RetryMoves ==
  ASSUME NEW s, NEW d, Typed(d), PlanOk(s, d), Renames(s, d), s # << >>, s[1].do = "rename",
         NEW e, e = Without(d, {s[1].name})
  PROVE  Moved(d, s, e, s)
<1> DEFINE x == s[1].name
<1>1. HeadOk(s, d)
  BY HeadIs
<1>2. x \in Named /\ Tmp(x) \in DOMAIN d /\ (x = Meta => FloorOf(d) <= d[Tmp(Meta)])
  BY <1>1 DEF HeadOk, Renames, PlanOk, FloorRises
<1>3. /\ DOMAIN e = DOMAIN d \ {x}
      /\ \A f \in DOMAIN e : e[f] = d[f]
  BY DEF Without
<1>4. \A y \in Named : Tmp(y) # x
  BY <1>2, NamesDiffer
<1> HIDE DEF x
<1>5. Typed(e)
  <2>1. IsFiniteSet(DOMAIN e)
    BY <1>3, FS_Subset DEF Typed
  <2> QED
    BY <1>3, <2>1 DEF Typed
<1>6. /\ FloorOf(d) \in Nat /\ FloorOf(e) \in Nat
      /\ x # Meta => FloorOf(e) = FloorOf(d)
      /\ x = Meta => e[Tmp(Meta)] = d[Tmp(Meta)] /\ FloorOf(e) = d[Tmp(Meta)]
  <2>1. FloorOf(d) \in Nat /\ FloorOf(e) \in Nat
    BY <1>5, FloorIsNat
  <2>2. Meta \in Named
    BY NamesDiffer
  <2>3. x # Meta => FloorOf(e) = FloorOf(d)
    BY <1>3, <1>4, <2>2 DEF FloorOf
  <2>4. x = Meta => e[Tmp(Meta)] = d[Tmp(Meta)] /\ FloorOf(e) = d[Tmp(Meta)]
    BY <1>2, <1>3, <1>4, <2>2 DEF FloorOf
  <2> QED
    BY <2>1, <2>3, <2>4
<1>7. \A n \in Nat : Burned(n, d) => Burned(n, e)
  <2>1. \A m \in Nat : Shard(m) \in DOMAIN d \/ Tmp(Shard(m)) \in DOMAIN d =>
          Shard(m) \in DOMAIN e \/ Tmp(Shard(m)) \in DOMAIN e \/ m < FloorOf(e)
    BY <1>2, <1>3, <1>4, NamesDiffer
  <2>2. FloorOf(d) <= FloorOf(e)
    BY <1>2, <1>6
  <2> QED
    BY <1>5, <2>1, <2>2, FloorBurns
<1>8. \A r \in Places : HasWritten(r, e) => HasWritten(r, d)
  BY <1>3 DEF HasWritten
<1>9. \A y \in Named : Tmp(y) \in DOMAIN e <=> Tmp(y) \in DOMAIN d
  BY <1>3, <1>4
<1>10. PlanOk(s, e) /\ Renames(s, e)
  <2>1. FloorOf(d) <= FloorOf(e) /\ (s[1].name # Meta => FloorOf(e) = FloorOf(d))
        /\ (s[1].name = Meta => e[Tmp(Meta)] = d[Tmp(Meta)] /\ FloorOf(e) = d[Tmp(Meta)])
    BY <1>2, <1>6 DEF x
  <2>2. \A i \in DOMAIN s : s[i].do \in {"write", "replace"} /\ s[i].name = Jsonl =>
          \A k \in DOMAIN s[i].contents : s[i].contents[k].seq \in Nat
    BY <1>1 DEF HeadOk
  <2> QED
    BY <1>6, <1>7, <1>9, <2>1, <2>2, RetryIsPlanned
<1> QED
  BY <1>5, <1>7, <1>8, <1>10 DEF Moved

LEMMA TmpNames ==
  /\ \A x \in Named : Tmp(x)[1] = "tmp" /\ Tmp(x)[2] = x /\ x[1] # "tmp"
  /\ \A n \in Nat : Shard(n)[1] = "shard" /\ Shard(n)[2] = n
  /\ Jsonl[1] # "shard" /\ Meta[1] # "shard"
  BY DEF Tmp, Named, ShardNames, Shard, Jsonl, Meta

LEMMA DroppedIs ==
  ASSUME NEW d, Typed(d), NEW x \in Named, Tmp(x) \in DOMAIN d, x \in DOMAIN d,
         NEW e, e = Without(d, {Tmp(x)})
  PROVE  /\ Typed(e)
         /\ \A n \in Nat : Burned(n, d) => Burned(n, e)
         /\ \A r \in Places : HasWritten(r, e) => HasWritten(r, d)
<1>3. /\ DOMAIN e = DOMAIN d \ {Tmp(x)}
      /\ \A f \in DOMAIN e : e[f] = d[f]
  BY DEF Without
<1>4. /\ \A y \in Named : y # Tmp(x) /\ (Tmp(y) = Tmp(x) => y = x)
      /\ Meta \in Named /\ \A n \in Nat : Shard(n) \in Named
  BY NamesDiffer
<1>5. Typed(e)
  <2>1. IsFiniteSet(DOMAIN e)
    BY <1>3, FS_Subset DEF Typed
  <2> QED
    BY <1>3, <2>1 DEF Typed
<1>6. FloorOf(d) = FloorOf(e) /\ FloorOf(d) \in Nat
  BY <1>3, <1>4, FloorIsNat DEF FloorOf
<1>7. \A n \in Nat : Burned(n, d) => Burned(n, e)
  <2>1. \A m \in Nat : Shard(m) \in DOMAIN d \/ Tmp(Shard(m)) \in DOMAIN d =>
          Shard(m) \in DOMAIN e \/ Tmp(Shard(m)) \in DOMAIN e \/ m < FloorOf(e)
    BY <1>3, <1>4
  <2>2. FloorOf(d) <= FloorOf(e)
    BY <1>6
  <2> QED
    BY <1>5, <2>1, <2>2, FloorBurns
<1>8. \A r \in Places : HasWritten(r, e) => HasWritten(r, d)
  BY <1>3 DEF HasWritten
<1> QED
  BY <1>5, <1>7, <1>8

\* What a peer receives is on the disk.
LEMMA ShownIs ==
  ASSUME NEW d, Typed(d), Show(d), shownLines \subseteq Places, shownBytes \subseteq Places
  PROVE  /\ shownLines' \subseteq Places /\ shownBytes' \subseteq Places
         /\ \A r \in Places : r \in shownLines' \cup shownBytes' =>
              r \in shownLines \cup shownBytes \/ HasWritten(r, d)
<1>1. ASSUME NEW r \in shownLines', r \notin shownLines
      PROVE  r \in Places /\ HasWritten(r, d)
  <2>1. Jsonl \in DOMAIN d /\ r \in ToSet(d[Jsonl])
    BY <1>1 DEF Show
  <2>2. PICK i \in DOMAIN d[Jsonl] : r = d[Jsonl][i]
    BY <2>1 DEF ToSet
  <2>3. d[Jsonl] \in Seq(Places) /\ Jsonl \in Named
    BY <2>1, NamesDiffer DEF Typed, Fits
  <2>4. r \in Places
    BY <2>2, <2>3
  <2>5. Has(r, Jsonl, d[Jsonl])
    BY <2>2 DEF Has
  <2> QED
    BY <2>1, <2>3, <2>4, <2>5 DEF HasWritten
<1>2. ASSUME NEW n, NEW f, f \in {Shard(n), Tmp(Shard(n))}, n \in Nat, f \in DOMAIN d,
             NEW r \in Records(n, d[f])
      PROVE  r \in Places /\ HasWritten(r, d)
  <2>1. d[f] \in Seq(ScIds) /\ Len(d[f]) <= ShardCap /\ Shard(n) \in Named
    BY <1>2, NamesDiffer DEF Typed, Fits, ShardNames
  <2>2. PICK i \in DOMAIN d[f] : r = [id |-> d[f][i], seq |-> n, off |-> i]
    BY DEF Records
  <2>3. d[f][i] \in ScIds /\ i \in 1 .. ShardCap
    <3>1. PICK l \in Nat : l = Len(d[f])
      BY <2>1
    <3>2. i \in 1 .. l /\ l <= ShardCap
      BY <2>1, <3>1
    <3> QED
      BY <2>1, <3>2, ScAssumption
  <2>4. r \in Places /\ r.id = d[f][i] /\ r.seq = n /\ r.off = i
    BY <1>2, <2>2, <2>3 DEF Places
  <2>5. Has(r, Shard(n), d[f])
    BY <2>2, <2>4 DEF Has
  <2> QED
    BY <1>2, <2>1, <2>4, <2>5 DEF HasWritten
<1>3. ASSUME NEW r \in shownBytes', r \notin shownBytes
      PROVE  r \in Places /\ HasWritten(r, d)
  <2>1. ASSUME r \in ShardRecords(d)  PROVE r \in Places /\ HasWritten(r, d)
    <3>1. PICK f \in DOMAIN d : f[1] = "shard" /\ r \in Records(f[2], d[f])
      BY <2>1 DEF ShardRecords
    <3>2. f \in Named
      BY <3>1, TmpNames DEF Typed
    <3>3. PICK n \in Nat : f = Shard(n)
      BY <3>1, <3>2, TmpNames DEF Named, ShardNames
    <3>4. f[2] = n
      BY <3>3, TmpNames
    <3> QED
      BY <1>2, <3>1, <3>3, <3>4
  <2>2. ASSUME r \in TmpRecords(d)  PROVE r \in Places /\ HasWritten(r, d)
    <3>1. PICK f \in DOMAIN d : f[1] = "tmp" /\ f[2][1] = "shard" /\ r \in Records(f[2][2], d[f])
      BY <2>2 DEF TmpRecords
    <3>2. PICK x \in Named : f = Tmp(x)
      BY <3>1, TmpNames DEF Typed
    <3>3. PICK n \in Nat : x = Shard(n)
      BY <3>1, <3>2, TmpNames DEF Named, ShardNames
    <3>4. f[2][2] = n
      BY <3>2, <3>3, TmpNames
    <3> QED
      BY <1>2, <3>1, <3>2, <3>3, <3>4
  <2> QED
    BY <1>3, <2>1, <2>2 DEF Show
<1> QED
  BY <1>1, <1>3

-----------------------------------------------------------------------------
(* The steps of the specification.                                          *)

\* A step that writes only what was known or planned.
LEMMA NothingNew ==
  ASSUME ScInv, session' \in {"up", "down", "sweep"}, JobShape(dirJob'),
         Typed(disk'), PlanOk(dirJob.steps', disk'),
         session' = "up" => Renames(dirJob.steps', disk'),
         session' # "up" => dirJob.steps' = << >>,
         Show(disk') \/ UNCHANGED <<shownLines, shownBytes>>,
         \A n \in Nat : Burned(n, disk) => Burned(n, disk'),
         \A r \in Places : HasWritten(r, disk') =>
           HasWritten(r, disk) \/ (Planned(r, dirJob.steps) /\ Burned(r.seq, disk')),
         \A r \in Places : Planned(r, dirJob.steps') => Planned(r, dirJob.steps)
  PROVE  ScInv'
<1> DEFINE shown  == shownLines \cup shownBytes
<1>1. /\ shownLines' \subseteq Places /\ shownBytes' \subseteq Places
      /\ \A r \in Places : r \in shown' => r \in shown \/ HasWritten(r, disk')
  <2>1. shownLines \subseteq Places /\ shownBytes \subseteq Places
    BY DEF ScInv
  <2>2. CASE Show(disk')
    BY <2>1, <2>2, ShownIs
  <2>3. CASE UNCHANGED <<shownLines, shownBytes>>
    BY <2>1, <2>3
  <2> QED
    BY <2>2, <2>3
<1>2. \A r \in Places : r.seq \in Nat
  BY DEF Places
<1> HIDE DEF shown
<1>3. ASSUME NEW r \in Places, r \in shown' \/ HasWritten(r, disk')
      PROVE  Burned(r.seq, disk')
  <2>1. (r \in shown \/ HasWritten(r, disk)) => Burned(r.seq, disk)
    BY DEF ScInv, shown
  <2> QED
    BY <1>1, <1>2, <1>3, <2>1
<1>4. ASSUME NEW r \in Places, r \in shown' \/ HasWritten(r, disk') \/ Planned(r, dirJob.steps')
      PROVE  Known(r)
  BY <1>1, <1>4 DEF Known, shown
<1>5. ASSUME NEW r \in Places, NEW s \in Places, Known(r)', Known(s)', SamePlace(r, s)
      PROVE  r.id = s.id
  <2>1. Known(r) /\ Known(s)
    BY <1>4, <1>5 DEF Known, shown
  <2> QED
    BY <1>5, <2>1 DEF ScInv
<1> QED
  BY <1>1, <1>3, <1>5 DEF ScInv, shown, Known, SamePlace

LEMMA FileStepKeeps ==
  ASSUME ScInv, trouble = "crash", FileStep
  PROVE  ScInv'
<1> DEFINE s == dirJob.steps
           h == Head(s)
           left == [dirJob EXCEPT !.steps = Remaining(h, Tail(s))]
<1>1. /\ session = "up" /\ session' = "up" /\ s # << >>
      /\ Typed(disk) /\ PlanOk(s, disk) /\ Renames(s, disk)
  BY DEF FileStep, ScInv
<1>2. h = s[1]
  <2>1. IsPlan(s)
    BY <1>1 DEF PlanOk
  <2>2. Shifted(s, Tail(s))
    BY <1>1, <2>1, HeadDone
  <2> QED
    BY <2>2 DEF Shifted
<1>3. \/ Perform(h) /\ dirJob' = left /\ Show(disk')
      \/ /\ h.do = "rename" /\ disk' = Without(disk, {h.name})
         /\ UNCHANGED <<dirJob, shownLines, shownBytes>>
  BY DEF FileStep
<1>4. ASSUME Moved(disk, s, disk', dirJob.steps'), JobShape(dirJob'),
             Show(disk') \/ UNCHANGED <<shownLines, shownBytes>>
      PROVE  ScInv'
  BY <1>1, <1>4, NothingNew DEF Moved
<1>5. CASE h.do = "rename" /\ disk' = Without(disk, {h.name}) /\ UNCHANGED <<dirJob, shownLines, shownBytes>>
  <2>1. disk' = Without(disk, {s[1].name}) /\ dirJob.steps' = s /\ s[1].do = "rename" /\ JobShape(dirJob')
    BY <1>2, <1>5 DEF ScInv, JobShape
  <2> HIDE DEF s
  <2>2. Moved(disk, s, disk', s)
    BY <1>1, <2>1, RetryMoves
  <2> QED
    BY <1>4, <1>5, <2>1, <2>2
<1>6. CASE Perform(h) /\ dirJob' = left /\ Show(disk')
  <2>1. JobShape(dirJob') /\ dirJob.steps' = Remaining(h, Tail(s))
    <3>1. JobShape(dirJob)
      BY DEF ScInv
    <3> DEFINE rest == Remaining(h, Tail(s))
    <3>2. dirJob' = [dirJob EXCEPT !.steps = rest]
      BY <1>6
    <3>3. dirJob.op # "none"
      BY <1>1, <3>1 DEF JobShape
    <3> HIDE DEF rest, left
    <3> QED
      BY <3>1, <3>2, <3>3 DEF JobShape, rest
  <2> HIDE DEF s, left
  <2>2. CASE h.do = "replace"
    <3>1. disk' = With(disk, Tmp(s[1].name), s[1].contents) /\ s[1].do = "replace"
      BY <1>2, <1>6, <2>2 DEF Perform
    <3>2. dirJob.steps' = <<RenameStep(s[1].name)>> \o Tail(s)
      BY <1>2, <2>1, <2>2 DEF Remaining
    <3>3. Moved(disk, s, disk', dirJob.steps')
      BY <1>1, <3>1, <3>2, ReplaceMoves
    <3> QED
      BY <1>4, <1>6, <2>1, <3>3
  <2>3. CASE h.do # "replace"
    <3>2. dirJob.steps' = Tail(s)
      BY <1>2, <2>1, <2>3 DEF Remaining
    <3>3. CASE h.do = "write" /\ disk' = With(disk, h.name, h.contents)
      <4>1. s[1].do = "write" /\ disk' = With(disk, s[1].name, s[1].contents)
        BY <1>2, <3>3
      <4>2. Moved(disk, s, disk', dirJob.steps')
        BY <1>1, <3>2, <4>1, WriteMoves
      <4> QED
        BY <1>4, <1>6, <2>1, <4>2
    <3>4. CASE h.do = "rename" /\ disk' = With(Without(disk, {Tmp(h.name)}), h.name, disk[Tmp(h.name)])
      <4>1. s[1].do = "rename"
            /\ disk' = With(Without(disk, {Tmp(s[1].name)}), s[1].name, disk[Tmp(s[1].name)])
        BY <1>2, <3>4
      <4>2. Moved(disk, s, disk', dirJob.steps')
        BY <1>1, <3>2, <4>1, RenameMoves
      <4> QED
        BY <1>4, <1>6, <2>1, <4>2
    <3>5. CASE h.do = "remove" /\ disk' = Without(disk, {h.name})
      <4>1. s[1].do = "remove" /\ disk' = Without(disk, {s[1].name})
        BY <1>2, <3>5
      <4>2. Moved(disk, s, disk', dirJob.steps')
        BY <1>1, <3>2, <4>1, RemoveMoves
      <4> QED
        BY <1>4, <1>6, <2>1, <4>2
    <3> QED
      BY <1>6, <2>3, <3>3, <3>4, <3>5 DEF Perform
  <2> QED
    BY <2>2, <2>3
<1> QED
  BY <1>3, <1>5, <1>6

LEMMA NoPlan ==
  ASSUME NEW d
  PROVE  PlanOk(<< >>, d)
  BY DEF PlanOk, IsPlan, FloorFirst, FloorRises, ShardsBefore

LEMMA SweepKeeps ==
  ASSUME ScInv, SweepOrphanTmp
  PROVE  ScInv'
<1>1. /\ session # "up" /\ dirJob.steps = << >> /\ Typed(disk) /\ UNCHANGED dirJob /\ JobShape(dirJob)
      /\ session' \in {"up", "sweep"}
  BY DEF SweepOrphanTmp, ScInv
<1>2. dirJob.steps' = << >> /\ JobShape(dirJob')
  BY <1>1 DEF JobShape
<1>3. PlanOk(dirJob.steps', disk')
  BY <1>2, NoPlan
<1>4. CASE session' = "up" /\ UNCHANGED <<disk, shownLines, shownBytes>> /\ {f \in DOMAIN disk : f[1] = "tmp"} = {}
  <2>1. Renames(dirJob.steps', disk')
    BY <1>2, <1>4, TmpNames DEF Renames
  <2> QED
    BY <1>1, <1>2, <1>3, <1>4, <2>1, NothingNew DEF Typed
<1>5. ASSUME session' = "sweep", Show(disk'), NEW f \in DOMAIN disk, f[1] = "tmp",
             disk' = IF Exists(f[2]) THEN Without(disk, {f})
                     ELSE With(Without(disk, {f}), f[2], disk[f])
      PROVE  ScInv'
  <2>1. PICK x \in Named : f = Tmp(x)
    BY <1>1, <1>5, TmpNames DEF Typed
  <2>2. f[2] = x
    BY <2>1, TmpNames
  <2>3. CASE x \in DOMAIN disk
    <3>1. disk' = Without(disk, {Tmp(x)})
      BY <1>5, <2>1, <2>2, <2>3 DEF Exists
    <3>2. /\ Typed(disk')
          /\ \A n \in Nat : Burned(n, disk) => Burned(n, disk')
          /\ \A r \in Places : HasWritten(r, disk') => HasWritten(r, disk)
      BY <1>1, <1>5, <2>1, <2>3, <3>1, DroppedIs
    <3> QED
      BY <1>1, <1>2, <1>3, <1>5, <3>2, NothingNew
  <2>4. CASE x \notin DOMAIN disk
    <3>1. disk' = With(Without(disk, {Tmp(x)}), x, disk[Tmp(x)])
      BY <1>5, <2>1, <2>2, <2>4 DEF Exists
    <3>2. x = Meta => FloorOf(disk) <= disk[Tmp(Meta)]
      <4>1. x = Meta => FloorOf(disk) = disk[Tmp(Meta)]
        BY <1>5, <2>1, <2>4 DEF FloorOf
      <4>2. FloorOf(disk) \in Nat
        BY <1>1, FloorIsNat
      <4> QED
        BY <4>1, <4>2
    <3>3. Renamed(disk, x, disk')
      BY <1>1, <1>5, <2>1, <3>1, <3>2, RenamedIs
    <3> QED
      BY <1>1, <1>2, <1>3, <1>5, <3>3, NothingNew DEF Renamed
  <2> QED
    BY <2>3, <2>4
<1> QED
  BY <1>4, <1>5 DEF SweepOrphanTmp

-----------------------------------------------------------------------------
(* Arithmetic and order.                                                    *)

LEMMA LeastNat ==
  ASSUME NEW T \in SUBSET Nat, T # {}
  PROVE  \E m \in T : \A k \in T : m <= k
<1> DEFINE F == {1 .. m : m \in T}
<1>1. \A m \in T : IsFiniteSet(1 .. m) /\ 1 .. m \in SUBSET Nat
  BY FS_Interval
<1>2. F \subseteq FiniteSubsetsOf(Nat) /\ F # {}
  BY <1>1 DEF FiniteSubsetsOf
<1>3. PICK x \in F : \A y \in F : ~ (<<y, x>> \in StrictSubsetOrdering(Nat))
  BY <1>2, WFMin, FS_StrictSubsetOrderingWellFounded
<1>4. PICK m \in T : x = 1 .. m
  OBVIOUS
<1>5. ASSUME NEW k \in T, k < m  PROVE FALSE
  <2>1. 1 .. k \subseteq 1 .. m /\ m \in 1 .. m /\ m \notin 1 .. k
    BY <1>5
  <2>2. <<1 .. k, x>> \in StrictSubsetOrdering(Nat)
    BY <1>1, <1>4, <2>1 DEF StrictSubsetOrdering
  <2> QED
    BY <1>3, <2>2
<1> QED
  BY <1>5

LEMMA TimesGrows ==
  ASSUME NEW a \in Nat, NEW b \in Nat, NEW c \in Nat, a <= b
  PROVE  a * c \in Nat /\ b * c \in Nat /\ a * c <= b * c /\ (a + 1) * c = a * c + c
<1>1. b - a \in Nat /\ b = a + (b - a)
  OBVIOUS
<1>2. PICK m \in Nat : b = a + m
  BY <1>1
<1>3. m * c \in Nat /\ a * c \in Nat
  OBVIOUS
<1>4. b * c = a * c + m * c
  BY <1>2
<1> QED
  BY <1>3, <1>4

LEMMA DivisionIs ==
  ASSUME NEW a \in Nat, NEW c \in Nat \ {0}
  PROVE  /\ a \div c \in Nat /\ (a % c) \in 0 .. c - 1
         /\ a = (a \div c) * c + (a % c)
  OBVIOUS

LEMMA PlacesOrdered ==
  ASSUME NEW a \in Nat, NEW b \in Nat, NEW c \in Nat, NEW o \in 1 .. c, NEW p \in 1 .. c,
         a * (c + 1) + o = b * (c + 1) + p
  PROVE  a = b /\ o = p
<1>1. ASSUME NEW x \in Nat, NEW y \in Nat, x < y, NEW u \in 1 .. c, NEW v \in 1 .. c
      PROVE  x * (c + 1) + u # y * (c + 1) + v
  <2>1. x + 1 <= y /\ x + 1 \in Nat
    BY <1>1
  <2>2. x * (c + 1) \in Nat /\ y * (c + 1) \in Nat /\ (x + 1) * (c + 1) <= y * (c + 1)
    BY <2>1, TimesGrows
  <2>3. (x + 1) * (c + 1) = x * (c + 1) + (c + 1)
    BY TimesGrows
  <2> DEFINE X == x * (c + 1)
             Y == y * (c + 1)
  <2>4. X \in Nat /\ Y \in Nat /\ X + (c + 1) <= Y
    BY <2>2, <2>3
  <2> HIDE DEF X, Y
  <2>5. X + u # Y + v
    BY <1>1, <2>4
  <2> QED
    BY <2>5 DEF X, Y
<1>2. a = b
  BY <1>1
<1>3. a * (c + 1) \in Nat
  OBVIOUS
<1> DEFINE X == a * (c + 1)
<1>4. X \in Nat /\ X + o = X + p
  BY <1>2, <1>3
<1> HIDE DEF X
<1>5. o = p
  BY <1>4
<1> QED
  BY <1>2, <1>5

LEMMA InOrderIs ==
  ASSUME NEW S, IsFiniteSet(S), NEW key \in [S -> Nat],
         \A x, y \in S : key[x] = key[y] => x = y
  PROVE  \A i \in 1 .. Cardinality(S) : InOrder(S, key)[i] \in S
<1> DEFINE n == Cardinality(S)
           below(x) == {y \in S : key[y] < key[x]}
           rank == [x \in S |-> Cardinality(below(x))]
<1>1. n \in Nat
  BY FS_CardinalityType
<1>2. ASSUME NEW x \in S
      PROVE  IsFiniteSet(below(x)) /\ rank[x] \in 0 .. n - 1
  <2>1. below(x) \in SUBSET S /\ x \notin below(x)
    OBVIOUS
  <2>2. /\ IsFiniteSet(below(x)) /\ Cardinality(below(x)) <= n
        /\ Cardinality(below(x)) = n => S = below(x)
    BY <2>1, FS_Subset
  <2>3. Cardinality(below(x)) \in Nat /\ Cardinality(below(x)) # n
    BY <2>1, <2>2, FS_CardinalityType
  <2> HIDE DEF n, below
  <2> QED
    BY <1>1, <2>2, <2>3
<1>3. ASSUME NEW x \in S, NEW y \in S, key[x] < key[y]
      PROVE  rank[x] < rank[y]
  <2>1. x \in below(y) /\ x \notin below(x)
    BY <1>3
  <2>2. below(x) \in SUBSET below(y)
    BY <1>3
  <2>3. IsFiniteSet(below(y)) /\ Cardinality(below(x)) \in Nat /\ Cardinality(below(y)) \in Nat
    BY <1>2, FS_CardinalityType
  <2>4. /\ Cardinality(below(x)) <= Cardinality(below(y))
        /\ Cardinality(below(y)) = Cardinality(below(x)) => below(y) = below(x)
    BY <2>2, <2>3, FS_Subset
  <2>5. rank[x] = Cardinality(below(x)) /\ rank[y] = Cardinality(below(y))
    OBVIOUS
  <2> HIDE DEF below, rank
  <2> QED
    BY <2>1, <2>3, <2>4, <2>5
<1>4. rank \in [S -> 0 .. n - 1]
  BY <1>2
<1>5. \A x, y \in S : rank[x] = rank[y] => x = y
  <2> SUFFICES ASSUME NEW x \in S, NEW y \in S, rank[x] = rank[y], x # y  PROVE FALSE
    OBVIOUS
  <2>1. rank[x] \in Nat /\ rank[y] \in Nat /\ key[x] \in Nat /\ key[y] \in Nat /\ key[x] # key[y]
    <3>1. rank[x] \in 0 .. n - 1 /\ rank[y] \in 0 .. n - 1
      BY <1>2
    <3> HIDE DEF rank, n
    <3> QED
      BY <1>1, <3>1
  <2> HIDE DEF rank
  <2>2. ~(key[x] < key[y]) /\ ~(key[y] < key[x])
    BY <1>3, <2>1
  <2> QED
    BY <2>1, <2>2
<1>6. IsFiniteSet(0 .. n - 1) /\ Cardinality(0 .. n - 1) = n
  <2> HIDE DEF n
  <2> QED
    BY <1>1, FS_Interval
<1>7. rank \in Injection(S, 0 .. n - 1)
  BY <1>4, <1>5 DEF Injection, IsInjective
<1>8. rank \in Surjection(S, 0 .. n - 1)
  BY <1>6, <1>7, FS_Injection
<1>9. ASSUME NEW i \in 1 .. n
      PROVE  InOrder(S, key)[i] \in S
  <2>1. i - 1 \in 0 .. n - 1
    BY <1>1
  <2>2. \E x \in S : rank[x] = i - 1
    BY <1>8, <2>1 DEF Surjection
  <2>3. \E x \in S : Cardinality({y \in S : key[y] < key[x]}) = i - 1
    BY <2>2
  <2>4. InOrder(S, key)[i] = CHOOSE x \in S : Cardinality({y \in S : key[y] < key[x]}) = i - 1
    BY DEF InOrder
  <2> QED
    BY <2>3, <2>4
<1> QED
  BY <1>9

\* The length of a sequence that is given place by place.
LEMMA LenIs ==
  ASSUME NEW s, NEW n \in Nat, DOMAIN s = 1 .. n, s = [i \in 1 .. n |-> s[i]]
  PROVE  Len(s) = n
<1> DEFINE V == {s[i] : i \in 1 .. n}
<1>1. s \in [1 .. n -> V]
  OBVIOUS
<1>2. s \in Seq(V)
  BY <1>1
<1> HIDE DEF V
<1> QED
  BY <1>2

\* The record r of a repacking from seq b: its place says which of the ids it is.
Repacked(r, ids, b) ==
  b <= r.seq /\ r.id = ids[(r.seq - b) * ShardCap + r.off]

DenseOk(D, ids, b) ==
  /\ Len(D) \in Nat /\ DOMAIN D = 1 .. Len(D)
  /\ \A i \in 1 .. Len(D) :
       /\ D[i].seq = b + i - 1 /\ D[i].ids \in Seq(ScIds) /\ Len(D[i].ids) <= ShardCap
       /\ \A o \in DOMAIN D[i].ids : D[i].ids[o] = ids[(i - 1) * ShardCap + o]
  /\ \A q \in Nat : q * ShardCap < Len(ids) => q + 1 \in 1 .. Len(D)

LEMMA DenseIs ==
  ASSUME NEW ids \in Seq(ScIds), NEW b \in Nat
  PROVE  DenseOk(Dense(ids, b), ids, b)
<1> DEFINE D == Dense(ids, b)
           c == ShardCap
           L == Len(ids)
           N == (L + c - 1) \div c
           last(i) == IF i * c < L THEN i * c ELSE L
<1>1. c \in Nat \ {0} /\ L \in Nat /\ L + c - 1 \in Nat
  BY ScAssumption
<1>2. D = [i \in 1 .. N |-> [seq |-> b + i - 1, ids |-> SubSeq(ids, (i - 1) * c + 1, last(i))]]
  BY DEF Dense
<1> HIDE DEF D
<1>3. N \in Nat /\ N * c <= L + c - 1 /\ L + c - 1 < N * c + c
  <2> DEFINE a == L + c - 1
             R == a % c
             M == N * c
  <2>1. N = a \div c /\ a \in Nat /\ c \in Nat \ {0}
    BY <1>1
  <2> HIDE DEF a, N, c
  <2>2. N \in Nat /\ R \in 0 .. c - 1 /\ a = N * c + R
    BY <2>1, DivisionIs
  <2>3. M \in Nat /\ R \in Nat /\ R < c /\ c \in Nat /\ a = M + R
    BY <2>1, <2>2
  <2> HIDE DEF R, M
  <2>4. M <= a /\ a < M + c
    BY <2>3
  <2> QED
    BY <2>2, <2>4 DEF M, a
<1> HIDE DEF N
<1>4. Len(D) = N /\ DOMAIN D = 1 .. N
  <2>1. DOMAIN D = 1 .. N /\ D = [i \in 1 .. N |-> D[i]]
    BY <1>2
  <2> QED
    BY <1>3, <2>1, LenIs
<1>5. ASSUME NEW i \in 1 .. N
      PROVE  /\ D[i].seq = b + i - 1 /\ D[i].ids \in Seq(ScIds) /\ Len(D[i].ids) <= c
             /\ \A o \in DOMAIN D[i].ids : D[i].ids[o] = ids[(i - 1) * c + o]
  <2> DEFINE p == (i - 1) * c
             m == last(i)
             w == SubSeq(ids, p + 1, m)
  <2>1. D[i].seq = b + i - 1 /\ D[i].ids = w
    BY <1>2
  <2>2. p \in Nat /\ i * c = p + c
    <3>1. i - 1 \in Nat /\ (i - 1) + 1 = i
      BY <1>3
    <3>2. (i - 1) * c \in Nat /\ ((i - 1) + 1) * c = (i - 1) * c + c
      BY <1>1, <3>1, TimesGrows
    <3> QED
      BY <3>1, <3>2
  <2>3. m \in Nat /\ m <= p + c /\ m <= L
    BY <1>1, <2>2
  <2> HIDE DEF p, m, D, c, L
  <2>4. w \in Seq(ScIds) /\ Len(w) = (IF p + 1 <= m THEN m - (p + 1) + 1 ELSE 0)
        /\ \A o \in 1 .. Len(w) : w[o] = ids[p + 1 + o - 1]
    BY <1>1, <2>2, <2>3, SubSeqProperties DEF L
  <2>5. Len(w) \in Nat /\ Len(w) <= c /\ DOMAIN w = 1 .. Len(w)
    BY <1>1, <2>2, <2>3, <2>4
  <2>6. \A o \in DOMAIN w : w[o] = ids[p + o]
    <3>1. \A o \in 1 .. Len(w) : p + 1 + o - 1 = p + o
      BY <2>2, <2>5
    <3> QED
      BY <2>4, <2>5, <3>1
  <2> HIDE DEF w
  <2> QED
    BY <2>1, <2>4, <2>5, <2>6 DEF p
<1>6. ASSUME NEW q \in Nat, q * c < L
      PROVE  q + 1 \in 1 .. N
  <2>1. q * c \in Nat /\ N * c \in Nat
    BY <1>1, <1>3
  <2>2. ~(N <= q)
    <3> SUFFICES ASSUME N <= q  PROVE FALSE
      OBVIOUS
    <3>1. N * c <= q * c
      BY <1>1, <1>3, TimesGrows
    <3> DEFINE X == N * c
               Y == q * c
    <3>2. X \in Nat /\ Y \in Nat /\ X <= Y /\ Y < L /\ L + c - 1 < X + c
      BY <1>3, <1>6, <2>1, <3>1
    <3> HIDE DEF X, Y, c, L
    <3> QED
      BY <1>1, <3>2
  <2> QED
    BY <1>3, <2>2
<1> QED
  BY <1>3, <1>4, <1>5, <1>6 DEF DenseOk, D

LinesOk(l, ids, b) ==
  /\ l \in Seq(Places)
  /\ \A k \in DOMAIN l : /\ Repacked(l[k], ids, b)
                         /\ (l[k].seq - b) \in Nat /\ (l[k].seq - b) * ShardCap < Len(ids)

LEMMA LinesOfIs ==
  ASSUME NEW ids \in Seq(ScIds), NEW b \in Nat
  PROVE  LinesOk(LinesOf(ids, b), ids, b)
<1> DEFINE l == LinesOf(ids, b)
           c == ShardCap
           L == Len(ids)
<1>1. c \in Nat \ {0} /\ L \in Nat
  BY ScAssumption
<1>2. /\ l = [i \in 1 .. L |-> l[i]] /\ DOMAIN l = 1 .. L
      /\ \A i \in 1 .. L :
           l[i] = [id |-> ids[i], seq |-> b + (i - 1) \div c, off |-> ((i - 1) % c) + 1]
  BY DEF LinesOf
<1> HIDE DEF l
<1>3. ASSUME NEW i \in 1 .. L
      PROVE  /\ l[i] \in Places /\ Repacked(l[i], ids, b)
             /\ (l[i].seq - b) \in Nat /\ (l[i].seq - b) * c < L
  <2> DEFINE q == (i - 1) \div c
             r == (i - 1) % c
             X == q * c
  <2>1. i - 1 \in Nat /\ c \in Nat \ {0}
    BY <1>1
  <2>2. q \in Nat /\ r \in 0 .. c - 1 /\ i - 1 = X + r
    BY <2>1, DivisionIs
  <2>3. l[i] = [id |-> ids[i], seq |-> b + q, off |-> r + 1]
    BY <1>2
  <2>4. X \in Nat
    BY <2>1, <2>2
  <2> HIDE DEF q, r, l, L, c
  <2>5. l[i].id = ids[i] /\ l[i].seq = b + q /\ l[i].off = r + 1 /\ (b + q) - b = q
    BY <2>2, <2>3
  <2>6. r + 1 \in 1 .. c /\ b + q \in Nat /\ b <= b + q
    BY <2>1, <2>2
  <2>7. ids[i] \in ScIds
    BY <1>1 DEF L
  <2>8. l[i] \in Places
    BY <2>3, <2>6, <2>7 DEF Places, c
  <2>9. X + (r + 1) = i /\ X < L
    <3> HIDE DEF X
    <3> QED
      BY <1>1, <2>2, <2>4
  <2>10. Repacked(l[i], ids, b)
    BY <2>5, <2>6, <2>9 DEF Repacked, X, c
  <2> QED
    BY <2>2, <2>5, <2>8, <2>9, <2>10 DEF X
<1>4. l \in Seq(Places)
  <2>1. l \in [1 .. L -> Places]
    BY <1>2, <1>3
  <2> QED
    BY <1>1, <2>1
<1> QED
  BY <1>2, <1>3, <1>4 DEF LinesOk, l

-----------------------------------------------------------------------------
(* What an operation reads of the directory before it starts.               *)

\* The largest of a finite set of numbers.
LEMMA TopIs ==
  ASSUME NEW S \in SUBSET Nat, IsFiniteSet(S), S # {}
  PROVE  Top(S) \in S /\ \A k \in S : k <= Top(S)
<1> DEFINE above(n) == {k \in S : n < k}
           T == {Cardinality(above(n)) : n \in S}
<1>1. ASSUME NEW n \in S
      PROVE  IsFiniteSet(above(n)) /\ Cardinality(above(n)) \in Nat
  BY FS_Subset, FS_CardinalityType
<1>2. T \in SUBSET Nat /\ T # {}
  BY <1>1
<1>3. PICK m \in T : \A k \in T : m <= k
  <2> HIDE DEF T
  <2> QED
    BY <1>2, LeastNat
<1>4. PICK n \in S : m = Cardinality(above(n))
  OBVIOUS
<1>5. ASSUME NEW k \in S, n < k
      PROVE  FALSE
  <2>0. n \in Nat /\ \A x \in S : x \in Nat
    OBVIOUS
  <2>1. k \in above(n) /\ k \notin above(k) /\ above(k) \in SUBSET above(n)
    <3>1. k \in above(n) /\ k \notin above(k)
      BY <1>5, <2>0
    <3>2. \A x \in S : k < x => n < x
      BY <1>5, <2>0
    <3> QED
      BY <3>1, <3>2
  <2>2. Cardinality(above(k)) <= Cardinality(above(n))
        /\ (Cardinality(above(n)) = Cardinality(above(k)) => above(n) = above(k))
    BY <1>1, <2>1, FS_Subset
  <2>3. Cardinality(above(n)) <= Cardinality(above(k))
    BY <1>3, <1>4
  <2>4. Cardinality(above(k)) \in Nat /\ Cardinality(above(n)) \in Nat
    BY <1>1
  <2> HIDE DEF above
  <2> QED
    BY <2>1, <2>2, <2>3, <2>4
<1>6. \E x \in S : \A k \in S : k <= x
  BY <1>5
<1> QED
  BY <1>6 DEF Top

LEMMA ShardSeqsAre ==
  ASSUME Typed(disk)
  PROVE  /\ IsFiniteSet(ShardSeqs) /\ ShardSeqs \in SUBSET Nat
         /\ \A n \in ShardSeqs : Shard(n) \in DOMAIN disk
         /\ \A n \in Nat : Shard(n) \in DOMAIN disk => n \in ShardSeqs
<1> DEFINE G == {g \in DOMAIN disk : g[1] = "shard"}
           f == [g \in G |-> g[2]]
<1>1. IsFiniteSet(G)
  BY FS_Subset DEF Typed
<1>2. ASSUME NEW g \in G
      PROVE  g[2] \in Nat /\ g = Shard(g[2])
  <2>1. g \in Named
    BY TmpNames DEF Typed
  <2>2. PICK n \in Nat : g = Shard(n)
    BY <2>1, TmpNames DEF Named, ShardNames
  <2> QED
    BY <2>2, TmpNames
<1>3. f \in Surjection(G, ShardSeqs)
  BY DEF Surjection, ShardSeqs
<1>4. IsFiniteSet(ShardSeqs)
  BY <1>1, <1>3, FS_Surjection
<1>5. \A n \in ShardSeqs : n \in Nat /\ Shard(n) \in DOMAIN disk
  BY <1>2 DEF ShardSeqs
<1>6. \A n \in Nat : Shard(n) \in DOMAIN disk => n \in ShardSeqs
  BY TmpNames DEF ShardSeqs
<1> QED
  BY <1>4, <1>5, <1>6

\* A quiet directory: no operation has left a .tmp.
Quiet(d) == Typed(d) /\ \A x \in Named : Tmp(x) \notin DOMAIN d

LEMMA FreshIs ==
  ASSUME Quiet(disk)
  PROVE  /\ FreshSeq \in Nat /\ SeqFloor \in Nat /\ SeqFloor = FloorOf(disk)
         /\ FloorOf(disk) <= FreshSeq
         /\ \A n \in ShardSeqs : n < FreshSeq
         /\ \A n \in Nat : Burned(n, disk) => n < FreshSeq
<1> DEFINE N == NextAfter(ShardSeqs)
<1>1. Typed(disk) /\ \A x \in Named : Tmp(x) \notin DOMAIN disk
  BY DEF Quiet
<1>2. N \in Nat /\ \A n \in ShardSeqs : n < N
  <2>1. CASE ShardSeqs = {}
    BY <2>1 DEF NextAfter
  <2>2. CASE ShardSeqs # {}
    <3>1. Top(ShardSeqs) \in ShardSeqs /\ \A k \in ShardSeqs : k <= Top(ShardSeqs)
      BY <1>1, <2>2, ShardSeqsAre, TopIs
    <3>2. \A n \in ShardSeqs : n \in Nat
      BY <1>1, ShardSeqsAre
    <3>3. PICK t \in ShardSeqs : t = Top(ShardSeqs)
      BY <3>1
    <3>4. N = t + 1
      BY <2>2, <3>3 DEF NextAfter
    <3>5. t \in Nat /\ \A k \in ShardSeqs : k <= t
      BY <3>1, <3>2, <3>3
    <3> HIDE DEF N
    <3> QED
      BY <3>2, <3>4, <3>5
  <2> QED
    BY <2>1, <2>2
<1>3. SeqFloor = FloorOf(disk) /\ FloorOf(disk) \in Nat
  BY <1>1, NamesDiffer, FloorIsNat DEF SeqFloor, FloorOf, Exists
<1>4. FreshSeq = IF N >= SeqFloor THEN N ELSE SeqFloor
  BY DEF FreshSeq, LargerOf
<1>5. ShardSeqs \in SUBSET Nat
  BY <1>1, ShardSeqsAre
<1> HIDE DEF N
<1>6. FreshSeq \in Nat /\ FloorOf(disk) <= FreshSeq /\ N <= FreshSeq
  BY <1>2, <1>3, <1>4
<1>7. \A n \in ShardSeqs : n < FreshSeq
  BY <1>2, <1>5, <1>6
<1>8. ASSUME NEW n \in Nat, Burned(n, disk)
      PROVE  n < FreshSeq
  <2>1. CASE n < FloorOf(disk)
    BY <1>3, <1>6, <2>1
  <2>2. ASSUME NEW m \in Nat, n <= m, Shard(m) \in DOMAIN disk  PROVE n < FreshSeq
    <3>1. m \in ShardSeqs
      BY <1>1, <2>2, ShardSeqsAre
    <3> QED
      BY <1>6, <1>7, <2>2, <3>1
  <2>3. \A m \in Nat : Tmp(Shard(m)) \notin DOMAIN disk
    BY <1>1, NamesDiffer
  <2> QED
    BY <1>8, <2>1, <2>2, <2>3 DEF Burned
<1> QED
  BY <1>3, <1>6, <1>7, <1>8

LEMMA LinesAre ==
  ASSUME Typed(disk)
  PROVE  /\ Lines \in Seq(Places) /\ IsFiniteSet(ToSet(Lines)) /\ ToSet(Lines) \subseteq Places
         /\ \A i \in DOMAIN Lines : HasWritten(Lines[i], disk)
<1>1. Jsonl \in Named
  BY NamesDiffer
<1>2. Lines \in Seq(Places)
  BY <1>1 DEF Lines, Exists, Typed, Fits
<1>3. \A i \in DOMAIN Lines : HasWritten(Lines[i], disk)
  BY <1>1 DEF Lines, Exists, HasWritten, Has
<1>4. Len(Lines) \in Nat /\ DOMAIN Lines = 1 .. Len(Lines)
  BY <1>2, LenProperties
<1>5. IsFiniteSet(ToSet(Lines))
  <2>1. IsFiniteSet(DOMAIN Lines)
    BY <1>4, FS_Interval
  <2>2. [i \in DOMAIN Lines |-> Lines[i]] \in Surjection(DOMAIN Lines, ToSet(Lines))
    BY DEF Surjection, ToSet
  <2> QED
    BY <2>1, <2>2, FS_Surjection
<1>6. ToSet(Lines) \subseteq Places
  BY <1>2 DEF ToSet
<1> QED
  BY <1>2, <1>3, <1>5, <1>6

\* The lines of a set in the order of their places.
LEMMA InPlaceIs ==
  ASSUME NEW T \in SUBSET Places, IsFiniteSet(T),
         \A r, s \in T : SamePlace(r, s) => r.id = s.id
  PROVE  InPlace(T) \in Seq(T)
<1> DEFINE c == ShardCap + 1
           key == [l \in T |-> l.seq * c + l.off]
<1>1. \A l \in T : l.seq \in Nat /\ l.off \in 1 .. ShardCap /\ l.off \in Nat
  BY ScAssumption DEF Places
<1>2. c \in Nat
  BY ScAssumption
<1>3. key \in [T -> Nat]
  <2> HIDE DEF c
  <2> QED
    BY <1>1, <1>2
<1>4. ASSUME NEW r \in T, NEW s \in T, key[r] = key[s]
      PROVE  r = s
  <2>1. r.seq * c + r.off = s.seq * c + s.off
    BY <1>4
  <2>2. r.seq = s.seq /\ r.off = s.off
    BY <1>1, <2>1, ScAssumption, PlacesOrdered
  <2>3. r.id = s.id
    BY <2>2 DEF SamePlace
  <2> QED
    BY <2>2, <2>3 DEF Places
<1>5. \A i \in 1 .. Cardinality(T) : InOrder(T, key)[i] \in T
  <2> HIDE DEF key
  <2> QED
    BY <1>3, <1>4, InOrderIs
<1>6. Cardinality(T) \in Nat
  BY FS_CardinalityType
<1>7. InOrder(T, key) \in [1 .. Cardinality(T) -> T]
  <2> HIDE DEF key
  <2> QED
    BY <1>5 DEF InOrder
<1> QED
  BY <1>6, <1>7 DEF InPlace

-----------------------------------------------------------------------------
(* The plan of an operation, part by part.                                  *)

StepsOf(s) == {s[i] : i \in DOMAIN s}
Writes(x) == x.do \in {"write", "replace"}

\* The plan may start on the quiet disk d.
Ready(s, d) == PlanOk(s, d) /\ \A x \in StepsOf(s) : x.do # "rename"

\* The steps u raise the floor of d above n.
Passed(n, u, d) ==
  \/ n < FloorOf(d)
  \/ \E y \in u : y.name = Meta /\ y.do = "replace" /\ n < y.contents
\* A line of the seq q may be written after the steps u.
Backed(q, u, d) ==
  \/ Burned(q, d)
  \/ \E y \in u, n \in Nat : y.do = "replace" /\ y.name = Shard(n) /\ q <= n

\* The steps v may follow the steps u.
After(v, u, d) ==
  /\ IsPlan(v)
  /\ \A x \in StepsOf(v) :
       /\ x.do # "rename"
       /\ x.do = "remove" => \A n \in Nat : x.name = Shard(n) => Passed(n, u, d)
       /\ x.name = Meta => /\ x.do = "replace" /\ FloorOf(d) <= x.contents
                           /\ \A y \in u : y.name # Meta
       /\ Writes(x) => /\ Fits(x.name, x.contents)
                       /\ x.do = "write" => x.name = Jsonl
                       /\ x.name = Jsonl =>
                            \A k \in DOMAIN x.contents : Backed(x.contents[k].seq, u, d)
  /\ \A i, j \in DOMAIN v : v[i].name = Meta /\ v[j].name = Meta => i = j

CatOk(w, u, v, d) == Ready(w, d) /\ StepsOf(w) = StepsOf(u) \cup StepsOf(v)

\* The places of one sequence after another.
Joins(w, u, v) ==
  /\ IsPlan(w) /\ Len(u) \in Nat
  /\ \A i \in DOMAIN w : \/ i \in DOMAIN u /\ w[i] = u[i]
                         \/ i - Len(u) \in DOMAIN v /\ w[i] = v[i - Len(u)] /\ i > Len(u)
  /\ \A i \in DOMAIN u : i \in DOMAIN w /\ w[i] = u[i] /\ i <= Len(u)
  /\ \A i \in DOMAIN v : i + Len(u) \in DOMAIN w /\ w[i + Len(u)] = v[i]
  /\ DOMAIN w \subseteq Nat

LEMMA PlanIsSeq ==
  ASSUME NEW u, IsPlan(u), NEW V, \A i \in DOMAIN u : u[i] \in V
  PROVE  u \in Seq(V) /\ Len(u) \in Nat /\ DOMAIN u = 1 .. Len(u)
<1>1. Len(u) \in Nat /\ u = [i \in 1 .. Len(u) |-> u[i]]
  BY DEF IsPlan
<1>2. PICK n \in Nat : n = Len(u)
  BY <1>1
<1>3. u = [i \in 1 .. n |-> u[i]]
  BY <1>1, <1>2
<1>4. u \in [1 .. n -> V] /\ DOMAIN u = 1 .. n
  BY <1>3
<1>5. u \in Seq(V)
  BY <1>2, <1>4
<1> QED
  BY <1>2, <1>4, <1>5

LEMMA JoinIs ==
  ASSUME NEW u, NEW v, IsPlan(u), IsPlan(v), NEW w, w = u \o v
  PROVE  Joins(w, u, v)
<1> DEFINE V == StepsOf(u) \cup StepsOf(v)
<1>1. /\ Len(u) \in Nat /\ DOMAIN u = 1 .. Len(u) /\ u \in Seq(V)
      /\ Len(v) \in Nat /\ DOMAIN v = 1 .. Len(v) /\ v \in Seq(V)
  <2>1. /\ \A i \in DOMAIN u : u[i] \in V
        /\ \A i \in DOMAIN v : v[i] \in V
    BY DEF StepsOf
  <2> HIDE DEF V
  <2>2. u \in Seq(V) /\ Len(u) \in Nat /\ DOMAIN u = 1 .. Len(u)
    BY <2>1, PlanIsSeq
  <2>3. v \in Seq(V) /\ Len(v) \in Nat /\ DOMAIN v = 1 .. Len(v)
    BY <2>1, PlanIsSeq
  <2> QED
    BY <2>2, <2>3
<1>2. ASSUME NEW x \in V
      PROVE  x.do \in Doings /\ x.name \in Named
  <2>1. CASE x \in StepsOf(u)
    <3>1. PICK i \in DOMAIN u : x = u[i]
      BY <2>1 DEF StepsOf
    <3> QED
      BY <3>1 DEF IsPlan
  <2>2. CASE x \in StepsOf(v)
    <3>1. PICK i \in DOMAIN v : x = v[i]
      BY <2>2 DEF StepsOf
    <3> QED
      BY <3>1 DEF IsPlan
  <2> QED
    BY <2>1, <2>2
<1> HIDE DEF V
<1>3. /\ w \in Seq(V) /\ Len(w) = Len(u) + Len(v)
      /\ \A i \in 1 .. Len(u) + Len(v) : w[i] = IF i <= Len(u) THEN u[i] ELSE v[i - Len(u)]
  BY <1>1, ConcatProperties
<1>4. PICK m \in Nat : m = Len(u)
  BY <1>1
<1>5. PICK n \in Nat : n = Len(v)
  BY <1>1
<1>6. DOMAIN w = 1 .. m + n /\ Len(w) = m + n /\ w = [i \in 1 .. m + n |-> w[i]]
  BY <1>3, <1>4, <1>5, LenProperties
<1>7. \A i \in 1 .. m + n : /\ i \in 1 .. m => w[i] = u[i]
                           /\ i \notin 1 .. m => w[i] = v[i - m] /\ i - m \in 1 .. n /\ i > m
  BY <1>3, <1>4, <1>5
<1>8. \A i \in 1 .. n : i + m \in 1 .. m + n /\ w[i + m] = v[i]
  <2> SUFFICES ASSUME NEW i \in 1 .. n  PROVE i + m \in 1 .. m + n /\ w[i + m] = v[i]
    OBVIOUS
  <2>1. i + m \in 1 .. m + n /\ i + m \notin 1 .. m /\ (i + m) - m = i
    OBVIOUS
  <2> QED
    BY <1>7, <2>1
<1>9. \A i \in 1 .. m : i \in 1 .. m + n /\ i <= m
  OBVIOUS
<1>10. IsPlan(w)
  <2>1. \A i \in 1 .. m + n : w[i] \in V
    BY <1>3, <1>6, ElementOfSeq
  <2>2. \A i \in DOMAIN w : w[i].do \in Doings /\ w[i].name \in Named
    BY <1>2, <1>6, <2>1
  <2>3. Len(w) \in Nat /\ w = [i \in 1 .. Len(w) |-> w[i]]
    <3>1. PICK k \in Nat : k = m + n
      OBVIOUS
    <3>2. Len(w) = k /\ w = [i \in 1 .. k |-> w[i]]
      BY <1>6, <3>1
    <3> QED
      BY <3>2
  <2> QED
    BY <2>2, <2>3 DEF IsPlan
<1>11. \A i \in DOMAIN w : \/ i \in DOMAIN u /\ w[i] = u[i]
                           \/ i - Len(u) \in DOMAIN v /\ w[i] = v[i - Len(u)] /\ i > Len(u)
  BY <1>1, <1>4, <1>5, <1>6, <1>7
<1>12. \A i \in DOMAIN u : i \in DOMAIN w /\ w[i] = u[i] /\ i <= Len(u)
  BY <1>1, <1>4, <1>6, <1>7, <1>9
<1>13. \A i \in DOMAIN v : i + Len(u) \in DOMAIN w /\ w[i + Len(u)] = v[i]
  BY <1>1, <1>4, <1>5, <1>6, <1>8
<1>14. DOMAIN w \subseteq Nat
  BY <1>6
<1> QED
  BY <1>1, <1>10, <1>11, <1>12, <1>13, <1>14 DEF Joins

LEMMA CatReady ==
  ASSUME NEW d, NEW u, NEW v, Ready(u, d), After(v, StepsOf(u), d), NEW w, w = u \o v
  PROVE  CatOk(w, u, v, d)
<1> DEFINE L == Len(u)
<1>1. /\ IsPlan(w) /\ L \in Nat
      /\ \A i \in DOMAIN w : \/ i \in DOMAIN u /\ w[i] = u[i]
                             \/ i - L \in DOMAIN v /\ w[i] = v[i - L] /\ i > L
      /\ \A i \in DOMAIN u : i \in DOMAIN w /\ w[i] = u[i] /\ i <= L
      /\ \A i \in DOMAIN v : i + L \in DOMAIN w /\ w[i + L] = v[i]
      /\ DOMAIN w \subseteq Nat
  <2>1. IsPlan(u) /\ IsPlan(v)
    BY DEF Ready, PlanOk, After
  <2>2. Joins(w, u, v)
    BY <2>1, JoinIs
  <2> QED
    BY <2>2 DEF Joins
<1> HIDE DEF L
<1>2. StepsOf(w) = StepsOf(u) \cup StepsOf(v)
  <2>1. \A x \in StepsOf(w) : x \in StepsOf(u) \cup StepsOf(v)
    BY <1>1 DEF StepsOf
  <2>2. \A x \in StepsOf(u) : x \in StepsOf(w)
    BY <1>1 DEF StepsOf
  <2>3. \A x \in StepsOf(v) : x \in StepsOf(w)
    <3> SUFFICES ASSUME NEW x \in StepsOf(v)  PROVE x \in StepsOf(w)
      OBVIOUS
    <3>1. PICK i \in DOMAIN v : x = v[i]
      BY DEF StepsOf
    <3>2. i + L \in DOMAIN w /\ w[i + L] = x
      BY <1>1, <3>1
    <3> QED
      BY <3>2 DEF StepsOf
  <2> QED
    BY <2>1, <2>2, <2>3
<1>3. \A x \in StepsOf(w) : x.do # "rename"
  BY <1>2 DEF Ready, After
\* An earlier place of w for a step of u.
<1>4. ASSUME NEW i \in DOMAIN w, i > L, NEW y \in StepsOf(u)
      PROVE  \E j \in DOMAIN w : j < i /\ w[j] = y
  <2>1. PICK j \in DOMAIN u : y = u[j]
    BY DEF StepsOf
  <2>2. j \in DOMAIN w /\ w[j] = y /\ j <= L /\ j \in Nat /\ i \in Nat
    BY <1>1, <2>1
  <2> QED
    BY <1>1, <1>4, <2>2
<1>5. FloorFirst(w, d)
  <2> SUFFICES ASSUME NEW i \in DOMAIN w, NEW n \in Nat, w[i].do = "remove", w[i].name = Shard(n)
               PROVE  \/ n < FloorOf(d)
                      \/ \E j \in DOMAIN w : /\ j < i /\ w[j].name = Meta
                                             /\ w[j].do = "replace" /\ n < w[j].contents
    BY DEF FloorFirst
  <2>1. CASE i \in DOMAIN u /\ w[i] = u[i]
    <3>1. \A j \in DOMAIN u : u[j].do # "rename"
      BY DEF Ready, StepsOf
    <3>2. \/ n < FloorOf(d)
          \/ \E j \in DOMAIN u : j < i /\ u[j].name = Meta /\ u[j].do = "replace" /\ n < u[j].contents
      BY <2>1, <3>1 DEF Ready, PlanOk, FloorFirst
    <3> QED
      BY <1>1, <3>2
  <2>2. CASE i - L \in DOMAIN v /\ w[i] = v[i - L] /\ i > L
    <3>1. w[i] \in StepsOf(v)
      BY <2>2 DEF StepsOf
    <3>2. Passed(n, StepsOf(u), d)
      BY <3>1 DEF After
    <3> QED
      BY <1>4, <2>2, <3>2 DEF Passed
  <2> QED
    BY <1>1, <2>1, <2>2
<1>6. FloorRises(w, d)
  <2>1. ASSUME NEW i \in DOMAIN w, w[i].name = Meta
        PROVE  w[i].do = "replace" /\ FloorOf(d) <= w[i].contents
    <3>1. w[i] \in StepsOf(u) \cup StepsOf(v)
      BY <1>2 DEF StepsOf
    <3>2. ASSUME w[i] \in StepsOf(u)  PROVE w[i].do = "replace" /\ FloorOf(d) <= w[i].contents
      <4>1. PICK j \in DOMAIN u : w[i] = u[j]
        BY <3>2 DEF StepsOf
      <4>2. u[j].do # "rename"
        BY DEF Ready, StepsOf
      <4> QED
        BY <2>1, <4>1, <4>2 DEF Ready, PlanOk, FloorRises
    <3> QED
      BY <2>1, <3>1, <3>2 DEF After
  <2>2. ASSUME NEW i \in DOMAIN w, NEW j \in DOMAIN w, w[i].name = Meta, w[j].name = Meta
        PROVE  i = j
    <3>1. CASE i \in DOMAIN u /\ w[i] = u[i] /\ j \in DOMAIN u /\ w[j] = u[j]
      BY <2>2, <3>1 DEF Ready, PlanOk, FloorRises
    <3>2. \A k, h \in DOMAIN w : k \in DOMAIN u /\ w[k] = u[k] /\ h - L \in DOMAIN v /\ w[h] = v[h - L]
            => ~(w[k].name = Meta /\ w[h].name = Meta)
      BY DEF After, StepsOf
    <3>3. CASE i - L \in DOMAIN v /\ w[i] = v[i - L] /\ j - L \in DOMAIN v /\ w[j] = v[j - L]
      <4>1. i - L = j - L
        BY <2>2, <3>3 DEF After
      <4> QED
        BY <1>1, <4>1
    <3> QED
      BY <1>1, <2>2, <3>1, <3>2, <3>3
  <2>3. \A i \in DOMAIN w : w[i].do # "rename"
    BY <1>3 DEF StepsOf
  <2> QED
    BY <2>1, <2>2, <2>3 DEF FloorRises
<1>7. ShardsBefore(w, d)
  <2>1. ASSUME NEW i \in DOMAIN w, Writes(w[i])
        PROVE  Fits(w[i].name, w[i].contents) /\ (w[i].do = "write" => w[i].name = Jsonl)
    <3>1. w[i] \in StepsOf(u) \cup StepsOf(v)
      BY <1>2 DEF StepsOf
    <3>2. ASSUME w[i] \in StepsOf(u)
          PROVE  Fits(w[i].name, w[i].contents) /\ (w[i].do = "write" => w[i].name = Jsonl)
      <4>1. PICK j \in DOMAIN u : w[i] = u[j]
        BY <3>2 DEF StepsOf
      <4> QED
        BY <2>1, <4>1 DEF Ready, PlanOk, ShardsBefore, Writes
    <3> QED
      BY <2>1, <3>1, <3>2 DEF After
  <2>2. ASSUME NEW i \in DOMAIN w, Writes(w[i]), w[i].name = Jsonl, NEW k \in DOMAIN w[i].contents
        PROVE  \/ Burned(w[i].contents[k].seq, d)
               \/ \E j \in DOMAIN w, n \in Nat : /\ j < i /\ w[j].do = "replace" /\ w[j].name = Shard(n)
                                                /\ w[i].contents[k].seq <= n
    <3>1. CASE i \in DOMAIN u /\ w[i] = u[i]
      <4>1. \/ Burned(u[i].contents[k].seq, d)
            \/ \E j \in DOMAIN u, n \in Nat : /\ j < i /\ u[j].do = "replace" /\ u[j].name = Shard(n)
                                             /\ u[i].contents[k].seq <= n
        BY <2>2, <3>1 DEF Ready, PlanOk, ShardsBefore, Writes
      <4>2. ASSUME NEW j \in DOMAIN u, NEW n \in Nat, j < i, u[j].do = "replace", u[j].name = Shard(n),
                   u[i].contents[k].seq <= n
            PROVE  j \in DOMAIN w /\ w[j] = u[j]
        BY <1>1
      <4> QED
        BY <3>1, <4>1, <4>2
    <3>2. CASE i - L \in DOMAIN v /\ w[i] = v[i - L] /\ i > L
      <4>1. w[i] \in StepsOf(v)
        BY <3>2 DEF StepsOf
      <4>2. Backed(w[i].contents[k].seq, StepsOf(u), d)
        BY <2>2, <4>1 DEF After
      <4>3. ASSUME NEW y \in StepsOf(u), NEW n \in Nat, y.do = "replace", y.name = Shard(n),
                   w[i].contents[k].seq <= n
            PROVE  \E j \in DOMAIN w : j < i /\ w[j] = y
        BY <1>4, <3>2
      <4> QED
        BY <4>2, <4>3 DEF Backed
    <3> QED
      BY <1>1, <3>1, <3>2
  <2> QED
    BY <2>1, <2>2 DEF ShardsBefore, Writes
<1> QED
  BY <1>1, <1>2, <1>3, <1>5, <1>6, <1>7 DEF CatOk, Ready, PlanOk

LEMMA FirstReady ==
  ASSUME NEW d, NEW v, After(v, {}, d)
  PROVE  Ready(v, d)
<1>1. StepsOf(<< >>) = {} /\ Ready(<< >>, d)
  BY NoPlan DEF StepsOf, Ready
<1>2. v = << >> \o v
  <2>1. v \in Seq(StepsOf(v))
    BY DEF After, IsPlan, StepsOf
  <2> QED
    BY <2>1, ConcatEmptySeq
<1>3. CatOk(v, << >>, v, d)
  BY <1>1, <1>2, CatReady
<1> QED
  BY <1>3 DEF CatOk

\* A plan of one step.
LEMMA OneStep ==
  ASSUME NEW x, x.do \in Doings, x.name \in Named
  PROVE  IsPlan(<<x>>) /\ StepsOf(<<x>>) = {x}
<1>1. Len(<<x>>) = 1 /\ DOMAIN <<x>> = 1 .. 1 /\ <<x>>[1] = x /\ 1 .. 1 = {1}
  OBVIOUS
<1>2. <<x>> = [i \in 1 .. 1 |-> <<x>>[i]]
  OBVIOUS
<1>3. StepsOf(<<x>>) = {x}
  BY <1>1 DEF StepsOf
<1>4. \A i \in DOMAIN <<x>> : <<x>>[i].do \in Doings /\ <<x>>[i].name \in Named
  BY <1>1
<1> QED
  BY <1>1, <1>2, <1>3, <1>4 DEF IsPlan

LEMMA PlannedIs ==
  ASSUME NEW s, NEW r, Planned(r, s)
  PROVE  \E x \in StepsOf(s) : Writes(x) /\ Has(r, x.name, x.contents)
  BY DEF Planned, StepsOf, Writes

\* The shards of a repacking: only its records, and one shard for each seq.
WritesOk(w, ids, b) ==
  /\ IsPlan(w)
  /\ \A x \in StepsOf(w) : x.do = "replace" /\ \E q \in Nat :
       /\ x.name = Shard(b + q) /\ x.contents \in Seq(ScIds) /\ Len(x.contents) <= ShardCap
       /\ \A o \in DOMAIN x.contents : x.contents[o] = ids[q * ShardCap + o]
  /\ \A q \in Nat : q * ShardCap < Len(ids) =>
       \E x \in StepsOf(w) : x.do = "replace" /\ x.name = Shard(b + q)

LEMMA WritesAre ==
  ASSUME NEW ids \in Seq(ScIds), NEW b \in Nat
  PROVE  /\ WritesOk(WriteShards(Dense(ids, b)), ids, b)
         /\ Len(Dense(ids, b)) \in Nat
<1> DEFINE D == Dense(ids, b)
           w == WriteShards(D)
<1>1. DenseOk(D, ids, b)
  BY DenseIs
<1> HIDE DEF D
<1>2. PICK n \in Nat : n = Len(D)
  BY <1>1 DEF DenseOk
<1>3. /\ w = [i \in 1 .. n |-> w[i]] /\ DOMAIN w = 1 .. n
      /\ \A i \in 1 .. n : w[i] = ReplaceStep(Shard(D[i].seq), D[i].ids)
  BY <1>2 DEF WriteShards
<1> HIDE DEF w
<1>4. Len(w) = n
  BY <1>3, LenIs
<1>5. ASSUME NEW i \in 1 .. n
      PROVE  /\ i - 1 \in Nat
             /\ w[i].do = "replace" /\ w[i].name = Shard(b + (i - 1)) /\ w[i].contents = D[i].ids
             /\ w[i].name \in Named
  <2>1. i - 1 \in Nat /\ b + i - 1 = b + (i - 1) /\ b + (i - 1) \in Nat
    OBVIOUS
  <2>2. D[i].seq = b + (i - 1)
    BY <1>1, <1>2, <2>1 DEF DenseOk
  <2> QED
    BY <1>3, <2>1, <2>2, NamesDiffer DEF ReplaceStep
<1>6. IsPlan(w)
  BY <1>3, <1>4, <1>5 DEF IsPlan, Doings
<1>7. ASSUME NEW x \in StepsOf(w)
      PROVE  x.do = "replace" /\ \E q \in Nat :
               /\ x.name = Shard(b + q) /\ x.contents \in Seq(ScIds) /\ Len(x.contents) <= ShardCap
               /\ \A o \in DOMAIN x.contents : x.contents[o] = ids[q * ShardCap + o]
  <2>1. PICK i \in 1 .. n : x = w[i]
    BY <1>3 DEF StepsOf
  <2>2. /\ D[i].ids \in Seq(ScIds) /\ Len(D[i].ids) <= ShardCap
        /\ \A o \in DOMAIN D[i].ids : D[i].ids[o] = ids[(i - 1) * ShardCap + o]
    BY <1>1, <1>2 DEF DenseOk
  <2>3. PICK q \in Nat : q = i - 1
    BY <1>5
  <2>4. x.do = "replace" /\ x.name = Shard(b + q) /\ x.contents = D[i].ids
    BY <1>5, <2>1, <2>3
  <2>5. \A o \in DOMAIN x.contents : x.contents[o] = ids[q * ShardCap + o]
    BY <2>2, <2>3, <2>4
  <2>6. x.contents \in Seq(ScIds) /\ Len(x.contents) <= ShardCap
    BY <2>2, <2>4
  <2> QED
    BY <2>4, <2>5, <2>6
<1>8. ASSUME NEW q \in Nat, q * ShardCap < Len(ids)
      PROVE  \E x \in StepsOf(w) : x.do = "replace" /\ x.name = Shard(b + q)
  <2>1. q + 1 \in 1 .. n /\ (q + 1) - 1 = q
    BY <1>1, <1>2, <1>8 DEF DenseOk
  <2> QED
    BY <1>3, <1>5, <2>1 DEF StepsOf
<1> QED
  BY <1>2, <1>6, <1>7, <1>8 DEF WritesOk, D, w

LEMMA WritesReady ==
  ASSUME NEW w, NEW ids, NEW b \in Nat, WritesOk(w, ids, b), NEW d
  PROVE  /\ Ready(w, d)
         /\ \A x \in StepsOf(w) : x.name # Meta
         /\ \A r \in Places, x \in StepsOf(w) : Has(r, x.name, x.contents) => Repacked(r, ids, b)
<1>1. ASSUME NEW x \in StepsOf(w)
      PROVE  /\ x.do = "replace" /\ x.name \in ShardNames /\ x.name # Meta /\ x.name # Jsonl
             /\ Fits(x.name, x.contents)
             /\ \A r \in Places : Has(r, x.name, x.contents) => Repacked(r, ids, b)
  <2>1. PICK q \in Nat :
          /\ x.name = Shard(b + q) /\ x.contents \in Seq(ScIds) /\ Len(x.contents) <= ShardCap
          /\ \A o \in DOMAIN x.contents : x.contents[o] = ids[q * ShardCap + o]
    BY DEF WritesOk
  <2>2. b + q \in Nat /\ (b + q) - b = q /\ b <= b + q
    OBVIOUS
  <2>3. x.name \in ShardNames /\ x.name # Meta /\ x.name # Jsonl /\ x.do = "replace"
    BY <2>1, <2>2, NamesDiffer DEF ShardNames, WritesOk
  <2>4. Fits(x.name, x.contents)
    BY <2>1, <2>3 DEF Fits
  <2>5. ASSUME NEW r \in Places, Has(r, x.name, x.contents)
        PROVE  Repacked(r, ids, b)
    <3>1. Shard(b + q) = Shard(r.seq) /\ r.off \in DOMAIN x.contents /\ x.contents[r.off] = r.id
      BY <2>1, <2>3, <2>5 DEF Has
    <3>2. r.seq \in Nat
      BY DEF Places
    <3>3. r.seq = b + q
      BY <2>2, <3>1, <3>2, NamesDiffer
    <3> QED
      BY <2>1, <2>2, <3>1, <3>3 DEF Repacked
  <2> QED
    BY <2>3, <2>4, <2>5
<1>2. After(w, {}, d)
  <2>1. IsPlan(w)
    BY DEF WritesOk
  <2>2. \A i \in DOMAIN w : w[i].name # Meta
    BY <1>1 DEF StepsOf
  <2> QED
    BY <1>1, <2>1, <2>2 DEF After
<1>3. Ready(w, d)
  BY <1>2, FirstReady
<1> QED
  BY <1>1, <1>3

\* The floor goes up, or it is high enough.
FloorOk(w, u, floor) ==
  /\ After(w, u, disk)
  /\ \A x \in StepsOf(w) : x.name = Meta
  /\ \A n \in Nat : n < floor => Passed(n, StepsOf(w), disk)

LEMMA FloorAfter ==
  ASSUME Quiet(disk), NEW floor \in Nat, NEW u, \A y \in u : y.name # Meta
  PROVE  FloorOk(RaiseFloor(floor), u, floor)
<1>1. SeqFloor \in Nat /\ SeqFloor = FloorOf(disk)
  BY FreshIs
<1>2. CASE floor <= SeqFloor
  <2>1. RaiseFloor(floor) = << >> /\ StepsOf(<< >>) = {}
    BY <1>2 DEF RaiseFloor, StepsOf
  <2>2. After(<< >>, u, disk)
    BY <2>1 DEF After, IsPlan
  <2>3. \A n \in Nat : n < floor => Passed(n, {}, disk)
    BY <1>1, <1>2 DEF Passed
  <2> QED
    BY <2>1, <2>2, <2>3 DEF FloorOk
<1>3. CASE ~(floor <= SeqFloor)
  <2> DEFINE x == ReplaceStep(Meta, floor)
  <2>1. RaiseFloor(floor) = <<x>>
    BY <1>3 DEF RaiseFloor
  <2>2. x.do = "replace" /\ x.name = Meta /\ x.contents = floor /\ Meta \in Named
    BY NamesDiffer DEF ReplaceStep
  <2> HIDE DEF x
  <2>3. IsPlan(<<x>>) /\ StepsOf(<<x>>) = {x}
    BY <2>2, OneStep DEF Doings
  <2>4. Fits(Meta, floor)
    BY NamesDiffer DEF Fits, ShardNames
  <2>5. FloorOf(disk) <= floor
    BY <1>1, <1>3
  <2>6. \A i, j \in DOMAIN <<x>> : i = j
    OBVIOUS
  <2>7. After(<<x>>, u, disk)
    BY <2>2, <2>3, <2>4, <2>5, <2>6, NamesDiffer DEF After
  <2>8. \A n \in Nat : n < floor => Passed(n, {x}, disk)
    BY <2>2 DEF Passed
  <2> QED
    BY <2>1, <2>2, <2>3, <2>7, <2>8 DEF FloorOk
<1> QED
  BY <1>2, <1>3

LEMMA RemovesAfter ==
  ASSUME NEW S \in SUBSET Nat, IsFiniteSet(S), NEW u, NEW d, \A n \in S : Passed(n, u, d)
  PROVE  /\ After(RemoveShards(S), u, d)
         /\ \A x \in StepsOf(RemoveShards(S)) : x.do = "remove"
<1> DEFINE w == RemoveShards(S)
           key == [n \in S |-> n]
           c == Cardinality(S)
<1>1. c \in Nat
  BY FS_CardinalityType
<1>2. \A i \in 1 .. c : InOrder(S, key)[i] \in S
  <2>1. key \in [S -> Nat] /\ \A x, y \in S : key[x] = key[y] => x = y
    OBVIOUS
  <2> HIDE DEF key
  <2> QED
    BY <2>1, InOrderIs
<1>3. /\ w = [i \in 1 .. c |-> w[i]] /\ DOMAIN w = 1 .. c
      /\ \A i \in 1 .. c : w[i] = RemoveStep(Shard(InOrder(S, key)[i]))
  BY DEF RemoveShards
<1> HIDE DEF w, key, c
<1>4. ASSUME NEW i \in 1 .. c
      PROVE  w[i].do = "remove" /\ \E n \in S : w[i].name = Shard(n) /\ w[i].name \in Named
  <2>1. PICK n \in S : n = InOrder(S, key)[i]
    BY <1>2
  <2> QED
    BY <1>3, <2>1, NamesDiffer DEF RemoveStep
<1>5. Len(w) = c
  BY <1>1, <1>3, LenIs
<1>6. IsPlan(w)
  BY <1>1, <1>3, <1>4, <1>5 DEF IsPlan, Doings
<1>7. ASSUME NEW x \in StepsOf(w)
      PROVE  x.do = "remove" /\ x.name # Meta /\ \A n \in Nat : x.name = Shard(n) => Passed(n, u, d)
  <2>1. PICK i \in 1 .. c : x = w[i]
    BY <1>3 DEF StepsOf
  <2>2. PICK n \in S : w[i].name = Shard(n)
    BY <1>4
  <2>3. \A m \in Nat : Shard(m) = Shard(n) => m = n
    BY NamesDiffer
  <2> QED
    BY <1>4, <2>1, <2>2, <2>3, NamesDiffer
<1>8. \A i \in DOMAIN w : w[i].name # Meta
  BY <1>7 DEF StepsOf
<1>9. After(w, u, d)
  BY <1>6, <1>7, <1>8 DEF After, Writes
<1> QED
  BY <1>7, <1>9 DEF w

\* The log may be written once the shards of the repacking are there.
LogOk(x, u, ids) ==
  /\ After(<<x>>, u, disk) /\ StepsOf(<<x>>) = {x} /\ x.name = Jsonl
  /\ \A r \in Places : Has(r, x.name, x.contents) =>
       HasWritten(r, disk) \/ Repacked(r, ids, FreshSeq)

LEMMA LogAfter ==
  ASSUME ScInv, Quiet(disk), NEW old \in Seq(Places),
         \A i \in DOMAIN old : HasWritten(old[i], disk),
         NEW ids \in Seq(ScIds), NEW w, WritesOk(w, ids, FreshSeq),
         NEW log, log = old \o LinesOf(ids, FreshSeq),
         NEW x \in {WriteStep(Jsonl, log), ReplaceStep(Jsonl, log)}
  PROVE  LogOk(x, StepsOf(w), ids)
<1> DEFINE l == LinesOf(ids, FreshSeq)
           u == StepsOf(w)
<1>1. FreshSeq \in Nat
  BY FreshIs
<1>2. LinesOk(l, ids, FreshSeq)
  BY <1>1, LinesOfIs
<1> HIDE DEF l
<1>3. /\ l \in Seq(Places)
      /\ \A k \in DOMAIN l : /\ Repacked(l[k], ids, FreshSeq)
                             /\ (l[k].seq - FreshSeq) \in Nat
                             /\ (l[k].seq - FreshSeq) * ShardCap < Len(ids)
  BY <1>2 DEF LinesOk
<1>4. log = old \o l
  BY DEF l
<1>5. /\ log \in Seq(Places)
      /\ \A k \in DOMAIN log : \/ \E i \in DOMAIN old : log[k] = old[i]
                               \/ \E i \in DOMAIN l : log[k] = l[i]
  <2>1. /\ log \in Seq(Places) /\ Len(log) = Len(old) + Len(l)
        /\ \A i \in 1 .. Len(old) + Len(l) : log[i] = IF i <= Len(old) THEN old[i] ELSE l[i - Len(old)]
    BY <1>3, <1>4, ConcatProperties
  <2>2. PICK m \in Nat : m = Len(old)
    BY LenProperties
  <2>3. PICK n \in Nat : n = Len(l)
    BY <1>3, LenProperties
  <2>4. DOMAIN log = 1 .. m + n /\ DOMAIN old = 1 .. m /\ DOMAIN l = 1 .. n
    BY <1>3, <2>1, <2>2, <2>3, LenProperties
  <2>5. \A k \in 1 .. m + n : \/ k \in 1 .. m /\ log[k] = old[k]
                              \/ k - m \in 1 .. n /\ log[k] = l[k - m]
    BY <2>1, <2>2, <2>3
  <2> QED
    BY <2>1, <2>4, <2>5
<1>6. ASSUME NEW k \in DOMAIN log
      PROVE  /\ Backed(log[k].seq, u, disk)
             /\ HasWritten(log[k], disk) \/ Repacked(log[k], ids, FreshSeq)
  <2>1. ASSUME NEW i \in DOMAIN old, log[k] = old[i]
        PROVE  HasWritten(log[k], disk) /\ Burned(log[k].seq, disk)
    <3>1. old[i] \in Places
      OBVIOUS
    <3> QED
      BY <2>1, <3>1 DEF ScInv
  <2>2. ASSUME NEW i \in DOMAIN l, log[k] = l[i]
        PROVE  Repacked(log[k], ids, FreshSeq) /\ Backed(log[k].seq, u, disk)
    <3>1. PICK q \in Nat : q = l[i].seq - FreshSeq
      BY <1>3
    <3>2. q * ShardCap < Len(ids) /\ Repacked(l[i], ids, FreshSeq)
      BY <1>3, <3>1
    <3>3. PICK y \in u : y.do = "replace" /\ y.name = Shard(FreshSeq + q)
      BY <3>2 DEF WritesOk
    <3>4. l[i].seq \in Nat
      <4>1. l[i] \in Places
        BY <1>3
      <4> QED
        BY <4>1 DEF Places
    <3>5. FreshSeq + q \in Nat /\ l[i].seq <= FreshSeq + q
      BY <1>1, <3>1, <3>4
    <3> QED
      BY <2>2, <3>2, <3>3, <3>5 DEF Backed
  <2> QED
    BY <1>5, <2>1, <2>2 DEF Backed
<1>7. x.name = Jsonl /\ x.contents = log /\ x.do \in {"write", "replace"} /\ Jsonl \in Named
  BY NamesDiffer DEF WriteStep, ReplaceStep
<1>8. IsPlan(<<x>>) /\ StepsOf(<<x>>) = {x}
  BY <1>7, OneStep DEF Doings
<1>9. Fits(Jsonl, log)
  BY <1>5, NamesDiffer DEF Fits, ShardNames
<1>10. \A i, j \in DOMAIN <<x>> : i = j
  OBVIOUS
<1>11. After(<<x>>, u, disk)
  BY <1>6, <1>7, <1>8, <1>9, <1>10, NamesDiffer DEF After
<1>12. ASSUME NEW r \in Places, Has(r, x.name, x.contents)
       PROVE  HasWritten(r, disk) \/ Repacked(r, ids, FreshSeq)
  <2>1. r.seq \in Nat
    BY DEF Places
  <2>2. PICK k \in DOMAIN log : log[k] = r
    BY <1>7, <1>12, <2>1, NamesDiffer DEF Has
  <2> QED
    BY <1>6, <2>2
<1> QED
  BY <1>7, <1>8, <1>11, <1>12 DEF LogOk, u

\* What the plan of a new operation writes.
Started(w, ids) ==
  /\ Ready(w, disk)
  /\ \A r \in Places, x \in StepsOf(w) : Writes(x) /\ Has(r, x.name, x.contents) =>
       HasWritten(r, disk) \/ Repacked(r, ids, FreshSeq)

LEMMA StartKeeps ==
  ASSUME ScInv, session = "up", dirJob.steps = << >>,
         UNCHANGED <<disk, session, shownLines, shownBytes>>,
         JobShape(dirJob'), NEW ids, Started(dirJob.steps', ids)
  PROVE  ScInv'
<1> DEFINE w == dirJob.steps'
<1>1. Typed(disk) /\ \A x \in Named : Tmp(x) \notin DOMAIN disk
  BY DEF ScInv, Renames
<1>2. FreshSeq \in Nat /\ \A n \in Nat : Burned(n, disk) => n < FreshSeq
  BY <1>1, FreshIs DEF Quiet
<1>3. PlanOk(w, disk) /\ Renames(w, disk)
  <2>1. \A i \in DOMAIN w : w[i].do # "rename"
    BY DEF Started, Ready, StepsOf
  <2> QED
    BY <1>1, <2>1 DEF Started, Ready, Renames
<1>4. ASSUME NEW r \in Places, Known(r)
      PROVE  r.seq < FreshSeq
  <2>1. ~ Planned(r, << >>)
    BY DEF Planned
  <2>2. r \in shownLines \cup shownBytes \/ HasWritten(r, disk)
    BY <1>4, <2>1 DEF Known
  <2>3. r.seq \in Nat /\ Burned(r.seq, disk)
    BY <2>2 DEF ScInv, Places
  <2> QED
    BY <1>2, <2>3
<1>5. ASSUME NEW r \in Places, Known(r)'
      PROVE  Known(r) \/ Repacked(r, ids, FreshSeq)
  <2>1. Planned(r, w) => HasWritten(r, disk) \/ Repacked(r, ids, FreshSeq)
    BY PlannedIs DEF Started
  <2> QED
    BY <1>5, <2>1 DEF Known
<1>6. ASSUME NEW r \in Places, NEW s \in Places, Known(r)', Known(s)', SamePlace(r, s)
      PROVE  r.id = s.id
  <2>1. CASE Known(r) /\ Known(s)
    BY <1>6, <2>1 DEF ScInv
  <2>2. CASE Repacked(r, ids, FreshSeq) /\ Repacked(s, ids, FreshSeq)
    BY <1>6, <2>2 DEF Repacked, SamePlace
  <2>3. ASSUME NEW a \in Places, NEW b \in Places, Known(a), Repacked(b, ids, FreshSeq), SamePlace(a, b)
        PROVE  FALSE
    <3>1. a.seq < FreshSeq /\ FreshSeq <= a.seq /\ a.seq \in Nat
      BY <1>4, <2>3 DEF Repacked, SamePlace, Places
    <3> QED
      BY <1>2, <3>1
  <2>4. SamePlace(s, r)
    BY <1>6 DEF SamePlace
  <2> QED
    BY <1>5, <1>6, <2>1, <2>2, <2>3, <2>4
<1>7. \A r \in Places : (r \in shownLines \cup shownBytes \/ HasWritten(r, disk))' => Burned(r.seq, disk)'
  BY DEF ScInv
<1>8. /\ shownLines' \subseteq Places /\ shownBytes' \subseteq Places /\ Typed(disk')
      /\ session' = "up" /\ PlanOk(dirJob.steps', disk') /\ Renames(dirJob.steps', disk')
  BY <1>1, <1>3 DEF ScInv
<1> QED
  BY <1>6, <1>7, <1>8 DEF ScInv, SamePlace

LEMMA QuietWhenFree ==
  ASSUME ScInv, session = "up", dirJob.steps = << >>
  PROVE  Quiet(disk)
  BY DEF ScInv, Renames, Quiet

LEMMA JobIs ==
  ASSUME NEW op, op # "none", NEW w
  PROVE  JobShape(Job(op, w)) /\ Job(op, w).steps = w
  BY DEF Job, JobShape

\* A plan of one part, and a plan that goes on.
LEMMA StartsWith ==
  ASSUME NEW w, NEW ids, After(w, {}, disk),
         \A r \in Places, x \in StepsOf(w) : Writes(x) /\ Has(r, x.name, x.contents) =>
           HasWritten(r, disk) \/ Repacked(r, ids, FreshSeq)
  PROVE  Started(w, ids)
  BY FirstReady DEF Started

LEMMA GoesOn ==
  ASSUME NEW u, NEW v, NEW ids, Started(u, ids), After(v, StepsOf(u), disk),
         \A r \in Places, x \in StepsOf(v) : Writes(x) /\ Has(r, x.name, x.contents) =>
           HasWritten(r, disk) \/ Repacked(r, ids, FreshSeq)
  PROVE  Started(u \o v, ids) /\ StepsOf(u \o v) = StepsOf(u) \cup StepsOf(v)
<1>1. CatOk(u \o v, u, v, disk)
  BY CatReady DEF Started
<1> QED
  BY <1>1 DEF CatOk, Started

LEMMA MetaHasNone ==
  ASSUME NEW r \in Places, NEW x, x.name = Meta
  PROVE  ~ Has(r, x.name, x.contents)
<1>1. r.seq \in Nat
  BY DEF Places
<1> QED
  BY <1>1, NamesDiffer DEF Has

LEMMA AppendKeeps ==
  ASSUME ScInv, NEW ids \in Seq(ScIds), BulkAppend(ids)
  PROVE  ScInv'
<1> DEFINE F == FreshSeq
           w == WriteShards(Dense(ids, F))
           log == Lines \o LinesOf(ids, F)
<1>1. session = "up" /\ dirJob.steps = << >>
  BY DEF BulkAppend, MayStart, ScInv, JobShape
<1>2. Quiet(disk) /\ Typed(disk)
  BY <1>1, QuietWhenFree DEF ScInv
<1>3. F \in Nat /\ WritesOk(w, ids, F)
  BY <1>2, FreshIs, WritesAre
<1>4. PICK x \in {WriteStep(Jsonl, log), ReplaceStep(Jsonl, log)} :
        dirJob' = Job("append", w \o <<x>>)
  BY DEF BulkAppend
<1> HIDE DEF w
<1>5. LogOk(x, StepsOf(w), ids)
  BY <1>2, <1>3, LinesAre, LogAfter
<1>6. Started(w, ids)
  BY <1>3, WritesReady DEF Started
<1>7. Started(w \o <<x>>, ids)
  BY <1>5, <1>6, GoesOn DEF LogOk
<1>8. JobShape(dirJob') /\ dirJob'.steps = w \o <<x>>
  BY <1>4, JobIs
<1> QED
  BY <1>1, <1>7, <1>8, StartKeeps DEF BulkAppend

LEMMA MetaKeeps ==
  ASSUME ScInv, WriteDeviceMeta
  PROVE  ScInv'
<1> DEFINE x == ReplaceStep(Meta, SeqFloor)
<1>1. session = "up" /\ dirJob.steps = << >>
  BY DEF WriteDeviceMeta, MayStart, ScInv, JobShape
<1>2. SeqFloor \in Nat /\ SeqFloor = FloorOf(disk)
  BY <1>1, QuietWhenFree, FreshIs
<1>3. x.do = "replace" /\ x.name = Meta /\ x.contents = SeqFloor /\ Meta \in Named
  BY NamesDiffer DEF ReplaceStep
<1>4. dirJob' = Job("meta", <<x>>)
  BY DEF WriteDeviceMeta
<1> HIDE DEF x
<1>5. IsPlan(<<x>>) /\ StepsOf(<<x>>) = {x}
  BY <1>3, OneStep DEF Doings
<1>6. Fits(Meta, SeqFloor)
  BY <1>2, NamesDiffer DEF Fits, ShardNames
<1>7. \A i, j \in DOMAIN <<x>> : i = j
  OBVIOUS
<1>8. After(<<x>>, {}, disk)
  BY <1>2, <1>3, <1>5, <1>6, <1>7, NamesDiffer DEF After
<1>9. Started(<<x>>, << >>)
  BY <1>3, <1>5, <1>8, StartsWith, MetaHasNone
<1>10. JobShape(dirJob') /\ dirJob'.steps = <<x>>
  BY <1>4, JobIs
<1> QED
  BY <1>1, <1>9, <1>10, StartKeeps DEF WriteDeviceMeta

\* The floor passes a set of shards, and then they go.
DropsOk(w) == Started(w, << >>) /\ \A x \in StepsOf(w) : x.do = "remove" \/ x.name = Meta
LEMMA DropsAre ==
  ASSUME ScInv, Quiet(disk), NEW S \in SUBSET ShardSeqs, S # {}
  PROVE  DropsOk(RaiseFloor(Top(S) + 1) \o RemoveShards(S))
<1> DEFINE u == RaiseFloor(Top(S) + 1)
           v == RemoveShards(S)
<1>1. S \in SUBSET Nat /\ IsFiniteSet(S)
  BY ShardSeqsAre, FS_Subset DEF Quiet
<1>2. PICK t \in S : t = Top(S) /\ \A k \in S : k <= t
  BY <1>1, TopIs
<1>3. t + 1 \in Nat /\ \A n \in S : n \in Nat /\ n < t + 1
  BY <1>1, <1>2
<1>4. FloorOk(u, {}, t + 1)
  BY <1>2, <1>3, FloorAfter
<1> HIDE DEF u
<1>5. Started(u, << >>)
  BY <1>4, StartsWith, MetaHasNone DEF FloorOk
<1>6. \A n \in S : Passed(n, StepsOf(u), disk)
  BY <1>3, <1>4 DEF FloorOk
<1>7. After(v, StepsOf(u), disk) /\ \A x \in StepsOf(v) : x.do = "remove"
  BY <1>1, <1>6, RemovesAfter
<1> HIDE DEF v
<1>8. Started(u \o v, << >>) /\ StepsOf(u \o v) = StepsOf(u) \cup StepsOf(v)
  BY <1>5, <1>7, GoesOn DEF Writes
<1> QED
  BY <1>4, <1>7, <1>8 DEF DropsOk, FloorOk, u, v

LEMMA NothingDropped == DropsOk(<< >>)
<1>1. StepsOf(<< >>) = {}
  BY DEF StepsOf
<1> QED
  BY <1>1, NoPlan DEF DropsOk, Started, Ready

LEMMA ReclaimKeeps ==
  ASSUME ScInv, CompactReclaim
  PROVE  ScInv'
<1>1. session = "up" /\ dirJob.steps = << >>
  BY DEF CompactReclaim, MayStart, ScInv, JobShape
<1>2. Quiet(disk)
  BY <1>1, QuietWhenFree
<1> DEFINE loose == ShardSeqs \ {l.seq : l \in ToSet(Lines)}
           w == IF loose = {} THEN << >> ELSE RaiseFloor(Top(loose) + 1) \o RemoveShards(loose)
<1>3. dirJob' = Job("reclaim", w)
  BY DEF CompactReclaim
<1>4. loose \in SUBSET ShardSeqs
  OBVIOUS
<1> HIDE DEF loose
<1>5. DropsOk(w)
  BY <1>2, <1>4, DropsAre, NothingDropped
<1> HIDE DEF w
<1>6. JobShape(dirJob') /\ dirJob'.steps = w
  BY <1>3, JobIs
<1> QED
  BY <1>1, <1>5, <1>6, StartKeeps DEF CompactReclaim, DropsOk

LEMMA ClearKeeps ==
  ASSUME ScInv, ClearDevice
  PROVE  ScInv'
<1>1. session = "up" /\ dirJob.steps = << >>
  BY DEF ClearDevice, MayStart, ScInv, JobShape
<1>2. Quiet(disk)
  BY <1>1, QuietWhenFree
<1> DEFINE S == ShardSeqs
           x == RemoveStep(Jsonl)
           w == (IF S = {} THEN << >> ELSE RaiseFloor(Top(S) + 1)) \o RemoveShards(S)
<1>3. dirJob' = Job("clear", w \o <<x>>)
  BY DEF ClearDevice
<1>4. x.do = "remove" /\ x.name = Jsonl /\ Jsonl \in Named
  BY NamesDiffer DEF RemoveStep
<1> HIDE DEF x
<1>5. DropsOk(w)
  <2>1. CASE S # {}
    BY <1>2, <2>1, DropsAre
  <2>2. CASE S = {}
    <3>1. Cardinality(S) = 0 /\ 1 .. 0 = {}
      BY <2>2, FS_EmptySet
    <3>2. RemoveShards(S) = << >>
      BY <3>1 DEF RemoveShards
    <3>3. w = << >>
      BY <2>2, <3>2
    <3> QED
      BY <3>3, NothingDropped
  <2> QED
    BY <2>1, <2>2
<1> HIDE DEF w
<1>6. IsPlan(<<x>>) /\ StepsOf(<<x>>) = {x}
  BY <1>4, OneStep DEF Doings
<1>7. After(<<x>>, StepsOf(w), disk)
  BY <1>4, <1>6, NamesDiffer DEF After, Writes
<1>8. Started(w \o <<x>>, << >>)
  BY <1>4, <1>5, <1>6, <1>7, GoesOn DEF DropsOk, Writes
<1>9. JobShape(dirJob') /\ dirJob'.steps = w \o <<x>>
  BY <1>3, JobIs
<1> QED
  BY <1>1, <1>8, <1>9, StartKeeps DEF ClearDevice

\* The lines of the log with their places: each place has one id.
LEMMA LogLinesAre ==
  ASSUME ScInv, NEW T \in SUBSET ToSet(Lines)
  PROVE  /\ InPlace(T) \in Seq(Places)
         /\ \A i \in DOMAIN InPlace(T) : InPlace(T)[i] \in T /\ HasWritten(InPlace(T)[i], disk)
<1>1. /\ IsFiniteSet(ToSet(Lines)) /\ ToSet(Lines) \subseteq Places
      /\ \A i \in DOMAIN Lines : HasWritten(Lines[i], disk)
  BY LinesAre DEF ScInv
<1>2. \A r \in T : r \in Places /\ HasWritten(r, disk)
  BY <1>1 DEF ToSet
<1>3. \A r, s \in T : SamePlace(r, s) => r.id = s.id
  BY <1>2 DEF ScInv, Known
<1>4. T \in SUBSET Places /\ IsFiniteSet(T)
  BY <1>1, <1>2, FS_Subset
<1>5. InPlace(T) \in Seq(T)
  BY <1>3, <1>4, InPlaceIs
<1> DEFINE p == InPlace(T)
<1> HIDE DEF p
<1>6. p \in Seq(T)
  BY <1>5 DEF p
<1>7. \A i \in DOMAIN p : p[i] \in T
  BY <1>6
<1>8. p \in Seq(Places)
  BY <1>4, <1>6
<1> QED
  BY <1>2, <1>7, <1>8 DEF p

LEMMA RewriteStarts ==
  ASSUME ScInv, Quiet(disk), NEW op, op # "none",
         NEW moved \in SUBSET ToSet(Lines), NEW kept \in SUBSET ToSet(Lines),
         NEW retired \in SUBSET ShardSeqs
  PROVE  /\ JobShape(Rewrite(op, moved, kept, retired))
         /\ \E ids : Started(Rewrite(op, moved, kept, retired).steps, ids)
<1> DEFINE F == FreshSeq
           byPlace == InPlace(moved)
           ids == [i \in 1 .. Len(byPlace) |-> byPlace[i].id]
           dest == Dense(ids, F)
           w == WriteShards(dest)
           log == InPlace(kept) \o LinesOf(ids, F)
           x == ReplaceStep(Jsonl, log)
           f == RaiseFloor(F + Len(dest))
           v == RemoveShards(retired)
<1>1. Rewrite(op, moved, kept, retired) = Job(op, ((w \o <<x>>) \o f) \o v)
  BY DEF Rewrite
<1>2. ids \in Seq(ScIds)
  <2>1. byPlace \in Seq(Places)
    BY LogLinesAre
  <2> HIDE DEF byPlace
  <2>2. PICK n \in Nat : n = Len(byPlace)
    BY <2>1, LenProperties
  <2>3. \A i \in 1 .. n : byPlace[i] \in Places
    BY <2>1, <2>2, ElementOfSeq
  <2>4. [i \in 1 .. n |-> byPlace[i].id] \in [1 .. n -> ScIds]
    BY <2>3 DEF Places
  <2>5. [i \in 1 .. n |-> byPlace[i].id] \in Seq(ScIds)
    BY <2>4
  <2> QED
    BY <2>2, <2>5
<1> HIDE DEF ids
<1>3. F \in Nat /\ WritesOk(w, ids, F) /\ Len(dest) \in Nat
  BY <1>2, FreshIs, WritesAre
<1>4. LogOk(x, StepsOf(w), ids)
  <2>1. /\ InPlace(kept) \in Seq(Places)
        /\ \A i \in DOMAIN InPlace(kept) : HasWritten(InPlace(kept)[i], disk)
    BY LogLinesAre
  <2> DEFINE old == InPlace(kept)
  <2> HIDE DEF old
  <2>2. old \in Seq(Places) /\ \A i \in DOMAIN old : HasWritten(old[i], disk)
    BY <2>1 DEF old
  <2>3. log = old \o LinesOf(ids, F)
    BY DEF old
  <2> HIDE DEF w, log
  <2> QED
    BY <1>2, <1>3, <2>2, <2>3, LogAfter
<1> HIDE DEF w, x, dest
<1>5. Started(w, ids) /\ \A y \in StepsOf(w) : y.name # Meta
  BY <1>3, WritesReady DEF Started
<1> DEFINE wx == w \o <<x>>
<1>6. Started(wx, ids) /\ StepsOf(wx) = StepsOf(w) \cup StepsOf(<<x>>)
  BY <1>4, <1>5, GoesOn DEF LogOk
<1>7. \A y \in StepsOf(wx) : y.name # Meta
  BY <1>4, <1>5, <1>6, NamesDiffer DEF LogOk
<1> HIDE DEF wx
<1>8. PICK m \in Nat : m = F + Len(dest) /\ F <= m
  BY <1>3
<1>9. FloorOk(f, StepsOf(wx), m)
  BY <1>7, <1>8, FloorAfter
<1> HIDE DEF f
<1> DEFINE wxf == wx \o f
<1>10. Started(wxf, ids) /\ StepsOf(wxf) = StepsOf(wx) \cup StepsOf(f)
  BY <1>6, <1>9, GoesOn, MetaHasNone DEF FloorOk
<1> HIDE DEF wxf
<1>11. retired \in SUBSET Nat /\ IsFiniteSet(retired) /\ \A n \in retired : n < F
  BY ShardSeqsAre, FreshIs, FS_Subset DEF Quiet
<1>12. \A n \in retired : Passed(n, StepsOf(wxf), disk)
  <2> SUFFICES ASSUME NEW n \in retired  PROVE Passed(n, StepsOf(wxf), disk)
    OBVIOUS
  <2>1. n \in Nat /\ n < F
    BY <1>11
  <2>2. n < m
    BY <1>3, <1>8, <2>1
  <2>3. Passed(n, StepsOf(f), disk)
    BY <1>9, <2>1, <2>2 DEF FloorOk
  <2> QED
    BY <1>10, <2>3 DEF Passed
<1>13. After(v, StepsOf(wxf), disk) /\ \A y \in StepsOf(v) : y.do = "remove"
  BY <1>11, <1>12, RemovesAfter
<1> HIDE DEF v
<1>14. Started(wxf \o v, ids)
  BY <1>10, <1>13, GoesOn DEF Writes
<1>15. Rewrite(op, moved, kept, retired) = Job(op, wxf \o v)
  BY <1>1 DEF wxf, wx
<1> QED
  BY <1>14, <1>15, JobIs

LEMMA CoalesceKeeps ==
  ASSUME ScInv, CoalesceSmallShards
  PROVE  ScInv'
<1>1. session = "up" /\ dirJob.steps = << >>
  BY DEF CoalesceSmallShards, MayStart, ScInv, JobShape
<1>2. Quiet(disk)
  BY <1>1, QuietWhenFree
<1> DEFINE small == {n \in ShardSeqs : Len(disk[Shard(n)]) < SmallShard}
           moved == {l \in Scan(Lines) : l.seq \in small}
           some == {l \in moved : Readable(disk, l)}
           kept == Scan(Lines) \ moved
<1>3. dirJob' = Rewrite("coalesce", some, kept, small)
  BY DEF CoalesceSmallShards
<1>4. some \in SUBSET ToSet(Lines) /\ kept \in SUBSET ToSet(Lines) /\ small \in SUBSET ShardSeqs
  BY DEF Scan
<1> HIDE DEF small, some, kept
<1>5. JobShape(dirJob') /\ \E ids : Started(dirJob'.steps, ids)
  BY <1>2, <1>3, <1>4, RewriteStarts
<1> QED
  BY <1>1, <1>5, StartKeeps DEF CoalesceSmallShards

LEMMA EndKeeps ==
  ASSUME ScInv, dirJob' = NoJob, session = "up", session' \in {"up", "down"}, dirJob.steps = << >> \/ session' = "down",
         UNCHANGED <<disk, shownLines, shownBytes>>
  PROVE  ScInv'
<1>1. JobShape(dirJob') /\ dirJob'.steps = << >>
  BY DEF NoJob, JobShape
<1>2. PlanOk(<< >>, disk)
  BY NoPlan
<1>3. session' = "up" => Renames(<< >>, disk)
  BY DEF ScInv
<1>4. \A r : ~ Planned(r, << >>)
  BY DEF Planned
<1> QED
  BY <1>1, <1>2, <1>3, <1>4, NothingNew DEF ScInv

LEMMA CompactKeeps ==
  ASSUME ScInv, NEW live, NEW complete, CompactRewrite(live, complete)
  PROVE  ScInv'
<1>1. session = "up" /\ dirJob.steps = << >>
      /\ UNCHANGED <<disk, trouble, session, shownLines, shownBytes>>
  BY DEF CompactRewrite
<1>2. Quiet(disk)
  BY <1>1, QuietWhenFree
<1> DEFINE kept == {l \in Scan(Lines) : l.id \in live}
           some == {l \in kept : Readable(disk, l)}
           R == Rewrite("compact", some, {}, ShardSeqs)
<1>3. dirJob' = [R EXCEPT !.keep = live] \/ dirJob' = NoJob
  BY DEF CompactRewrite
<1>4. CASE dirJob' = NoJob
  BY <1>1, <1>4, EndKeeps
<1>5. CASE dirJob' = [R EXCEPT !.keep = live]
  <2>1. some \in SUBSET ToSet(Lines)
    BY DEF Scan
  <2> HIDE DEF some
  <2>2. JobShape(R) /\ \E ids : Started(R.steps, ids)
    BY <1>2, <2>1, RewriteStarts
  <2> HIDE DEF R
  <2>3. JobShape(dirJob') /\ dirJob'.steps = R.steps
    BY <1>5, <2>2 DEF JobShape
  <2> QED
    BY <1>1, <2>2, <2>3, StartKeeps
<1> QED
  BY <1>3, <1>4, <1>5

-----------------------------------------------------------------------------
(* No peer reads another chunk's vector (src/src/sidecar/sidecar.ts).       *)

LEMMA ScInvInit ==
  ASSUME ScInit
  PROVE  ScInv
<1>1. /\ dirJob = NoJob /\ disk = << >> /\ DOMAIN disk = {} /\ session = "up"
      /\ shownLines = {} /\ shownBytes = {}
  BY DEF ScInit
<1>2. JobShape(dirJob) /\ dirJob.steps = << >>
  BY <1>1 DEF NoJob, JobShape
<1>3. Typed(disk)
  BY <1>1, FS_EmptySet DEF Typed
<1>4. PlanOk(dirJob.steps, disk) /\ Renames(dirJob.steps, disk)
  BY <1>1, <1>2, NoPlan DEF Renames
<1>5. \A r \in Places : ~ Known(r) /\ ~ HasWritten(r, disk)
  BY <1>1, <1>2 DEF Known, HasWritten, Planned
<1> QED
  BY <1>1, <1>2, <1>3, <1>4, <1>5 DEF ScInv

ScIInv == trouble = "crash" => ScInv

LEMMA BatchesAre == \A ids \in Batches : ids \in Seq(ScIds)
<1> SUFFICES ASSUME NEW n \in 1 .. ShardCap + 1, NEW ids \in [1 .. n -> ScIds]
             PROVE  ids \in Seq(ScIds)
  BY DEF Batches
<1>1. n \in Nat
  OBVIOUS
<1> QED
  BY <1>1

LEMMA ScIInvNext ==
  ASSUME ScIInv, [ScNext]_scVars
  PROVE  ScIInv'
<1> SUFFICES ASSUME trouble' = "crash"  PROVE ScInv'
  BY DEF ScIInv
<1>0. trouble = "crash" /\ ScInv
  BY DEF ScIInv, ScNext, scVars, BulkAppend, WriteDeviceMeta, ClearDevice, CompactReclaim,
         CompactRewrite, CoalesceSmallShards, FileStep, Release, Crash, SweepOrphanTmp
<1>1. ASSUME NEW ids \in Batches, BulkAppend(ids)  PROVE ScInv'
  BY <1>0, <1>1, BatchesAre, AppendKeeps
<1>2. CASE WriteDeviceMeta
  BY <1>0, <1>2, MetaKeeps
<1>3. CASE ClearDevice
  BY <1>0, <1>3, ClearKeeps
<1>4. CASE CompactReclaim
  BY <1>0, <1>4, ReclaimKeeps
<1>5. ASSUME NEW live, NEW complete, CompactRewrite(live, complete)  PROVE ScInv'
  BY <1>0, <1>5, CompactKeeps
<1>6. CASE CoalesceSmallShards
  BY <1>0, <1>6, CoalesceKeeps
<1>7. CASE FileStep
  BY <1>0, <1>7, FileStepKeeps
<1>8. CASE Release
  BY <1>0, <1>8, EndKeeps DEF Release
<1>9. CASE Crash
  BY <1>0, <1>9, EndKeeps DEF Crash
<1>10. CASE SweepOrphanTmp
  BY <1>0, <1>10, SweepKeeps
<1>11. CASE UNCHANGED scVars
  <2>1. UNCHANGED <<disk, dirJob, session, shownLines, shownBytes>>
    BY <1>11 DEF scVars
  <2> QED
    BY <1>0, <2>1 DEF ScInv, Known
<1> QED
  BY <1>1, <1>2, <1>3, <1>4, <1>5, <1>6, <1>7, <1>8, <1>9, <1>10, <1>11 DEF ScNext

\* While no file operation fails for good, a line never points at a record of
\* another id, whatever mixture of the versions of the files a peer holds: a seq
\* is never given to a second shard, over any number of operations, crashes,
\* sweeps, ids and shards.
THEOREM NoVectorMisread == ScSpec => []ScNeverMisread
<1>1. ScInit => ScIInv
  BY ScInvInit DEF ScIInv
<1>2. ScIInv /\ [ScNext]_scVars => ScIInv'
  BY ScIInvNext
<1>3. ScIInv => ScNeverMisread
  <2> SUFFICES ASSUME ScInv, NEW l \in shownLines, NEW b \in shownBytes, l.seq = b.seq, l.off = b.off
               PROVE  l.id = b.id
    BY DEF ScIInv, ScNeverMisread
  <2>1. l \in Places /\ b \in Places /\ Known(l) /\ Known(b) /\ SamePlace(l, b)
    BY DEF ScInv, Known, SamePlace
  <2> QED
    BY <2>1 DEF ScInv
<1> QED
  BY <1>1, <1>2, <1>3, PTL DEF ScSpec
=============================================================================
