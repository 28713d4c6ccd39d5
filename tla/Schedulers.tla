----------------------------- MODULE Schedulers -----------------------------
(***************************************************************************)
(* When the index follows the vault: the queues of edited and deleted      *)
(* notes, their two debounce timers and the flush they start               *)
(* (app/plugin-schedulers.ts), the catch-up drain that does what a flush   *)
(* put off (main.ts runCatchUp, index/catchup.ts), and the searches that   *)
(* both give way to.                                                       *)
(*                                                                         *)
(* A note's content is the number of the change that wrote it, which is    *)
(* its mtime as well; 0 is a note that is not there.  A delta (search.ts   *)
(* reindexDelta) is a "pass": it waits for the write mutex, drops the      *)
(* deleted notes, and then copies or embeds the dirty ones one by one.     *)
(* Not here: mass-delete deferral, quarantined files, the peer-ahead       *)
(* pause, and full reindexes (IndexCoordinator, EmbedPipeline).            *)
(***************************************************************************)
EXTENDS Naturals, FiniteSets

CONSTANTS
  SdNotes,      \* note paths
  NoSdNote,     \* no note
  SdChanges,    \* bound on the changes of the vault and of its exclusions
  SdSessions,   \* bound on the searches
  SdDevices,    \* the devices to start on: [mobile, saver, mayEmbed, sidecar, faults]
  SdBurst,      \* catchUpBurstMaxFiles
  SdBulk        \* BULK_DELTA_THRESHOLD

ASSUME SdAssumption ==
  /\ SdChanges \in Nat /\ SdSessions \in Nat /\ SdBulk \in Nat /\ SdBurst \in Nat \ {0}
  /\ SdDevices # {} /\ NoSdNote \notin SdNotes
  /\ \A d \in SdDevices :
       /\ d.mobile \in BOOLEAN /\ d.saver \in BOOLEAN /\ d.mayEmbed \in BOOLEAN
       /\ d.sidecar \in BOOLEAN /\ d.faults \subseteq {"read", "load", "delta"}

SdPasses == {"flush", "catchup"}

VARIABLES
  device,      \* the platform, the energy saver, what the fleet lets this device embed,
               \* whether a peer's sidecar may hold its notes, and what may throw
  changes,     \* number of changes so far: the vault's clock
  vault,       \* the content, and mtime, of every note
  excluded,    \* the notes the settings exclude now
  excludedAt,  \* lastExcludedPaths: what the watcher saw last
  aligning,    \* exclusionAligning
  record,      \* FileRecord: the mtime recorded and the content really indexed
  activeNote,  \* the note in the editor
  queue,       \* dirtyQueue, deletedQueue, idleTimer, structTimer
  pass,        \* the delta of each of the two, and where it is
  snap,        \* dirtyMtimes of the flush
  sdWriter,    \* which pass holds the write mutex
  drain,       \* drainCatchUp: its place, work-list, last sweep and what it committed
  pending,     \* catchUpPending
  kicks,       \* scheduleStartupCatchUp under way, and the 15 s retry timer
  modelReady,  \* embedder.loaded
  search,      \* searchActive, queryInFlightCount and how many searches there were
  past         \* history: the notes that another was renamed onto while they were read,
               \* and those whose record a delta dropped when nothing would come for them

vaultVars == <<changes, vault, excluded, activeNote>>
userVars  == <<vaultVars, search, device>>
indexVars == <<record, sdWriter, past>>
sdVars    == <<userVars, indexVars, excludedAt, aligning, queue, pass, snap, drain, pending,
               kicks, modelReady>>

NoRecord == [mtime |-> 0, content |-> 0]
PassIdle == [at |-> "idle", dirty |-> {}, deleted |-> {}, embed |-> FALSE, todo |-> {},
             got |-> {}, note |-> NoSdNote, mtime |-> 0, content |-> 0]
DrainOff == [at |-> "off", remaining |-> {}, deletes |-> {}, swept |-> <<>>, progressed |-> FALSE]

(***************************************************************************)
(* Predicates of the host                                                  *)
(***************************************************************************)
IndexingBlocked == search.session \/ search.query
PauseBackgroundGpu == device.mobile \/ device.saver
FlushRunning == pass["flush"].at # "idle"
CatchUpRunning == drain.at # "off"
LiveNotes == {n \in SdNotes : vault[n] > 0 /\ n \notin excluded}
IndexedNotes == {n \in SdNotes : record[n] # NoRecord}
CoverageIncomplete == Cardinality(IndexedNotes) < Cardinality({n \in SdNotes : vault[n] > 0})

\* resolveConsumerCatchUpKind: phones and hydrate-only devices copy, and never embed.
AllowEmbed == ~device.mobile /\ device.mayEmbed

ScheduleFlush(q)       == [q EXCEPT !.idle = TRUE]
FlushStructuralSoon(q) == [q EXCEPT !.struct = TRUE]
HasDeferredWork == queue.dirty # {} \/ queue.deleted # {} \/ queue.idle \/ queue.struct

\* The model is cold.  One note is there, the others are to come; it is indexed, or it
\* was written while Seek was not running: reconcileOnLoad left it to the catch-up.
SdInit ==
  /\ device \in SdDevices
  /\ changes = 1
  /\ \E n \in SdNotes : vault = [m \in SdNotes |-> IF m = n THEN 1 ELSE 0]
  /\ excluded = {} /\ excludedAt = {} /\ aligning = FALSE
  /\ pending \in BOOLEAN
  /\ record = [n \in SdNotes |-> IF pending THEN NoRecord
                                ELSE [mtime |-> vault[n], content |-> vault[n]]]
  /\ activeNote = NoSdNote
  /\ queue = [dirty |-> {}, deleted |-> {}, idle |-> FALSE, struct |-> FALSE]
  /\ pass = [p \in SdPasses |-> PassIdle]
  /\ snap = [n \in SdNotes |-> 0]
  /\ sdWriter = "none"
  /\ drain = DrainOff
  /\ kicks = [startup |-> pending /\ ~PauseBackgroundGpu, retry |-> FALSE]
  /\ modelReady = FALSE
  /\ search = [session |-> FALSE, query |-> FALSE, count |-> 0]
  /\ past = [overtaken |-> {}, stripped |-> {}]

\* scheduleStartupCatchUp: a desktop without energy saver loads the model and drains.
ScheduleStartup(k, p) ==
  IF PauseBackgroundGpu \/ ~p THEN k ELSE [k EXCEPT !.startup = TRUE]

\* runCatchUp's guards: start the drain, load the model first, or do nothing.
CatchUpWouldRun(p, s) ==
  /\ p /\ ~CatchUpRunning
  /\ ~(s.session \/ s.query)
  /\ modelReady \/ ~AllowEmbed

CatchUpWouldLoad(p) ==
  p /\ ~CatchUpRunning /\ AllowEmbed /\ ~modelReady /\ ~device.saver

\* runCatchUp(), where catchUpPending is p and the search state is s.
RunCatchUp(p, s) ==
  /\ drain' = IF CatchUpWouldRun(p, s) THEN [DrainOff EXCEPT !.at = "diff"] ELSE drain
  /\ kicks' = IF CatchUpWouldLoad(p) THEN ScheduleStartup(kicks, p) ELSE kicks

-----------------------------------------------------------------------------
(***************************************************************************)
(* The vault and what it tells the queues                                  *)
(***************************************************************************)
\* enqueueIfDirty: a note is queued if its mtime is past its record's.
EnqueueIfDirty(n, q) ==
  IF n \in SdNotes /\ vault[n] > record[n].mtime
  THEN ScheduleFlush([q EXCEPT !.dirty = @ \cup {n}]) ELSE q

EditNote ==
  /\ changes < SdChanges
  /\ activeNote \in SdNotes /\ vault[activeNote] > 0
  /\ changes' = changes + 1
  /\ vault' = [vault EXCEPT ![activeNote] = changes + 1]
  /\ UNCHANGED <<excluded, activeNote, search, device, indexVars, excludedAt, aligning, queue, pass,
                 snap, drain, pending, kicks, modelReady>>

\* active-leaf-change: the note the user leaves is the one to index.
LeaveNote ==
  /\ \E n \in {m \in SdNotes : vault[m] > 0} \cup {NoSdNote} :
       n # activeNote /\ activeNote' = n
  /\ queue' \in {EnqueueIfDirty(activeNote, queue)}
                  \cup (IF "read" \in device.faults THEN {queue} ELSE {})
  /\ UNCHANGED <<changes, vault, excluded, search, device, indexVars, excludedAt, aligning, pass,
                 snap, drain, pending, kicks, modelReady>>

CreateNote ==
  /\ changes < SdChanges
  /\ \E n \in SdNotes :
       /\ vault[n] = 0
       /\ vault' = [vault EXCEPT ![n] = changes + 1]
       /\ queue' = ScheduleFlush([queue EXCEPT !.dirty = @ \cup {n}])
  /\ changes' = changes + 1
  /\ UNCHANGED <<excluded, activeNote, search, device, indexVars, excludedAt, aligning, pass, snap,
                 drain, pending, kicks, modelReady>>

Dropped(n, q) == [q EXCEPT !.deleted = @ \cup {n}, !.dirty = @ \ {n}]

DeleteNote ==
  /\ changes < SdChanges
  /\ \E n \in SdNotes :
       /\ vault[n] > 0
       /\ vault' = [vault EXCEPT ![n] = 0]
       /\ queue' = FlushStructuralSoon(Dropped(n, queue))
       /\ activeNote' = IF activeNote = n THEN NoSdNote ELSE activeNote
  /\ changes' = changes + 1
  /\ UNCHANGED <<excluded, search, device, indexVars, excludedAt, aligning, pass, snap, drain,
                 pending, kicks, modelReady>>

\* A rename keeps the content and the mtime: drop the old path, index the new one.
RenameNote ==
  /\ changes < SdChanges
  /\ \E n \in SdNotes, m \in SdNotes :
       /\ vault[n] > 0 /\ vault[m] = 0
       /\ vault' = [vault EXCEPT ![m] = vault[n], ![n] = 0]
       /\ queue' = FlushStructuralSoon([Dropped(n, queue) EXCEPT !.dirty = @ \cup {m}])
       /\ activeNote' = IF activeNote = n THEN m ELSE activeNote
       /\ past' = [past EXCEPT !.overtaken = @ \cup
                     {r \in {m} : \E p \in SdPasses : pass[p].at = "reads" /\ pass[p].note = r}]
  /\ changes' = changes + 1
  /\ UNCHANGED <<excluded, search, device, record, sdWriter, excludedAt, aligning, pass, snap,
                 drain, pending, kicks, modelReady>>

\* The user excludes a note's folder, or includes it again.
ChangeExclusions ==
  /\ changes < SdChanges
  /\ \E n \in SdNotes : excluded' = IF n \in excluded THEN excluded \ {n} ELSE excluded \cup {n}
  /\ changes' = changes + 1
  /\ UNCHANGED <<vault, activeNote, search, device, indexVars, excludedAt, aligning, queue, pass,
                 snap, drain, pending, kicks, modelReady>>

\* pollExclusionChanges and driveExclusionBackfill; Settings poll with force, at any time.
PollExclusions ==
  /\ excluded # excludedAt
  /\ excludedAt' = excluded
  /\ aligning' = TRUE
  /\ pending' = TRUE
  /\ kicks' = ScheduleStartup(kicks, TRUE)
  /\ UNCHANGED <<userVars, indexVars, queue, pass, snap, drain, modelReady>>

-----------------------------------------------------------------------------
(***************************************************************************)
(* The flush                                                               *)
(***************************************************************************)
\* A cold phone, a cold desktop with a bulk of changes and a cold energy saver put the embed off.
DefersEmbed(q) ==
  ~modelReady /\ (device.mobile \/ device.saver \/ Cardinality(q.dirty) > SdBulk)

\* A timer that fires during a flush is armed again for what that flush has not seen.
NoRearm(q) == q
Rearm(q) ==
  IF (q.dirty # {} \/ q.deleted # {}) /\ ~q.idle /\ ~q.struct THEN ScheduleFlush(q) ELSE q

\* flushDirty with the queue q: the snapshot, and the model if it is needed.
FlushDirty(q) ==
  IF FlushRunning
  THEN queue' = Rearm(q) /\ UNCHANGED <<pass, snap>>
  ELSE IF q.dirty = {} /\ q.deleted = {}
  THEN queue' = q /\ UNCHANGED <<pass, snap>>
  ELSE /\ queue' = q
       /\ snap' = vault
       /\ pass' = [pass EXCEPT !["flush"] =
                     [PassIdle EXCEPT !.at = IF DefersEmbed(q) THEN "waits" ELSE "loads",
                                      !.dirty = q.dirty, !.deleted = q.deleted,
                                      !.embed = ~DefersEmbed(q)]]

IdleFires ==
  /\ queue.idle
  /\ FlushDirty([queue EXCEPT !.idle = FALSE])
  /\ UNCHANGED <<userVars, indexVars, excludedAt, aligning, drain, pending, kicks, modelReady>>

StructFires ==
  /\ queue.struct
  /\ FlushDirty([queue EXCEPT !.struct = FALSE])
  /\ UNCHANGED <<userVars, indexVars, excludedAt, aligning, drain, pending, kicks, modelReady>>

\* flushOnBackground: the note in the editor is captured, and flushed unless power is saved.
Blur ==
  /\ LET q == EnqueueIfDirty(activeNote, queue)
     IN  IF device.saver THEN queue' = q /\ UNCHANGED <<pass, snap>>
         ELSE FlushDirty(q)
  /\ UNCHANGED <<userVars, indexVars, excludedAt, aligning, drain, pending, kicks, modelReady>>

\* A flush that throws leaves its queues as they are, and no timer.
FlushThrows ==
  /\ pass' = [pass EXCEPT !["flush"] = PassIdle]
  /\ UNCHANGED <<queue, snap, drain, pending, kicks>>

FlushLoads ==
  /\ pass["flush"].at = "loads"
  /\ \/ /\ modelReady' = TRUE
        /\ pass' = [pass EXCEPT !["flush"].at = "waits"]
        /\ UNCHANGED <<queue, snap, drain, pending, kicks>>
     \/ /\ "load" \in device.faults /\ ~modelReady
        /\ FlushThrows
        /\ UNCHANGED modelReady
  /\ UNCHANGED <<userVars, indexVars, excludedAt, aligning>>

\* What the flush leaves for the drain: a bulk always, a note if the gate is shut now.
LeftForCatchUp(f) ==
  \/ Cardinality(f.dirty) > SdBulk
  \/ (~f.embed \/ IndexingBlocked) /\ f.dirty # {}

FlushEnds ==
  /\ pass["flush"].at = "ended"
  /\ LET f == pass["flush"]
         p == pending \/ LeftForCatchUp(f)
     IN  /\ pending' = p
         /\ RunCatchUp(p, search)
         /\ queue' = [queue EXCEPT !.deleted = @ \ f.deleted,
                                   !.dirty = @ \ {n \in f.dirty : vault[n] = snap[n]}]
  /\ pass' = [pass EXCEPT !["flush"] = PassIdle]
  /\ UNCHANGED <<userVars, indexVars, excludedAt, aligning, snap, modelReady>>

-----------------------------------------------------------------------------
(***************************************************************************)
(* A delta under the write mutex                                           *)
(***************************************************************************)
\* shouldContinue of both passes: a search stops the embeds at the next file.
Preempted == IndexingBlocked

\* The burst: at most SdBurst of the dirty notes that are still there, the newest first.
BurstOf(p, dirty) ==
  LET live == {n \in dirty : n \in LiveNotes}
      Newer(n) == {m \in live : vault[m] > vault[n]}
  IN  IF p = "flush" THEN live ELSE {n \in live : Cardinality(Newer(n)) < SdBurst}

\* A queued note that something will bring to a flush, or that one has as it is now.
Awaited(n) ==
  \/ n = activeNote \/ queue.idle \/ queue.struct
  \/ n \in pass["flush"].dirty /\ vault[n] = snap[n]

\* Phase 1 drops the deleted notes; phase 2 embeds, copies from a peer, or puts all off.
DeltaStarts(p) ==
  /\ pass[p].at = "waits" /\ sdWriter = "none"
  /\ sdWriter' = p
  /\ record' = [n \in SdNotes |-> IF n \in pass[p].deleted THEN NoRecord ELSE record[n]]
  /\ past' = [past EXCEPT !.stripped = @ \cup
                {n \in pass[p].deleted \cap queue.dirty : ~Awaited(n)}]
  /\ LET todo == BurstOf(p, pass[p].dirty)
     IN  pass' = [pass EXCEPT ![p].todo = todo,
                              ![p].at = IF todo = {} THEN "done"
                                        ELSE IF device.sidecar THEN "copies"
                                        ELSE IF pass[p].embed THEN "embeds" ELSE "done"]
  /\ UNCHANGED <<userVars, excludedAt, aligning, queue, snap, drain, pending, kicks, modelReady>>

\* dedupViaSidecar, one note: it reads the content, counts its tokens and only then
\* takes the mtime; or no peer has the content and the note is left to the embedder.
CopyReads(p) ==
  /\ pass[p].at = "copies"
  /\ IF pass[p].todo \ pass[p].got = {}
     THEN pass' = [pass EXCEPT ![p].at = "done"]
     ELSE \E n \in pass[p].todo \ pass[p].got :
            \/ /\ n \in LiveNotes
               /\ pass' = [pass EXCEPT ![p].at = "copied", ![p].note = n, ![p].content = vault[n]]
            \/ pass' = [pass EXCEPT ![p].at = IF pass[p].embed THEN "embeds" ELSE "done"]
  /\ UNCHANGED <<userVars, indexVars, excludedAt, aligning, queue, snap, drain, pending, kicks,
                 modelReady>>

CopyCommits(p) ==
  /\ pass[p].at = "copied"
  /\ record' = [record EXCEPT ![pass[p].note] =
                  [mtime |-> vault[pass[p].note], content |-> pass[p].content]]
  /\ pass' = [pass EXCEPT ![p].at = "copies", ![p].got = @ \cup {pass[p].note}]
  /\ UNCHANGED <<userVars, sdWriter, past, excludedAt, aligning, queue, snap, drain, pending,
                 kicks, modelReady>>

\* The engine takes the mtime first, then awaits the read.  Between two files it stops
\* for a search; a catch-up burst also stops when its budget is spent.
EmbedStarts(p) ==
  /\ pass[p].at = "embeds"
  /\ \/ /\ Preempted \/ pass[p].todo \ pass[p].got = {} \/ (p = "catchup" /\ pass[p].got # {})
        /\ pass' = [pass EXCEPT ![p].at = "done"]
     \/ /\ ~Preempted
        /\ \E n \in pass[p].todo \ pass[p].got :
             pass' = [pass EXCEPT ![p].at = "reads", ![p].note = n, ![p].mtime = vault[n]]
  /\ UNCHANGED <<userVars, indexVars, excludedAt, aligning, queue, snap, drain, pending, kicks,
                 modelReady>>

\* A note that is gone is skipped, and stays out of what was committed.
EmbedReads(p) ==
  /\ pass[p].at = "reads"
  /\ LET n == pass[p].note
     IN  pass' = IF vault[n] = 0
                 THEN [pass EXCEPT ![p].at = "embeds", ![p].todo = @ \ {n}]
                 ELSE [pass EXCEPT ![p].at = "commits", ![p].content = vault[n]]
  /\ UNCHANGED <<userVars, indexVars, excludedAt, aligning, queue, snap, drain, pending, kicks,
                 modelReady>>

\* FileState.mtimeMs: the snapshot of the read, never the file's mtime at commit.
MtimeAtCommit(p) == vault[pass[p].note]
CommittedMtime(p) == pass[p].mtime

EmbedCommits(p) ==
  /\ pass[p].at = "commits"
  /\ record' = [record EXCEPT ![pass[p].note] =
                  [mtime |-> CommittedMtime(p), content |-> pass[p].content]]
  /\ pass' = [pass EXCEPT ![p].at = "embeds", ![p].got = @ \cup {pass[p].note}]
  /\ UNCHANGED <<userVars, sdWriter, past, excludedAt, aligning, queue, snap, drain, pending,
                 kicks, modelReady>>

DeltaEnds(p) ==
  /\ pass[p].at = "done"
  /\ sdWriter' = "none"
  /\ pass' = [pass EXCEPT ![p].at = "ended"]
  /\ UNCHANGED <<userVars, record, past, excludedAt, aligning, queue, snap, drain, pending,
                 kicks, modelReady>>

\* The delta throws part way: the mutex is released and the caller's catch runs.
FlushDeltaThrows ==
  /\ "delta" \in device.faults
  /\ sdWriter = "flush"
  /\ sdWriter' = "none"
  /\ FlushThrows
  /\ UNCHANGED <<userVars, record, past, excludedAt, aligning, modelReady>>

-----------------------------------------------------------------------------
(***************************************************************************)
(* The catch-up drain                                                      *)
(***************************************************************************)
\* runCatchUp's end: pending work is started again if this run got anywhere, and
\* after 15 s if the index still lacks notes; a drained index clears the banner.
CatchUpEnds(p, progressed) ==
  /\ pending' = p
  /\ drain' = DrainOff
  /\ aligning' = (aligning /\ p)
  /\ kicks' = IF ~p THEN kicks
              ELSE IF progressed THEN ScheduleStartup(kicks, TRUE)
              ELSE IF CoverageIncomplete THEN [kicks EXCEPT !.retry = TRUE]
              ELSE kicks

Dirty == {n \in LiveNotes : vault[n] > record[n].mtime}
Gone  == IndexedNotes \ LiveNotes

\* computeDelta takes the records and the live notes, and then awaits the reads of the
\* files whose mtime moved: what it returns may be old when the drain looks at it.
DrainDiffs ==
  /\ drain.at = "diff"
  /\ IF IndexingBlocked
     THEN CatchUpEnds(TRUE, drain.progressed)
     ELSE /\ drain' = [drain EXCEPT !.at = "diffing", !.remaining = Dirty, !.deletes = Gone]
          /\ UNCHANGED <<pending, aligning, kicks>>
  /\ UNCHANGED <<userVars, indexVars, excludedAt, queue, pass, snap, modelReady>>

DrainSweeps ==
  /\ drain.at = "diffing"
  /\ LET sweep == <<drain.remaining, drain.deletes>>
     IN  IF drain.remaining = {} /\ drain.deletes = {} THEN CatchUpEnds(FALSE, drain.progressed)
         ELSE IF sweep = drain.swept THEN CatchUpEnds(TRUE, drain.progressed)
         ELSE /\ drain' = [drain EXCEPT !.at = "burst", !.swept = sweep]
              /\ UNCHANGED <<pending, aligning, kicks>>
  /\ UNCHANGED <<userVars, indexVars, excludedAt, queue, pass, snap, modelReady>>

DrainBursts ==
  /\ drain.at = "burst"
  /\ IF IndexingBlocked
     THEN CatchUpEnds(TRUE, drain.progressed) /\ UNCHANGED pass
     ELSE /\ UNCHANGED <<pending, aligning, kicks>>
          /\ IF drain.remaining = {} /\ drain.deletes = {}
             THEN drain' = [drain EXCEPT !.at = "diff"] /\ UNCHANGED pass
             ELSE /\ drain' = [drain EXCEPT !.at = "delta"]
                  /\ pass' = [pass EXCEPT !["catchup"] =
                                [PassIdle EXCEPT !.at = "waits", !.dirty = drain.remaining,
                                                 !.deleted = drain.deletes,
                                                 !.embed = AllowEmbed /\ modelReady]]
  /\ UNCHANGED <<userVars, indexVars, excludedAt, queue, snap, modelReady>>

\* Only the notes really committed leave the work-list; a burst without one stops the drain,
\* and so does one that left notes to an embedder it could not run.
NoProgress(c) == c.dirty # {} /\ (c.got = {} \/ (~c.embed /\ c.todo \ c.got # {}))

BurstEnds ==
  /\ drain.at = "delta" /\ pass["catchup"].at = "ended"
  /\ LET c == pass["catchup"]
         progressed == drain.progressed \/ c.got # {}
     IN  IF NoProgress(c)
         THEN CatchUpEnds(TRUE, progressed)
         ELSE /\ drain' = [drain EXCEPT !.at = "burst", !.remaining = @ \ c.got, !.deletes = {},
                                        !.progressed = progressed]
              /\ UNCHANGED <<pending, aligning, kicks>>
  /\ pass' = [pass EXCEPT !["catchup"] = PassIdle]
  /\ UNCHANGED <<userVars, indexVars, excludedAt, queue, snap, modelReady>>

CatchUpThrows ==
  /\ "delta" \in device.faults
  /\ sdWriter = "catchup"
  /\ sdWriter' = "none"
  /\ pass' = [pass EXCEPT !["catchup"] = PassIdle]
  /\ CatchUpEnds(TRUE, drain.progressed)
  /\ UNCHANGED <<userVars, record, past, excludedAt, queue, snap, modelReady>>

\* scheduleStartupCatchUp: the model is loaded, unless the fleet lets this device only copy.
StartupRuns ==
  /\ kicks.startup
  /\ \/ /\ "load" \in device.faults \/ ~pending
        /\ kicks' = [kicks EXCEPT !.startup = FALSE]
        /\ UNCHANGED <<drain, modelReady>>
     \/ /\ pending
        /\ modelReady' = (modelReady \/ AllowEmbed)
        /\ kicks' = [kicks EXCEPT !.startup = FALSE]
        /\ drain' = IF ~CatchUpRunning /\ ~IndexingBlocked
                    THEN [DrainOff EXCEPT !.at = "diff"] ELSE drain
  /\ UNCHANGED <<userVars, indexVars, excludedAt, aligning, queue, pass, snap, pending>>

RetryFires ==
  /\ kicks.retry
  /\ kicks' = ScheduleStartup([kicks EXCEPT !.retry = FALSE], pending)
  /\ UNCHANGED <<userVars, indexVars, excludedAt, aligning, queue, pass, snap, drain, pending,
                 modelReady>>

-----------------------------------------------------------------------------
(***************************************************************************)
(* Searches, and the model's unloading                                     *)
(***************************************************************************)
\* onSearchActivity(true): the modal opens or a key is typed.
SessionStarts ==
  /\ search.count < SdSessions /\ ~search.session
  /\ search' = [search EXCEPT !.session = TRUE, !.count = @ + 1]
  /\ UNCHANGED <<vaultVars, device, indexVars, excludedAt, aligning, queue, pass, snap, drain,
                 pending, kicks, modelReady>>

SessionEnds ==
  /\ search.session
  /\ search' = [search EXCEPT !.session = FALSE]
  /\ RunCatchUp(pending, search')
  /\ UNCHANGED <<vaultVars, device, indexVars, excludedAt, aligning, queue, pass, snap, pending,
                 modelReady>>

\* A session older than 60 s is over, and nothing is told so.
SessionGoesStale ==
  /\ search.session
  /\ search' = [search EXCEPT !.session = FALSE]
  /\ UNCHANGED <<vaultVars, device, indexVars, excludedAt, aligning, queue, pass, snap, drain,
                 pending, kicks, modelReady>>

\* onQueryInFlight: a query embeds, so the model is loaded by the time it ends.
QueryStarts ==
  /\ search.count < SdSessions /\ ~search.query
  /\ search' = [search EXCEPT !.query = TRUE, !.count = @ + 1]
  /\ UNCHANGED <<vaultVars, device, indexVars, excludedAt, aligning, queue, pass, snap, drain,
                 pending, kicks, modelReady>>

QueryEnds ==
  /\ search.query
  /\ search' = [search EXCEPT !.query = FALSE]
  /\ modelReady' = TRUE
  /\ drain' = IF pending /\ ~CatchUpRunning /\ ~search.session
              THEN [DrainOff EXCEPT !.at = "diff"] ELSE drain
  /\ UNCHANGED <<vaultVars, device, indexVars, excludedAt, aligning, queue, pass, snap, pending,
                 kicks>>

\* maybeUnloadEmbedder("idle"): nothing may run or wait.
Unload ==
  /\ PauseBackgroundGpu /\ modelReady
  /\ ~IndexingBlocked /\ ~FlushRunning /\ ~CatchUpRunning /\ ~pending /\ ~HasDeferredWork
  /\ modelReady' = FALSE
  /\ UNCHANGED <<userVars, indexVars, excludedAt, aligning, queue, pass, snap, drain, pending,
                 kicks>>

-----------------------------------------------------------------------------
DeltaStep(p) ==
  \/ DeltaStarts(p) \/ CopyReads(p) \/ CopyCommits(p) \/ EmbedStarts(p) \/ EmbedReads(p)
  \/ EmbedCommits(p) \/ DeltaEnds(p)

DrainStep == DrainDiffs \/ DrainSweeps \/ DrainBursts \/ BurstEnds

FlushStep == FlushLoads \/ FlushEnds

SdNext ==
  \/ EditNote \/ LeaveNote \/ CreateNote \/ DeleteNote \/ RenameNote
  \/ ChangeExclusions \/ PollExclusions
  \/ IdleFires \/ StructFires \/ Blur \/ FlushStep
  \/ \E p \in SdPasses : DeltaStep(p)
  \/ FlushDeltaThrows \/ CatchUpThrows
  \/ DrainStep \/ StartupRuns \/ RetryFires
  \/ SessionStarts \/ SessionEnds \/ SessionGoesStale \/ QueryStarts \/ QueryEnds
  \/ Unload

SdSpec == SdInit /\ [][SdNext]_sdVars

\* The mutex is fair, and promises, loads and reads settle.
SdFairness ==
  /\ \A p \in SdPasses : SF_sdVars(DeltaStarts(p)) /\ WF_sdVars(DeltaStep(p))
  /\ WF_sdVars(DrainStep) /\ WF_sdVars(FlushStep)

SdFairSpec == SdSpec /\ SdFairness
-----------------------------------------------------------------------------
(***************************************************************************)
(* Properties                                                              *)
(***************************************************************************)
\* A file record never claims a newer mtime than the content that was indexed for it:
\* the delta compares mtimes only, so such a note would stay stale for good
\* (commitFile of search.ts; the copies of dedupViaSidecar take the mtime late).  Not so
\* when an older note is renamed onto the path between the two: its content is read for
\* the mtime of the note that was there.
SdRecordTrue ==
  ~device.sidecar =>
    \A n \in SdNotes \ past.overtaken : record[n].mtime <= record[n].content

\* A changed note in the dirty queue, or a path in the delete queue, has a timer or a
\* running flush to wait for; only the note in the editor may wait for its leaving.  A
\* flush that throws leaves its queues without one, and so does a note that is left in
\* the queue as up to date and whose record a delta with an old delete drops later.
SdTimerArmed ==
  device.faults = {} =>
    \A n \in ((queue.dirty \cap Dirty) \ past.stripped) \cup queue.deleted :
      n = activeNote \/ queue.idle \/ queue.struct \/ FlushRunning

\* A drain ends: each sweep gets through its list, and bails if it gets nowhere
\* ("Pure + terminating" in catchup.ts).
SdDrainEnds == CatchUpRunning ~> ~CatchUpRunning

\* No edit is forgotten: a note that is newer than its record is in the editor, queued,
\* being flushed, or left to a catch-up ("a preempted note ... stays dirty + pending").
SdEditHeld ==
  \A n \in Dirty :
    \/ n = activeNote \/ n \in queue.dirty \/ n \in pass["flush"].dirty
    \/ pending \/ CatchUpRunning \/ excluded # excludedAt

\* No ghost stays in the index: a record without a note is queued for deletion, being
\* flushed, or left to a catch-up (flushDirty: "Deletes are unconditional").
SdNoGhost ==
  \A n \in IndexedNotes :
    \/ vault[n] > 0 \/ n \in queue.deleted \/ n \in pass["flush"].deleted
    \/ pending \/ CatchUpRunning

\* The exclusions banner is cleared when the index reflects the exclusions (runCatchUp:
\* "any exclusion change it was backfilling is now reflected in the index").
SdAlignDone ==
  [][(aligning /\ ~aligning') => excludedAt \cap IndexedNotes = {}]_sdVars
=============================================================================
