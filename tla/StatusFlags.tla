---------------------------- MODULE StatusFlags ----------------------------
(***************************************************************************)
(* The flags of main.ts that StatusReport reads, and everything that sets   *)
(* them in one session: the boot and its watchdog, a locked or wedged       *)
(* store, hydrates and the wait for a producer, the verdicts of identity,   *)
(* drift and peers, a drop of the index and its recovery, full rebuild,     *)
(* catch-up, flush, and the counts of the store, which are read before an   *)
(* await and published after it.                                           *)
(*                                                                         *)
(* A count stands for the files and for the chunks alike.  The moment a     *)
(* read is asked for is the moment it sees; what other modules model in     *)
(* detail (sessions and takeovers in IndexJobs, the retry of a locked open  *)
(* in StoreOpenRetry) is an outcome here.                                  *)
(***************************************************************************)
EXTENDS StatusReport

CONSTANTS FlNotes,     \* indexable notes of the vault
          FlCounts,    \* what the store may hold
          FlSidecar,   \* settings.sidecarEnabled
          FlMoves      \* bound on the moves of the environment

ASSUME FlAssumption == /\ FlNotes \in Nat \ {0} /\ FlMoves \in Nat
                       /\ FlCounts \subseteq 0 .. FlNotes /\ {0, FlNotes} \subseteq FlCounts
                       /\ FlSidecar \in BOOLEAN

NoRead == -2

VARIABLES
  fl,      \* the flags
  stored,  \* what the store holds
  inv,     \* indexInventoryFiles, indexInventoryChunks
  read,    \* what the newest inventory read saw
  panel,   \* what a read of the settings tab saw
  fleet,   \* "lead", "ready" (a consumer that is served) or "waiting"
  walk, cover, job,
  boot,    \* "open", "locked", "identity", "hydrate", "complete", "done"
  dog,     \* the watchdog is armed
  drop,    \* recoverAfterFailedDrop: "none", "plan", "hydrate", "settle"
  work,    \* who else holds the index: "none", "full", "wiped", "reset", "rebuild", "poll"
  check,   \* a maybeCompleteConsumerHydrateBoot is on its way
  moves

flVars == <<fl, stored, inv, read, panel, fleet, walk, cover, job, boot, dog, drop, work, check, moves>>

FlInit ==
  /\ fl = [locked |-> FALSE, bootStuck |-> FALSE, wedged |-> FALSE, stalled |-> FALSE,
           booting |-> TRUE, decision |-> TRUE, hydrating |-> FALSE, good |-> FALSE,
           mayFull |-> "unknown", waiting |-> FALSE, dropRec |-> FALSE, peerSync |-> FALSE,
           health |-> "healthy", reason |-> "none",
           pending |-> FALSE, running |-> FALSE, flushing |-> FALSE, dirty |-> 0, saver |-> FALSE,
           cont |-> FALSE, recovering |-> FALSE]
  /\ stored \in FlCounts /\ inv = Unknown /\ read = NoRead /\ panel = NoRead
  /\ fleet \in IF FlSidecar THEN {"lead", "ready", "waiting"} ELSE {"lead"}
  /\ walk = NoWalk /\ cover = NoUnits /\ job = NoJob
  /\ boot = "open" /\ dog = TRUE /\ drop = "none" /\ work = "none"
  /\ check = FALSE /\ moves = 0

\* Mutant: a drop is reported while its hydrate runs.
HydratingDrop == fl.dropRec /\ fl.hydrating

(* The drop as the reporter is told of it.                                 *)
DropRecovering == fl.dropRec

(* What getIndexStatusReport gives the reporter, and indexLoadState.       *)
Inputs ==
  [storeLocked |-> fl.locked, stuck |-> fl.bootStuck \/ fl.wedged \/ fl.stalled,
   booting |-> fl.booting, decisionPending |-> fl.decision,
   hydrating |-> \/ fl.hydrating \/ DropRecovering
                 \/ (fl.booting /\ FlSidecar /\ ~fl.good),
   goodEnough |-> fl.good, mayFull |-> fl.mayFull, waiting |-> fl.waiting,
   dropRecovering |-> DropRecovering, peerSync |-> fl.peerSync,
   health |-> fl.health, reason |-> fl.reason,
   indexing |-> fl.running \/ fl.flushing \/ job.kind = "full",
   catchUpPending |-> fl.pending, catchUpRunning |-> fl.running, job |-> job,
   chunks |-> inv, files |-> inv, walk |-> walk, notes |-> FlNotes,
   dirty |-> fl.dirty, flushing |-> fl.flushing, energySaver |-> fl.saver,
   loading |-> (fl.booting \/ fl.hydrating) /\ ~fl.good]

indexWarmPhase ==
  CASE fl.good -> IF fl.waiting THEN "restoring" ELSE "none"
    [] ~fl.good /\ \/ fl.dropRec \/ fl.waiting \/ fl.hydrating
                   \/ (fl.booting /\ FlSidecar /\ fl.mayFull # "yes") -> "restoring"
    [] OTHER -> IF fl.booting THEN "starting" ELSE "none"

-----------------------------------------------------------------------------
(* What the methods do to the flags.                                       *)

markBootStuckResolved(f) ==
  IF f.wedged \/ ~f.bootStuck THEN f
  ELSE [f EXCEPT !.bootStuck = FALSE,
                 !.reason = IF @ = "stuck" /\ ~f.stalled THEN "none" ELSE @]

clearIndexingStalled(f) ==
  IF ~f.stalled THEN f
  ELSE [f EXCEPT !.stalled = FALSE,
                 !.reason = IF @ = "stuck" /\ ~f.bootStuck /\ ~f.wedged THEN "none" ELSE @]

OrStuck(reason) == IF reason = "none" THEN "stuck" ELSE reason
markIndexingStalled(f) == [f EXCEPT !.stalled = TRUE, !.reason = OrStuck(@)]
markStoreWedged(f) == [f EXCEPT !.wedged = TRUE, !.bootStuck = TRUE, !.reason = OrStuck(@)]

noteIndexDropped(f) == [f EXCEPT !.good = FALSE, !.dropRec = TRUE]

markIndexGoodEnough(f) ==
  IF f.good THEN f
  ELSE markBootStuckResolved([f EXCEPT !.good = TRUE, !.dropRec = FALSE, !.booting = FALSE])

clearWait(f) == [f EXCEPT !.waiting = FALSE, !.peerSync = FALSE]

(* abortInflightSessionWork.                                               *)
aborted(f, release) ==
  [f EXCEPT !.running = FALSE, !.flushing = FALSE, !.hydrating = FALSE,
            !.pending = @ /\ ~release, !.cont = FALSE]
jobAborted == IF job.kind = "catchup" THEN NoJob ELSE job

noteFleet(f) ==
  IF FlSidecar THEN [f EXCEPT !.mayFull = IF fleet = "lead" THEN "yes" ELSE "no"] ELSE f

(* applySidecarWait; r is what the hydrate came back with.                 *)
applySidecarWait(f, r) ==
  LET wait == resolveSidecarWait(r, inv)
  IN [f EXCEPT !.waiting = wait, !.peerSync = @ \/ wait]

refreshSidecarFleet(f) ==
  LET g == noteFleet(f)
  IN IF fleet = "waiting"
     THEN [g EXCEPT !.waiting = TRUE, !.peerSync = TRUE,
                    !.health = IF @ = "degraded" /\ g.reason = "version" THEN "recovering" ELSE @]
     ELSE [g EXCEPT !.waiting = @ /\ fleet # "ready"]

(* planConsumerHydrateComplete and what maybeCompleteConsumerHydrateBoot    *)
(* does with the plan.                                                     *)
consumerComplete(f) ==
  LET g == noteFleet(f)
  IN IF ~FlSidecar \/ f.hydrating \/ fleet = "lead" THEN g
     ELSE IF fleet = "ready" THEN markIndexGoodEnough(clearWait(clearIndexingStalled(g)))
     ELSE markBootStuckResolved(clearIndexingStalled(g))

(* applyPostBootIndexScheduling, but for the recovery it may start.        *)
stalePostBoot(f) ==
  (f.waiting \/ f.hydrating) /\ vaultCoverageIncomplete(inv, FlNotes)
    /\ staleCompleteHydrateWalk(walk, FlNotes)
postBoot(f) ==
  [(IF stalePostBoot(f) THEN clearWait(aborted(f, FALSE)) ELSE f) EXCEPT !.decision = FALSE]
(* An index that is dropped or empty: recover, unless the boot has already  *)
(* hydrated, when only a served consumer is looked for.                    *)
needsRestore(g) == ~g.waiting /\ ~g.hydrating /\ (g.dropRec \/ (inv = 0 /\ FlSidecar))
PostBootStarts(g) ==
  /\ drop' = IF needsRestore(g) /\ ~g.cont /\ drop = "none" THEN "plan" ELSE drop
  /\ check' = (check \/ (needsRestore(g) /\ g.cont /\ FlSidecar))

applyPeerAheadBanner(f, ahead) ==
  IF ahead
  THEN IF f.reason \in {"version", "drift"} THEN f
       ELSE [f EXCEPT !.health = "degraded", !.reason = "peer-ahead"]
  ELSE IF f.reason = "peer-ahead" THEN [f EXCEPT !.health = "healthy", !.reason = "none"] ELSE f

versionHealed(f) ==
  IF f.reason = "version"
  THEN [f EXCEPT !.health = "healthy", !.reason = "none", !.peerSync = FALSE] ELSE f

(* retainIndexInventory: a zero does not replace a known count.            *)
retainIndexInventory(old, new, force) ==
  IF ~force /\ new = 0 /\ old > 0 THEN old ELSE new

isIndexBusy == fl.running \/ fl.flushing \/ fl.health = "recovering" \/ work \in {"full", "wiped"}

Touch == read' = stored
(* A transaction that clears the store waits for the reads before it.      *)
ReadsDone == read = NoRead /\ panel = NoRead
Move  == moves < FlMoves /\ moves' = moves + 1

(* The ways a hydrate may end: n is what the store then holds.             *)
HydrateResults(n) ==
  {[waiting |-> fleet = "waiting", hydrated |-> n - stored, accepted |-> 0, skipped |-> s] :
     s \in IF fleet # "waiting" /\ n = stored THEN {0, 1} ELSE {0}}
After == {n \in FlCounts : n >= stored /\ (fleet = "waiting" => n = stored)}

(* The flags become g: the first to make the index good enough reads the    *)
(* inventory and stands the watchdog down.                                 *)
Become(g) ==
  LET first == g.good /\ ~fl.good
  IN /\ fl' = g
     /\ read' = IF first THEN stored' ELSE read
     /\ dog' = (dog /\ ~first)

Hydrating(f) == [f EXCEPT !.hydrating = TRUE]

(* The finally of withSidecarHydrate; of a hydrate that an abort took over  *)
(* nothing is left to do.                                                  *)
hydrated == IF fl.hydrating THEN postBoot([fl EXCEPT !.hydrating = FALSE]) ELSE fl
HydrateEnds ==
  /\ walk' = IF fl.hydrating THEN NoWalk ELSE walk
  /\ check' = (check \/ (fl.hydrating /\ FlSidecar))
  /\ IF fl.hydrating /\ drop = "none" /\ needsRestore(hydrated) /\ ~hydrated.cont
     THEN drop' = "plan" ELSE UNCHANGED drop

Recovering == drop' = IF drop = "none" THEN "plan" ELSE drop

-----------------------------------------------------------------------------
(* The boot.                                                               *)

OpenFails ==
  /\ boot = "open" /\ Move
  /\ boot' = "locked" /\ dog' = FALSE
  /\ fl' = [fl EXCEPT !.locked = TRUE]
  /\ UNCHANGED <<stored, inv, read, panel, fleet, walk, cover, job, drop, work, check>>

Opens ==
  /\ boot = "open"
  /\ boot' = "identity" /\ Touch
  /\ fl' = [fl EXCEPT !.cont = TRUE]
  /\ UNCHANGED <<stored, inv, panel, fleet, walk, cover, job, dog, drop, work, check, moves>>

RetrySucceeds ==
  /\ boot = "locked"
  /\ boot' = "identity" /\ fl' = [fl EXCEPT !.locked = FALSE, !.cont = TRUE]
  /\ UNCHANGED <<stored, inv, read, panel, fleet, walk, cover, job, dog, drop, work, check, moves>>

RetriesExhausted ==
  /\ boot = "locked" /\ work = "none"
  /\ boot' = "done" /\ work' = "reset" /\ fl' = markBootStuckResolved(fl)
  /\ UNCHANGED <<stored, inv, read, panel, fleet, walk, cover, job, dog, drop, check, moves>>

(* enforceIndexIdentity, for the boot or for the poll: not handled goes on  *)
(* to the hydrate, handled ends the round.                                 *)
Asking == boot = "identity" \/ work = "poll"
NotHandled ==
  IF boot = "identity" THEN boot' = "hydrate" /\ UNCHANGED work
  ELSE work' = "pollhydrate" /\ UNCHANGED boot
Handled ==
  IF boot = "identity" THEN boot' = "handled" /\ UNCHANGED work
  ELSE work' = "none" /\ UNCHANGED boot

IdentityMatches ==
  /\ Asking
  /\ NotHandled
  /\ fl' = [(IF FlSidecar /\ stored > 0 THEN versionHealed(fl) ELSE fl) EXCEPT !.hydrating = TRUE]
  /\ UNCHANGED <<stored, inv, read, panel, fleet, walk, cover, job, dog, drop, check, moves>>

(* A compatible producer: wipe, drop, hydrate in one section.              *)
IdentityRebuilds ==
  /\ Asking /\ FlSidecar /\ stored > 0 /\ fleet # "waiting" /\ ReadsDone /\ Move
  /\ stored' = 0 /\ inv' = 0
  /\ fl' = noteIndexDropped([fl EXCEPT !.hydrating = TRUE])
  /\ IF boot = "identity" THEN boot' = "rebuild" /\ UNCHANGED work
     ELSE work' = "rebuild" /\ UNCHANGED boot
  /\ UNCHANGED <<read, panel, fleet, walk, cover, job, dog, drop, check>>

RebuildEnds ==
  /\ boot = "rebuild" \/ work = "rebuild"
  /\ \E n \in FlCounts \ {0} :
       /\ stored' = n
       /\ fl' = versionHealed(applySidecarWait(hydrated,
                  [waiting |-> FALSE, hydrated |-> n, accepted |-> 1, skipped |-> 0]))
  /\ Touch /\ HydrateEnds
  /\ IF boot = "rebuild" THEN boot' = "handled" /\ UNCHANGED work
     ELSE work' = "none" /\ UNCHANGED boot
  /\ UNCHANGED <<inv, panel, fleet, cover, job, dog, moves>>

(* No producer to rebuild from: the index is stamped in place, drained in   *)
(* part, or stale; a stale one waits for a peer or for consent.            *)
IdentityVerdict ==
  /\ Asking /\ FlSidecar /\ stored > 0 /\ Move
  /\ \/ fl' = [fl EXCEPT !.health = "healthy", !.reason = "none", !.peerSync = FALSE]
     \/ fl' = [fl EXCEPT !.health = "degraded"]
     \/ \E peer \in BOOLEAN :
          LET coming == peer \/ fleet = "waiting"
          IN fl' = [fl EXCEPT !.health = IF coming THEN "recovering" ELSE "degraded",
                              !.reason = "version", !.peerSync = coming,
                              !.waiting = @ \/ fleet = "waiting"]
  /\ Handled
  /\ UNCHANGED <<stored, inv, read, panel, fleet, walk, cover, job, dog, drop, check>>

(* reconcileSidecarIfChanged: nothing changed, or a hydrate; then the peers *)
(* of a round that was not handled.                                        *)
ReconcileEnds ==
  /\ boot = "hydrate" \/ work = "pollhydrate"
  /\ \E ahead \in BOOLEAN, n \in After :
       \E r \in HydrateResults(n) \cup {[waiting |-> FALSE, hydrated |-> 0, accepted |-> 0, skipped |-> 0]} :
         LET f == IF FlSidecar THEN applySidecarWait(hydrated, r) ELSE hydrated
             g == IF work = "pollhydrate" THEN refreshSidecarFleet(f) ELSE f
         IN /\ r.hydrated = n - stored
            /\ ahead => FlSidecar
            /\ stored' = n
            /\ read' = IF n > stored THEN n ELSE read
            /\ fl' = IF work = "pollhydrate" /\ (g.waiting \/ g.hydrating) THEN g
                     ELSE applyPeerAheadBanner(g, ahead)
  /\ HydrateEnds
  /\ IF boot = "hydrate" THEN boot' = "complete" /\ UNCHANGED work
     ELSE work' = "none" /\ UNCHANGED boot
  /\ UNCHANGED <<inv, panel, fleet, cover, job, dog, moves>>

(* The rest of resumeBootAfterStoreOpen and the finally of the boot; p: the *)
(* reconcile finds notes to catch up on.                                   *)
BootCompletes ==
  /\ boot \in {"complete", "handled"}
  /\ \E p \in BOOLEAN :
       LET f == consumerComplete(IF FlSidecar THEN refreshSidecarFleet(fl) ELSE fl)
           g == IF /\ boot = "complete" /\ ~f.good /\ ~f.waiting /\ ~f.dropRec
                   /\ inv # 0
                THEN markIndexGoodEnough(f) ELSE f
           h == [g EXCEPT !.booting = FALSE,
                          !.pending = @ \/ (p /\ boot = "complete" /\ ~g.waiting /\ ~g.hydrating)]
       IN /\ fl' = [postBoot(h) EXCEPT !.dropRec = @ /\ ~fl.recovering, !.recovering = FALSE]
          /\ PostBootStarts(postBoot(h))
          /\ dog' = (dog /\ ~g.good)
          /\ walk' = IF fleet = "waiting" /\ FlSidecar
                     THEN applySidecarHydrateProgressUpdate(walk,
                            [done |-> stored, total |-> FlNotes, needed |-> Unknown], TRUE)
                     ELSE walk
  /\ boot' = "done" /\ Touch
  /\ UNCHANGED <<stored, inv, panel, fleet, cover, job, work, moves>>

BootWatchdog ==
  /\ dog /\ Move /\ dog' = FALSE
  /\ LET stale == vaultCoverageIncomplete(inv, FlNotes) /\ fl.hydrating
                    /\ staleCompleteHydrateWalk(walk, FlNotes)
         over  == fl.good \/ fl.locked \/ ~fl.booting
     IN \/ over /\ UNCHANGED <<fl, read, walk>>
        \/ /\ ~over /\ inv > 0
           /\ fl' = markIndexGoodEnough(IF stale THEN clearWait(aborted(fl, FALSE)) ELSE fl)
           /\ read' = stored
           /\ walk' = IF stale THEN NoWalk ELSE walk
        \/ /\ ~over /\ inv <= 0
           /\ fl' = IF fl.waiting \/ fl.peerSync
                    THEN clearIndexingStalled(markBootStuckResolved(fl))
                    ELSE [fl EXCEPT !.bootStuck = TRUE, !.reason = OrStuck(@)]
           /\ UNCHANGED <<read, walk>>
  /\ UNCHANGED <<stored, inv, panel, fleet, cover, job, boot, drop, work, check>>

-----------------------------------------------------------------------------
(* Counts: the inventory and the settings tab.                             *)

TouchEnds ==
  /\ read # NoRead
  /\ inv' = retainIndexInventory(inv, read, FALSE) /\ read' = NoRead
  /\ UNCHANGED <<fl, stored, panel, fleet, walk, cover, job, boot, dog, drop, work, check, moves>>

TouchTimesOut ==
  /\ read # NoRead /\ Move
  /\ read' = NoRead
  /\ fl' = IF isIndexBusy THEN fl ELSE markStoreWedged(fl)
  /\ UNCHANGED <<stored, inv, panel, fleet, walk, cover, job, boot, dog, drop, work, check>>

PanelReads ==
  /\ panel = NoRead /\ Move /\ panel' = stored
  /\ UNCHANGED <<fl, stored, inv, read, fleet, walk, cover, job, boot, dog, drop, work, check>>

(* getIndexStats publishes what it saw and disowns a touch in flight.      *)
PanelShows ==
  /\ panel # NoRead
  /\ inv' = retainIndexInventory(inv, panel, FALSE)
  /\ panel' = NoRead /\ read' = NoRead
  /\ cover' = [done |-> inv', total |-> FlNotes, determinate |-> TRUE]
  /\ UNCHANGED <<fl, stored, fleet, walk, job, boot, dog, drop, work, check, moves>>

(* onHydrateProgress: a walk of the vault or of a part, to hydrate or only  *)
(* to verify.                                                              *)
WalkMoves ==
  /\ fl.hydrating /\ Move
  /\ \E total \in FlCounts \ {0}, needed \in {0, Unknown} :
       \E done \in {0, total} :
         walk' = applySidecarHydrateProgressUpdate(walk,
                   [done |-> done, total |-> total, needed |-> needed], TRUE)
  /\ walk' # walk
  /\ UNCHANGED <<fl, stored, inv, read, panel, fleet, cover, job, boot, dog, drop, work, check>>

-----------------------------------------------------------------------------
(* Recovery after a drop, in its awaits, and the consumer that is served.   *)

DropPlans ==
  /\ drop = "plan"
  /\ \E open \in BOOLEAN :
       LET f == [noteFleet(fl) EXCEPT !.dropRec = TRUE, !.good = FALSE,
                                      !.waiting = FlSidecar, !.peerSync = @ \/ FlSidecar]
       IN IF open /\ FlSidecar
          THEN fl' = Hydrating(f) /\ drop' = "hydrate"
          ELSE fl' = f /\ drop' = "none"
  /\ UNCHANGED <<stored, inv, read, panel, fleet, walk, cover, job, boot, dog, work, check, moves>>

DropHydrates ==
  /\ drop = "hydrate"
  /\ \/ /\ fl' = hydrated /\ drop' = "none"
        /\ UNCHANGED <<stored, read>>
     \/ \E n \in After : \E r \in HydrateResults(n) :
          /\ stored' = n /\ Touch
          /\ fl' = applySidecarWait(hydrated, r)
          /\ drop' = IF sidecarHydrateHealedIndex(r) THEN "healed" ELSE "settle"
  /\ walk' = IF fl.hydrating THEN NoWalk ELSE walk
  /\ check' = (check \/ fl.hydrating)
  /\ UNCHANGED <<inv, panel, fleet, cover, job, boot, dog, work, moves>>

(* The inventory was read again: the index is good if the hydrate healed it *)
(* or the inventory is not empty.                                          *)
DropSettles ==
  /\ drop \in {"healed", "settle"} /\ read = NoRead
  /\ drop' = "none" /\ UNCHANGED stored
  /\ Become(IF drop = "healed" \/ inv > 0 THEN markIndexGoodEnough(clearWait(fl)) ELSE fl)
  /\ UNCHANGED <<inv, panel, fleet, walk, cover, job, boot, work, check, moves>>

maybeCompleteConsumerHydrateBoot ==
  /\ check /\ check' = FALSE
  /\ UNCHANGED stored /\ Become(consumerComplete(fl))
  /\ UNCHANGED <<inv, panel, fleet, walk, cover, job, boot, drop, work, moves>>

PeerArrives ==
  /\ fleet = "waiting" /\ Move /\ fleet' = "ready"
  /\ UNCHANGED <<fl, stored, inv, read, panel, walk, cover, job, boot, dog, drop, work, check>>

PeriodicReconcile ==
  /\ boot = "done" /\ work = "none" /\ drop = "none" /\ ~isIndexBusy /\ Move
  /\ work' = "poll"
  /\ UNCHANGED <<fl, stored, inv, read, panel, fleet, walk, cover, job, boot, dog, drop, check>>

-----------------------------------------------------------------------------
(* Full rebuild, forced reset, the wedged store and the stall guard.       *)

FullRefused ==
  /\ fleet # "lead" /\ work = "none" /\ Move
  /\ fl' = [noteFleet(fl) EXCEPT !.waiting = @ \/ fleet = "waiting", !.peerSync = TRUE]
  /\ UNCHANGED <<stored, inv, read, panel, fleet, walk, cover, job, boot, dog, drop, work, check>>

(* The drop is noted before the wipe.                                      *)
FullBegins ==
  /\ fleet = "lead" /\ work = "none" /\ drop = "none" /\ boot = "done" /\ Move
  /\ LET busy == fl.running \/ fl.hydrating \/ fl.pending
         f    == IF busy THEN aborted(noteFleet(fl), TRUE) ELSE noteFleet(fl)
     IN /\ fl' = noteIndexDropped(clearIndexingStalled([f EXCEPT !.pending = FALSE, !.dirty = 0]))
        /\ walk' = IF busy THEN NoWalk ELSE walk
  /\ job' = [done |-> 0, total |-> FlNotes, kind |-> "full"]
  /\ inv' = 0 /\ work' = "full"
  /\ UNCHANGED <<stored, read, panel, fleet, cover, boot, dog, drop, check>>

FullWipes ==
  /\ work = "full" /\ ReadsDone
  /\ work' = "wiped" /\ stored' = 0
  /\ UNCHANGED <<fl, inv, read, panel, fleet, walk, cover, job, boot, dog, drop, check, moves>>

FullAdvances ==
  /\ work = "wiped" /\ stored' \in {n \in FlCounts : n > stored /\ n < FlNotes}
  /\ job' = [job EXCEPT !.done = stored']
  /\ UNCHANGED <<fl, inv, read, panel, fleet, walk, cover, boot, dog, drop, work, check, moves>>

FullEnds ==
  /\ work = "wiped" /\ work' = "none"
  /\ stored' = FlNotes /\ Touch /\ job' = NoJob
  /\ fl' = [fl EXCEPT !.health = "healthy", !.reason = "none", !.peerSync = FALSE, !.dropRec = FALSE]
  /\ UNCHANGED <<inv, panel, fleet, walk, cover, boot, dog, drop, check, moves>>

FullFails ==
  /\ work \in {"full", "wiped"} /\ Move /\ work' = "none"
  /\ Touch /\ job' = NoJob /\ Recovering
  /\ UNCHANGED <<fl, stored, inv, panel, fleet, walk, cover, boot, dog, check>>

(* From the settings; the database may not go.                             *)
ResetBegins ==
  /\ work = "none" /\ drop = "none" /\ boot = "done" /\ Move
  /\ work' = "reset" /\ walk' = NoWalk /\ job' = jobAborted
  /\ fl' = markBootStuckResolved(aborted([fl EXCEPT !.dropRec = TRUE], TRUE))
  /\ UNCHANGED <<stored, inv, read, panel, fleet, cover, boot, dog, drop, check>>

ForceResetFails ==
  /\ work = "reset" /\ work' = "none" /\ Recovering
  /\ fl' = noteIndexDropped(fl) /\ inv' = 0
  /\ UNCHANGED <<stored, read, panel, fleet, walk, cover, job, boot, dog, check, moves>>

ForceResets ==
  /\ work = "reset" /\ ReadsDone
  /\ work' = "none" /\ Recovering
  /\ stored' = 0 /\ inv' = 0
  /\ fl' = noteIndexDropped(clearIndexingStalled(markBootStuckResolved(
             [fl EXCEPT !.locked = FALSE, !.wedged = FALSE])))
  /\ UNCHANGED <<read, panel, fleet, walk, cover, job, boot, dog, check, moves>>

RecoverWedged ==
  /\ fl.wedged /\ work = "none" /\ Move
  /\ UNCHANGED <<stored, panel, fleet, walk, cover, job, boot, drop, check>>
  /\ \/ /\ Become(markIndexGoodEnough(
                [fl EXCEPT !.wedged = FALSE, !.bootStuck = FALSE, !.stalled = FALSE, !.pending = TRUE,
                           !.reason = IF @ = "stuck" THEN "none" ELSE @]))
        /\ inv' = stored /\ UNCHANGED work
     \/ /\ work' = "reset" /\ fl' = markBootStuckResolved(fl)
        /\ UNCHANGED <<inv, read, dog>>

(* Recover, in the settings: the pass that runs is taken over and the boot  *)
(* resumed.                                                                *)
RecoverFromSettings ==
  /\ boot = "done" /\ drop = "none" /\ work \in {"none", "full", "wiped"} /\ ~fl.wedged /\ Move
  /\ boot' = "identity" /\ work' = "none"
  /\ fl' = [clearIndexingStalled(markBootStuckResolved(aborted(fl, TRUE)))
              EXCEPT !.dropRec = TRUE, !.recovering = TRUE, !.cont = TRUE]
  /\ walk' = NoWalk /\ job' = jobAborted
  /\ UNCHANGED <<stored, inv, read, panel, fleet, cover, dog, drop, check>>

(* Work without progress; the count tells whether the store answers.       *)
IndexingStalls ==
  /\ fl.running \/ (work \in {"full", "wiped"} /\ job.done = 0)
  /\ Move
  /\ LET f == aborted(fl, TRUE)
     IN \/ /\ inv' = stored
           /\ LET g == [f EXCEPT !.wedged = FALSE]
              IN fl' = IF vaultCoverageIncomplete(stored, FlNotes)
                       THEN [clearIndexingStalled(g) EXCEPT !.pending = ~g.waiting]
                       ELSE markIndexingStalled(g)
        \/ fl' = markStoreWedged(f) /\ UNCHANGED inv
  /\ walk' = NoWalk /\ job' = jobAborted
  /\ work' = IF work \in {"full", "wiped"} THEN "none" ELSE work
  /\ UNCHANGED <<stored, read, panel, fleet, cover, boot, dog, drop, check>>

-----------------------------------------------------------------------------
(* Catch-up, edits, the energy saver, and the verdicts on the row spaces.   *)

CatchUpBegins ==
  /\ fl.pending /\ ~fl.running /\ ~fl.waiting /\ ~fl.saver /\ work = "none" /\ boot = "done"
  /\ fl' = [fl EXCEPT !.running = TRUE]
  /\ \E total \in {1, FlNotes} :
       /\ stored + total >= FlNotes
       /\ job' = [done |-> 0, total |-> total, kind |-> "catchup"]
  /\ UNCHANGED <<stored, inv, read, panel, fleet, walk, cover, boot, dog, drop, work, check, moves>>

CatchUpEnds ==
  /\ fl.running
  /\ fl' = [fl EXCEPT !.running = FALSE, !.pending = FALSE]
  /\ stored' = FlNotes /\ Touch /\ job' = NoJob
  /\ UNCHANGED <<inv, panel, fleet, walk, cover, boot, dog, drop, work, check, moves>>

Edit ==
  /\ fl.dirty = 0 /\ Move /\ fl' = [fl EXCEPT !.dirty = 1]
  /\ UNCHANGED <<stored, inv, read, panel, fleet, walk, cover, job, boot, dog, drop, work, check>>

FlushBegins ==
  /\ fl.dirty > 0 /\ ~fl.flushing /\ ~fl.running /\ ~fl.saver /\ work = "none"
  /\ fl' = [fl EXCEPT !.flushing = TRUE]
  /\ UNCHANGED <<stored, inv, read, panel, fleet, walk, cover, job, boot, dog, drop, work, check, moves>>

FlushEnds ==
  /\ fl.flushing
  /\ fl' = [fl EXCEPT !.flushing = FALSE, !.dirty = 0] /\ Touch
  /\ UNCHANGED <<stored, inv, panel, fleet, walk, cover, job, boot, dog, drop, work, check, moves>>

EnergySaver ==
  /\ Move /\ fl' = [fl EXCEPT !.saver = ~@]
  /\ UNCHANGED <<stored, inv, read, panel, fleet, walk, cover, job, boot, dog, drop, work, check>>

DriftVerdict ==
  /\ boot = "done" /\ Move
  /\ fl' \in {[fl EXCEPT !.health = "recovering"],
              [fl EXCEPT !.health = "healthy", !.reason = "none"],
              [fl EXCEPT !.health = "degraded", !.reason = "drift"]}
  /\ UNCHANGED <<stored, inv, read, panel, fleet, walk, cover, job, boot, dog, drop, work, check>>

FlNext ==
  \/ OpenFails \/ Opens \/ RetrySucceeds \/ RetriesExhausted
  \/ IdentityMatches \/ IdentityRebuilds \/ RebuildEnds \/ IdentityVerdict
  \/ ReconcileEnds \/ BootCompletes \/ BootWatchdog
  \/ TouchEnds \/ TouchTimesOut \/ PanelReads \/ PanelShows \/ WalkMoves
  \/ DropPlans \/ DropHydrates \/ DropSettles \/ maybeCompleteConsumerHydrateBoot
  \/ PeerArrives \/ PeriodicReconcile
  \/ FullRefused \/ FullBegins \/ FullWipes \/ FullAdvances \/ FullEnds \/ FullFails
  \/ ResetBegins \/ ForceResetFails \/ ForceResets \/ RecoverWedged \/ RecoverFromSettings \/ IndexingStalls
  \/ CatchUpBegins \/ CatchUpEnds \/ Edit \/ FlushBegins \/ FlushEnds
  \/ EnergySaver \/ DriftVerdict

FlSpec == FlInit /\ [][FlNext]_flVars

-----------------------------------------------------------------------------
(* What is shown, for a store that is found to hold n chunks.              *)

Writing == work \in {"full", "wiped", "rebuild"} \/ fl.running \/ fl.flushing

(* cliSearchGateMessage falls back to the inventory.                       *)
ShownBy(n, body, snap, rep, i) ==
  [bar    |-> paintFromSnapshot(rep, snap),
   body   |-> body,
   footer |-> indexFooterStatus(body, rep, snap, i, Writing, TRUE),
   gate   |-> resolveCliSearchGate(IF n <= 0 /\ inv > 0 THEN inv ELSE n, indexWarmPhase, rep, i)]
ShownFrom(n, snap, rep, i) == ShownBy(n, indexLoadSpec(n, rep, snap, i, Writing), snap, rep, i)
ShownOf(n, rep, i) == ShownFrom(n, buildIndexProgressSnapshot(rep, i, cover), rep, i)
Shown(n) == ShownOf(n, compute(Inputs), Inputs)

-----------------------------------------------------------------------------
(* The counts are counts, and the banner's reason "stuck" never outlives    *)
(* what was stuck: the boot, the store or the indexing (each is resolved    *)
(* by a method of its own, which looks at the other two).                  *)
FlStuckBanner ==
  /\ {inv, stored} \subseteq FlCounts \cup {Unknown}
  /\ fl.reason = "stuck" => fl.bootStuck \/ fl.wedged \/ fl.stalled

(* What the surfaces disagree about, by the code: a verify-only walk of a   *)
(* tier, few notes beside the index, counts as a small pass in the footer   *)
(* while the index recovers; and the modal looks into the store itself,     *)
(* which may be empty while the inventory still counts what was dropped.    *)
TierWalk == fl.dropRec /\ walk.needed = 0 /\ isSmallCatchUpPass(walk.total, inv)
StaleInventory == stored = 0 /\ inv > 0

(* The surfaces tell one story, although each reads the flags through rules *)
(* of its own: the footer is quiet when the bar is, it is busy when the bar *)
(* counts, it finds no index exactly when the bar does; and the modal does  *)
(* not offer to build an index, nor the command line deny there is one,     *)
(* while the bar says it is ready or at work.  Only in a TierWalk is the    *)
(* footer quiet under a bar that counts, and only a StaleInventory lets the *)
(* modal offer to build an index that the bar sees at work.                 *)
FlSurfacesAgree ==
  \A s \in {Shown(stored)} :
    /\ s.bar \in {"ok", "paused"} => s.footer = "up-to-date"
    /\ s.footer = "up-to-date" => s.bar \in {"ok", "paused"} \/ (s.bar = "indexing" /\ TierWalk)
    /\ s.bar = "indexing" => s.footer \in {"indexing", "updating"} \/ TierWalk
    /\ s.bar = "none" <=> s.footer = "no-index"
    /\ s.gate = "no-index" => s.bar \notin {"ok", "indexing", "updating"}
    /\ s.body = "onboarding" =>
         /\ s.bar # "ok"
         /\ s.bar \in {"indexing", "updating"} => StaleInventory

(* While an index that was dropped is recovered, and the inventory is the   *)
(* zero that the drop left, nothing says that it is ready or that there is  *)
(* none, and the command line serves nothing.                              *)
FlDropHidden ==
  fl.dropRec /\ inv = 0 =>
    \A s \in {Shown(stored)} :
      /\ s.bar \notin {"ok", "none", "updating", "paused"}
      /\ stored = 0 => s.gate # "serve"

(* "IndexedDB was emptied (full reset or sidecar rebuild) - do not keep     *)
(* Ready inventory" (main.ts, noteIndexDropped): an index that is empty,    *)
(* with nobody at work on it, is not called ready.  The code does not keep  *)
(* it: an inventory read that is in flight when a full rebuild notes the    *)
(* drop publishes the old counts after it, the zeros read later are         *)
(* discarded, and the recovery from a failed rebuild takes the counts for   *)
(* an index.                                                               *)
FlNoReadyOverEmpty == stored = 0 /\ work = "none" => Shown(stored).bar # "ok"

(* Stated, and not kept: the badge of a full rebuild belongs to one that    *)
(* runs (a takeover raises fullReindexGen, and then nobody hides the job);  *)
(* what is stuck has its banner (the verdicts on identity and drift clear   *)
(* the reason); a good index is stuck only with a wedged store (the stall   *)
(* guard clears the wedge and leaves the flag of the boot).                *)
FlFullBadge  == job.kind = "full" => work \in {"full", "wiped"}
FlStuckShown == fl.bootStuck \/ fl.wedged \/ fl.stalled => indexBannerSpec(Inputs) # "none"
FlStuckTrue  == fl.bootStuck /\ fl.good => fl.wedged
=============================================================================
