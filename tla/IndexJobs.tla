------------------------------ MODULE IndexJobs ------------------------------
(***************************************************************************)
(* The jobs of the plugin object (main.ts) that build or restore the index: *)
(* boot, catch-up, cold build, full reindex, recover, force reset, restore  *)
(* after a drop, the stall guard, the reconcile poll.  Each is an async     *)
(* function; they share the latches of the object, the loadGeneration that  *)
(* tells a job its session is over, and the orchestrator, whose mutex is    *)
(* replaced with it.                                                        *)
(*                                                                         *)
(* A job is a slot of jb.jobs: it stops at an await (its label `at`), an    *)
(* action runs it from there to the next await.  The synchronous functions  *)
(* of main.ts are operators from one jb to the next.  `nest` holds the      *)
(* callers that continue when an awaited function returns.  loadGeneration, *)
(* fullReindexGen and sidecarHydrateGen are only compared with the value a  *)
(* job captured: a job says whether its own is the current one (mine,       *)
(* owner, hyd), and the bump makes every job a late one.                    *)
(*                                                                         *)
(* The platform is a desktop without energy saver.  The index is "empty",   *)
(* "partial" or "whole"; inv is what the plugin believes of it.  Queries,   *)
(* flushes and drift recovery have modules of their own.                    *)
(***************************************************************************)
EXTENDS Naturals, Integers, Sequences, FiniteSets, TLC

CONSTANTS
  Slots,        \* bound: the jobs at a time
  NoSlot,
  JbEvents,     \* bound: clicks on Recover, Force reset, Full reindex, and
                \* stalls, stuck boots and polls
  JbSidecar     \* sidecarEnabled

ASSUME JobsAssumption ==
  NoSlot \notin Slots /\ IsFiniteSet(Slots) /\ JbEvents \in Nat /\ JbSidecar \in BOOLEAN

VARIABLES
  jb,           \* the fields of the plugin object, the store, the jobs
  jbLeft        \* events still to come

jbVars == <<jb, jbLeft>>

Index == {"empty", "partial", "whole"}
NoJob == [at |-> "idle", kind |-> "none", mine |-> FALSE, owner |-> FALSE, orch |-> -1,
          on |-> NoSlot, hyd |-> "none", nest |-> <<>>, cold |-> FALSE, wiped |-> FALSE]

Job(kind, at) == [NoJob EXCEPT !.at = at, !.kind = kind, !.mine = TRUE]
Busy(J, f) == J.jobs[f].at # "idle"

\* At most one job a slot; an equal job already waiting in the same session
\* stands for both.
Spawn(J, job) ==
  IF \E f \in Slots : J.jobs[f] = job THEN J
  ELSE IF \A f \in Slots : Busy(J, f) THEN [J EXCEPT !.over = TRUE]
  ELSE [J EXCEPT !.jobs[CHOOSE f \in Slots : ~Busy(J, f)] = job]

\* The labels at which a job works with the orchestrator it has captured:
\* orch is 0 for the attached one, n for the one n attachments ago.
Section == {"drain_w", "index_w", "restore_w", "boot_w"}
Captured == Section \cup {"drain", "drained", "index", "restore", "boot"}
Goto(J, f, at) == [J EXCEPT !.jobs[f].at = at, !.jobs[f].orch = IF at \in Captured THEN @ ELSE -1]
Attached(J, f) == [J EXCEPT !.jobs[f].orch = 0]
Attach(J) ==
  [J EXCEPT !.jobs = [g \in Slots |-> [J.jobs[g] EXCEPT !.orch =
     IF @ \in 0 .. (Cardinality(Slots) - 1) THEN @ + 1 ELSE @]]]
Call(J, f, caller) == [J EXCEPT !.jobs[f].nest = <<caller>> \o @]

\* The job's promise settles: who waits for it goes on.
End(J, f) ==
  [J EXCEPT !.jobs = [g \in Slots |->
     IF g = f THEN NoJob
     ELSE IF J.jobs[g].on = f THEN [J.jobs[g] EXCEPT !.on = NoSlot] ELSE J.jobs[g]]]
Current(J, f) == J.jobs[f].mine

\* The mutex of an orchestrator: one job at a time per orchestrator.
Writing(J, o) == \E f \in Slots : J.jobs[f].at \in Section /\ J.jobs[f].orch = o
IsWriting(J) == Writing(J, 0)

JbInit ==
  /\ jb \in { [open |-> FALSE, content |-> c, inv |-> "unknown",
               full |-> FALSE, fullRun |-> NoSlot,
               recover |-> FALSE, recoverRun |-> NoSlot,
               pending |-> FALSE, running |-> FALSE,
               dropping |-> FALSE, dropRun |-> FALSE,
               hydrating |-> FALSE, depth |-> 0, counted |-> FALSE,
               cold |-> FALSE, waiting |-> FALSE, boot |-> FALSE, good |-> FALSE,
               stuck |-> FALSE, wedged |-> FALSE, stalling |-> FALSE, over |-> FALSE,
               jobs |-> [f \in Slots |->
                 IF f = boots THEN [Job("boot", "open") EXCEPT !.nest = <<"booted">>]
                              ELSE NoJob]]
              : c \in Index, boots \in Slots }
  /\ jbLeft = JbEvents

---------------------------------------------------------------------------
(* Scheduling: runCatchUp, scheduleStartupCatchUp, scheduleIndexBuild,      *)
(* maybeResumeIncompleteCoverage, applyPostBootIndexScheduling.             *)

RunCatchUp(J) ==
  IF J.waiting \/ ~J.pending \/ J.running THEN J
  ELSE Spawn([J EXCEPT !.running = TRUE], [Job("catchup", "drain") EXCEPT !.orch = 0])

StartupCatchUp(J) ==
  IF J.waiting \/ ~J.pending THEN J ELSE Spawn(J, Job("startup", "startup"))

ColdBuild(J) == Spawn(J, Job("cold", "cold_fleet"))

Build(J, mode) ==
  IF J.waiting \/ J.hydrating THEN J
  ELSE IF mode = "cold"
       THEN IF J.cold \/ IsWriting(J) THEN J ELSE ColdBuild([J EXCEPT !.cold = TRUE])
       ELSE StartupCatchUp([J EXCEPT !.pending = TRUE])

MaybeResume(J) ==
  IF J.hydrating \/ J.waiting \/ J.running \/ J.full \/ J.inv = "whole" THEN J
  ELSE Build(J, "catchup")

\* post-boot recovery: refused once the boot continuation has run.
DropRecovery(J) == IF J.boot THEN J ELSE Spawn(J, Job("drop", "restore_open"))

PostBoot(J) ==
  IF J.waiting \/ J.hydrating THEN J
  ELSE IF J.dropping \/ (J.inv = "empty" /\ JbSidecar) THEN DropRecovery(J)
  ELSE IF J.inv = "empty" THEN Build(J, "cold")
  ELSE IF J.pending THEN Build(J, "catchup")
  ELSE MaybeResume(J)

GoodEnough(J) ==
  IF J.good THEN J
  ELSE MaybeResume([J EXCEPT !.good = TRUE, !.dropping = FALSE, !.stuck = J.wedged])

Dropped(J) == [J EXCEPT !.good = FALSE, !.dropping = TRUE, !.inv = "empty"]

\* abortInflightSessionWork
Late(job, keepFull) ==
  [job EXCEPT !.mine = FALSE, !.hyd = IF @ = "own" THEN "late" ELSE @,
              !.owner = @ /\ keepFull]
Abort(J, keepFull, release) ==
  LET A == [J EXCEPT !.jobs = [g \in Slots |-> Late(J.jobs[g], keepFull)],
                     !.running = FALSE, !.depth = 0, !.counted = FALSE,
                     !.hydrating = FALSE, !.boot = FALSE, !.full = keepFull /\ @]
  IN  IF release THEN [A EXCEPT !.pending = FALSE, !.open = FALSE]
      ELSE IF IsWriting(J) THEN Attach(A) ELSE A

---------------------------------------------------------------------------
(* withSidecarHydrate: the depth counts the hydrates of one session.        *)

HydrateBegins(J, f) ==
  [J EXCEPT !.depth = IF J.counted THEN @ + 1 ELSE 1,
            !.counted = TRUE, !.hydrating = TRUE, !.jobs[f].hyd = "own"]
AnyHydrate(J, f) == J.counted
OwnHydrate(J, f) == J.jobs[f].hyd = "own"
HydrateEnds(J, f) ==
  LET D == [J EXCEPT !.depth = IF OwnHydrate(J, f) /\ @ > 0 THEN @ - 1 ELSE @,
                     !.jobs[f].hyd = "none"]
      E == [D EXCEPT !.hydrating = D.depth > 0]
  IN  IF J.jobs[f].hyd = "late" THEN D
      ELSE IF E.depth = 0 THEN PostBoot(E) ELSE E

\* What a hydrate leaves: it needs the store; it may find nothing, or a
\* producer to wait for, or fail.
Hydrated(J, f, how) ==
  [J EXCEPT !.content = IF how = "healed" THEN (IF @ = "whole" THEN @ ELSE "partial") ELSE @]
HydrateWait(J, how) == [J EXCEPT !.waiting = IF how = "wait" THEN TRUE ELSE FALSE]
Outcomes(J) == IF J.open THEN {"healed", "nothing", "wait", "throw"} ELSE {"throw"}
Touched(J) == IF J.open THEN [J EXCEPT !.inv = J.content] ELSE J

---------------------------------------------------------------------------
(* Restore after a drop: recoverAfterFailedDrop.                            *)

Restore(J, f) ==
  IF J.dropRun THEN Goto(J, f, "return")
  ELSE Goto([J EXCEPT !.dropRun = TRUE], f, "restore_fleet")
NoFinally(J, f) == Goto(J, f, "return")
RestoreEnds(J, f) == Goto([J EXCEPT !.dropRun = FALSE], f, "return")
\* a cold build is allowed unless the caller is a full reindex
ColdAllowed(J, f) == J.jobs[f].nest = <<>> \/ Head(J.jobs[f].nest) # "full"

RestoreStep(f) ==
  \/ /\ jb.jobs[f].at = "restore_open"
     /\ jb' = Restore(jb, f)
  \/ /\ jb.jobs[f].at = "restore_fleet"
     /\ \E opens, may \in BOOLEAN :
          LET J == [jb EXCEPT !.open = @ \/ opens, !.dropping = TRUE, !.good = FALSE,
                              !.waiting = JbSidecar]
          IN  jb' = IF JbSidecar /\ J.open
                    THEN Goto(Attached(HydrateBegins(J, f), f), f, "restore")
                    ELSE IF ~JbSidecar /\ J.open /\ ColdAllowed(J, f)
                         THEN RestoreEnds(ColdBuild(J), f)
                         ELSE RestoreEnds(J, f)
  \/ /\ jb.jobs[f].at = "restore"
     /\ ~Writing(jb, jb.jobs[f].orch)
     /\ jb' = Goto(jb, f, "restore_w")
  \/ /\ jb.jobs[f].at = "restore_w"
     /\ \E how \in Outcomes(jb), may \in BOOLEAN :
          LET H == Goto(Hydrated(jb, f, how), f, "restore_end")
              J == IF how = "throw" THEN HydrateEnds(H, f)
                   ELSE Touched(HydrateWait(HydrateEnds(H, f), how))
          IN  jb' = IF how # "throw" /\ (how = "healed" \/ J.inv # "empty")
                    THEN RestoreEnds(GoodEnough([J EXCEPT !.waiting = FALSE]), f)
                    ELSE IF ~J.waiting /\ ColdAllowed(J, f) /\ may
                         THEN RestoreEnds(ColdBuild(J), f)
                         ELSE RestoreEnds(J, f)

---------------------------------------------------------------------------
(* Boot: startPostLayoutBoot, resumeBootAfterStoreOpen, reconcileOnLoad.    *)

Resume(J, f) ==
  IF J.boot \/ ~J.open \/ ~Current(J, f) THEN Goto(J, f, "return")
  ELSE Goto(Attached(HydrateBegins([J EXCEPT !.boot = TRUE], f), f), f, "boot")

BootStep(f) ==
  \/ /\ jb.jobs[f].at = "open"
     /\ \E opens \in BOOLEAN :
          LET J == [jb EXCEPT !.open = @ \/ opens]
          IN  jb' = IF J.open THEN Resume(Touched(J), f) ELSE End(J, f)
  \/ /\ jb.jobs[f].at = "boot"
     /\ ~Writing(jb, jb.jobs[f].orch)
     /\ jb' = Goto(jb, f, "boot_w")
  \/ /\ jb.jobs[f].at = "boot_w"
     /\ \E how \in Outcomes(jb) :
          LET H == HydrateEnds(Goto(Hydrated(jb, f, how), f, "boot_tail"), f)
          IN  jb' = IF how = "throw" THEN H ELSE Touched(HydrateWait(H, how))
  \/ /\ jb.jobs[f].at = "boot_tail"
     /\ LET J == IF ~jb.good /\ ~jb.waiting /\ jb.inv # "empty" /\ ~jb.dropping
                 THEN GoodEnough(jb) ELSE jb
            R == IF Current(J, f) /\ ~J.waiting /\ ~J.hydrating
                 THEN Spawn(J, Job("recon", "recon")) ELSE J
        IN  jb' = IF Current(R, f) THEN Goto(PostBoot(Touched(R)), f, "return")
                                   ELSE Goto(R, f, "return")
  \/ /\ jb.jobs[f].at = "recon"
     /\ jb' = IF ~Current(jb, f) \/ jb.waiting \/ ~jb.open \/ jb.content = "whole"
              THEN End(jb, f)
              ELSE End(Build(jb, IF jb.inv = "empty" THEN "cold" ELSE "catchup"), f)

---------------------------------------------------------------------------
(* Catch-up: scheduleStartupCatchUp and the drain of runCatchUp.            *)

LateReset(J, f) == [J EXCEPT !.running = FALSE]
DrainEnds(J, f) ==
  IF ~Current(J, f) THEN End(LateReset(J, f), f)
  ELSE LET D == [J EXCEPT !.running = FALSE]
       IN  End(Touched(StartupCatchUp(D)), f)

CatchUpStep(f) ==
  \/ /\ jb.jobs[f].at = "startup"
     /\ \E ok \in BOOLEAN :
          jb' = IF ok /\ Current(jb, f) THEN End(RunCatchUp(jb), f) ELSE End(jb, f)
  \/ /\ jb.jobs[f].at = "drain"
     /\ ~Writing(jb, jb.jobs[f].orch)
     /\ jb' = Goto(jb, f, "drain_w")
  \* a burst: embedded in full or in part, or the store is closed
  \/ /\ jb.jobs[f].at = "drain_w"
     /\ IF jb.open
        THEN \E c \in {"partial", "whole"} :
               jb' = Goto([jb EXCEPT !.content = IF @ = "whole" THEN @ ELSE c], f, "drained")
        ELSE jb' = Goto([jb EXCEPT !.pending = IF Current(jb, f) THEN TRUE ELSE @], f, "drain_end")
  \/ /\ jb.jobs[f].at = "drained"
     /\ \E again \in BOOLEAN :
          jb' = IF again /\ jb.content # "whole" THEN Goto(jb, f, "drain")
                ELSE Goto([jb EXCEPT !.pending = jb.content # "whole"], f, "drain_end")
  \/ /\ jb.jobs[f].at = "drain_end"
     /\ jb' = DrainEnds(jb, f)

---------------------------------------------------------------------------
(* Full reindex: runFullReindex, executeFullReindexBody, scheduleColdBuild. *)

Live(J) == J.full \/ J.recover \/ J.dropRun \/ J.hydrating \/ J.running \/ IsWriting(J)
Stale(J) == J.stuck \/ J.wedged
Joins(J) == Live(J) /\ ~Stale(J)

CurrentFull(J, f) == J.jobs[f].owner
FullBody(J, f) ==
  Goto([J EXCEPT !.full = TRUE, !.fullRun = f], f, "full_fleet")

EarlyRun(J, f) ==
  IF ~Live(J) THEN FullBody(J, f)
  ELSE Goto([Abort(J, TRUE, TRUE) EXCEPT !.fullRun = f, !.jobs[f].on = J.fullRun], f, "full_prior")
StartFull(J, f) ==
  LET G == [J EXCEPT !.jobs = [g \in Slots |-> [J.jobs[g] EXCEPT !.owner = g = f]]]
  IN  IF ~Live(J) THEN FullBody(G, f)
      ELSE Goto([Abort(G, TRUE, TRUE) EXCEPT !.jobs[f].on = G.fullRun], f, "full_prior")

FullEnds(J, f) ==
  LET E == [J EXCEPT !.full = @ /\ ~CurrentFull(J, f)]
  IN  IF J.jobs[f].wiped /\ CurrentFull(J, f) THEN Restore(Call(E, f, "full"), f)
      ELSE Goto(E, f, "full_end")

\* The wipe: abort what runs, drop the index, close the store.
Wipe(J, f) ==
  LET busy == IsWriting(J) \/ J.running \/ J.hydrating \/ J.pending
      A == IF busy THEN Abort(J, TRUE, TRUE) ELSE J
  IN  Goto([Dropped(A) EXCEPT !.pending = FALSE, !.open = FALSE, !.jobs[f].wiped = TRUE],
           f, "slate")

FullStep(f) ==
  \/ /\ jb.jobs[f].at = "full_prior"       \* the prior run, for 5 s at most
     /\ jb' = Goto([jb EXCEPT !.jobs[f].on = jb.recoverRun], f, "full_recover")
  \/ /\ jb.jobs[f].at = "full_recover" /\ jb.jobs[f].on = NoSlot
     /\ jb' = IF ~CurrentFull(jb, f) THEN Goto(jb, f, "full_end")
              ELSE IF jb.open THEN FullBody(Attach(jb), f)
              ELSE Goto(jb, f, "full_open")
  \/ /\ jb.jobs[f].at = "full_open"
     /\ \E opens \in BOOLEAN : jb' = FullBody(Attach([jb EXCEPT !.open = @ \/ opens]), f)
  \/ /\ jb.jobs[f].at = "full_fleet"
     /\ \E may \in BOOLEAN :
          jb' = IF ~CurrentFull(jb, f) \/ (JbSidecar /\ ~may) THEN FullEnds(jb, f)
                ELSE IF jb.jobs[f].cold THEN Wipe(jb, f)
                ELSE Goto(jb, f, "confirm")
  \/ /\ jb.jobs[f].at = "confirm"
     /\ \E yes \in BOOLEAN :
          jb' = IF yes /\ CurrentFull(jb, f) THEN Wipe(jb, f) ELSE FullEnds(jb, f)
  \* clean slate: forceReset leaves an empty index, or a store that is closed
  \/ /\ jb.jobs[f].at = "slate"
     /\ \E reset, opens \in BOOLEAN :
          LET J == IF reset THEN [jb EXCEPT !.content = "empty", !.open = TRUE]
                   ELSE [jb EXCEPT !.open = opens]
          IN  jb' = IF ~CurrentFull(J, f) THEN FullEnds(J, f)
                    ELSE LET A == Attach(J)
                         IN  Goto(Attached(A, f), f, "index")
  \/ /\ jb.jobs[f].at = "index"
     /\ \E loads \in BOOLEAN :
          IF ~loads THEN jb' = Goto(jb, f, "full_catch")
          ELSE IF ~CurrentFull(jb, f) THEN jb' = FullEnds(jb, f)
          ELSE ~Writing(jb, jb.jobs[f].orch) /\ jb' = Goto(jb, f, "index_w")
  \/ /\ jb.jobs[f].at = "index_w"
     /\ \E ok \in BOOLEAN :
          IF ok /\ jb.open
          THEN LET J == [jb EXCEPT !.content = IF jb.jobs[f].orch = 0
                                               THEN "whole" ELSE "partial"]
               IN  jb' = IF CurrentFull(J, f)
                         THEN FullEnds([GoodEnough(Touched(J)) EXCEPT
                                          !.dropping = FALSE, !.jobs[f].wiped = FALSE], f)
                         ELSE FullEnds(J, f)
          ELSE jb' = Goto([jb EXCEPT !.content = IF jb.open THEN "partial" ELSE @], f, "full_catch")
  \/ /\ jb.jobs[f].at = "full_catch"
     /\ \E opens \in BOOLEAN :
          jb' = FullEnds(IF CurrentFull(jb, f) THEN [jb EXCEPT !.open = @ \/ opens] ELSE jb, f)
  \/ /\ jb.jobs[f].at = "full_end"
     /\ LET J == [jb EXCEPT !.fullRun = IF @ = f THEN NoSlot ELSE @]
        IN  jb' = IF ~J.jobs[f].cold \/ ~Current(J, f) THEN End(J, f)
                  ELSE LET failed == ~IsWriting(J) /\ ~J.full /\ J.inv = "empty"
                           K == IF failed THEN StartupCatchUp([J EXCEPT !.pending = TRUE]) ELSE J
                       IN  End([K EXCEPT !.cold = FALSE], f)

ColdStep(f) ==
  \/ /\ jb.jobs[f].at = "cold_fleet"
     /\ \E may \in BOOLEAN, wait \in BOOLEAN :
          jb' = IF JbSidecar /\ ~may
                THEN End([jb EXCEPT !.cold = FALSE, !.waiting = @ \/ wait], f)
                ELSE Goto(jb, f, "cold_model")
  \/ /\ jb.jobs[f].at = "cold_model"
     /\ \E ok \in BOOLEAN :
          jb' = IF ~Current(jb, f) THEN End(jb, f)
                ELSE IF ~ok
                THEN End([StartupCatchUp([jb EXCEPT !.pending = TRUE]) EXCEPT !.cold = FALSE], f)
                ELSE LET J == [jb EXCEPT !.pending = FALSE, !.jobs[f].cold = TRUE]
                     IN  IF Joins(J) THEN Goto([J EXCEPT !.jobs[f].on = J.recoverRun], f, "join")
                                     ELSE StartFull(J, f)
  \/ /\ jb.jobs[f].at = "join" /\ jb.jobs[f].on = NoSlot
     /\ jb' = Goto([jb EXCEPT !.jobs[f].on = jb.fullRun], f, "joined")
  \/ /\ jb.jobs[f].at = "joined" /\ jb.jobs[f].on = NoSlot
     /\ jb' = End(IF Current(jb, f) THEN [jb EXCEPT !.cold = FALSE] ELSE jb, f)

---------------------------------------------------------------------------
(* Recovery: recoverIndexFromSettings, forceResetIndexFromSettings,         *)
(* retryIndexStoreOpen, recoverWedgedStore, forceResetAndReindex.           *)

StartRecover(J, f) ==
  [J EXCEPT !.recover = TRUE, !.recoverRun = f, !.dropping = TRUE]

\* forceResetAndReindex of the session that is current when it is called
Reset(J, f, caller) == Goto(Call([J EXCEPT !.jobs[f].mine = TRUE], f, caller), f, "reset")

Retry(J, f) ==
  IF J.wedged THEN Goto([J EXCEPT !.open = FALSE], f, "wedge_open")
  ELSE Goto([J EXCEPT !.stuck = FALSE, !.jobs[f].mine = TRUE], f, "retry")

RecoverStep(f) ==
  \* awaitCatchUpQuiescence polls for 30 s; then the abort
  \/ /\ jb.jobs[f].at = "quiesce"
     /\ LET A == Abort(jb, FALSE, TRUE)
        IN  jb' = Goto([A EXCEPT !.jobs[f].on = A.fullRun], f, "prior")
  \/ /\ jb.jobs[f].at = "prior" /\ jb.jobs[f].on = NoSlot
     /\ IF jb.jobs[f].kind = "reset" THEN jb' = Reset(jb, f, "recover")
        ELSE \E opens \in BOOLEAN :
               jb' = Retry(Call(Attach([jb EXCEPT !.open = @ \/ opens]), f, "recover"), f)
  \/ /\ jb.jobs[f].at = "retry"
     /\ \E opens \in BOOLEAN :
          LET J == [jb EXCEPT !.open = @ \/ opens]
          IN  jb' = IF J.open THEN Resume(J, f) ELSE Goto(J, f, "return")
  \/ /\ jb.jobs[f].at = "wedge_open"
     /\ \E opens, counts \in BOOLEAN :
          LET J == [jb EXCEPT !.open = @ \/ opens]
          IN  jb' = IF J.open /\ counts
                    THEN LET C == GoodEnough([J EXCEPT !.wedged = FALSE, !.stuck = FALSE,
                                                       !.inv = J.content])
                         IN  Goto(StartupCatchUp([C EXCEPT !.pending = TRUE]), f, "return")
                    ELSE Reset(J, f, "unwedge")
  \/ /\ jb.jobs[f].at = "reset"
     /\ \E reset \in BOOLEAN :
          LET J == IF reset THEN [jb EXCEPT !.content = "empty", !.open = TRUE]
                            ELSE [jb EXCEPT !.open = FALSE]
          IN  jb' = IF ~Current(J, f) THEN Goto(J, f, "return")
                    ELSE IF ~reset THEN Restore(Dropped(J), f)
                    ELSE Restore(Call(Dropped([J EXCEPT !.wedged = FALSE, !.stuck = FALSE]),
                                      f, "reset"), f)

\* indexing-stall-guard and handleIndexingStall
StallStep(f) ==
  /\ jb.jobs[f].at = "stall"
  /\ \E opens, counts \in BOOLEAN :
       LET J == Attach([jb EXCEPT !.open = @ \/ opens])
       IN  jb' = IF ~J.open THEN Retry(Call(J, f, "stall"), f)
                 ELSE IF ~counts
                 THEN Retry(Call([J EXCEPT !.wedged = TRUE, !.stuck = TRUE], f, "stall"), f)
                 ELSE LET C == [J EXCEPT !.inv = J.content, !.wedged = FALSE]
                      IN  Goto(Call(IF C.inv = "whole" THEN [C EXCEPT !.stuck = TRUE]
                                    ELSE MaybeResume([C EXCEPT !.stuck = FALSE]), f, "stall"),
                               f, "return")

\* An awaited function returns to its caller.
Returns(f) ==
  /\ jb.jobs[f].at = "return"
  /\ LET nest == jb.jobs[f].nest
         J == [jb EXCEPT !.jobs[f].nest = IF nest = <<>> THEN nest ELSE Tail(nest)]
     IN  jb' =
       CASE nest = <<>> -> End(J, f)
         [] nest # <<>> /\ Head(nest) = "booted" ->
              End(IF ~Current(J, f) THEN J
                  ELSE PostBoot([J EXCEPT !.hydrating = @ /\ J.depth > 0]), f)
         [] nest # <<>> /\ Head(nest) = "full" -> Goto(J, f, "full_end")
         [] nest # <<>> /\ Head(nest) = "reset" ->
              Goto(IF ~Current(J, f) THEN J
                   ELSE LET R == [J EXCEPT !.running = FALSE]
                        IN  IF R.inv = "whole" THEN R
                            ELSE StartupCatchUp([R EXCEPT !.pending = TRUE]), f, "return")
         [] nest # <<>> /\ Head(nest) = "recover" ->
              LET R == IF J.jobs[f].kind = "reset" THEN J
                       ELSE [StartupCatchUp(MaybeResume(J)) EXCEPT !.dropping = FALSE]
              IN  End(IF R.recoverRun = f THEN [R EXCEPT !.recoverRun = NoSlot, !.recover = FALSE]
                      ELSE R, f)
         [] nest # <<>> /\ Head(nest) = "stall" ->
              Goto([J EXCEPT !.stalling = FALSE], f, "return")
         [] OTHER -> Goto(J, f, "return")

---------------------------------------------------------------------------
(* What starts a job: the user, the stall guard, the watchdog, the poll.    *)

NewJob(kind, at) ==
  \E f \in Slots : /\ ~Busy(jb, f)
                   /\ LET J == [jb EXCEPT !.jobs[f] = Job(kind, at)]
                      IN  jb' = CASE kind = "full" -> StartFull(J, f)
                                  [] kind \in {"recover", "reset"} -> StartRecover(J, f)
                                  [] kind = "stall" ->
                                       Abort([J EXCEPT !.stalling = TRUE], FALSE, TRUE)
                                  [] kind = "poll" ->
                                       Attached(HydrateBegins(J, f), f)

Click ==
  /\ ~Joins(jb)
  /\ \/ NewJob("full", "full_prior")
     \/ \E kind \in {"recover", "reset"} : NewJob(kind, "quiesce")

Stall ==
  /\ (jb.running \/ jb.full) /\ ~IsWriting(jb) /\ ~jb.hydrating /\ ~jb.stalling
  /\ NewJob("stall", "stall")

\* The boot watchdog, or a bounded read of an idle store that times out.
Watchdog ==
  /\ \/ ~jb.good /\ ~jb.waiting /\ ~jb.stuck /\ jb' = [jb EXCEPT !.stuck = TRUE]
     \/ /\ jb.open /\ ~jb.running /\ ~IsWriting(jb)
        /\ jb' = [jb EXCEPT !.stuck = TRUE, !.wedged = TRUE]

Poll ==
  /\ ~jb.running /\ ~IsWriting(jb) /\ jb.open
  /\ NewJob("poll", "boot")

JobStep(f) ==
  /\ \/ RestoreStep(f) \/ BootStep(f) \/ CatchUpStep(f) \/ FullStep(f) \/ ColdStep(f)
     \/ RecoverStep(f) \/ StallStep(f) \/ Returns(f)

JbNext ==
  /\ \/ /\ jbLeft > 0 /\ jbLeft' = jbLeft - 1
        /\ Click \/ Stall \/ Watchdog \/ Poll
     \/ UNCHANGED jbLeft /\ \E f \in Slots : JobStep(f)
  /\ ~jb'.over

JbSpec == JbInit /\ [][JbNext]_jbVars

---------------------------------------------------------------------------
(* Properties. *)

Running(at) == {f \in Slots : jb.jobs[f].at \in at}
Restoring == {"restore_fleet", "restore", "restore_w"}

\* The restore latch does not leak and does not admit two: it is up exactly
\* while one restore is between its start and its finally, whatever aborts,
\* resets and full reindexes went on around it.
JbDropLatch == Cardinality(Running(Restoring)) = IF jb.dropRun THEN 1 ELSE 0

\* The hydrating flag of the session is up exactly while a hydrate of that
\* session runs: a hydrate that outlives its session neither drops the flag
\* of the next one nor leaves it up (it blocks search, builds and catch-up).
JbHydrating ==
  LET own == {f \in Slots : Busy(jb, f) /\ jb.jobs[f].hyd = "own"}
  IN  /\ jb.hydrating = (own # {})
      /\ jb.hydrating => jb.depth = Cardinality(own)

\* The jobs wait for each other without a cycle: full reindexes and
\* recoveries that take over from one another never deadlock.
JbNoWaitCycle ==
  LET On(f) == jb.jobs[f].on
      W == {f \in Slots : On(f) # NoSlot}
  IN  \A S \in (SUBSET W) \ {{}} : \E f \in S : On(f) \notin S

\* A dropped index is never shown as a plain, idle index: when it is empty
\* and nothing is running, the plugin says that it restores, waits, is stuck
\* or still owes a build.
JbEmptyShown ==
  (jb.content = "empty" /\ jb.good /\ \A f \in Slots : ~Busy(jb, f))
     => (jb.dropping \/ jb.waiting \/ jb.stuck \/ jb.pending)

\* fullReindexInFlight is up only while a full reindex runs that will take
\* it down.
JbFullLatch ==
  jb.full => \E f \in Slots : Busy(jb, f) /\ jb.jobs[f].owner

\* One job at a time has the store, whichever orchestrator it came from.
JbOneWriter == Cardinality(Running(Section)) <= 1

\* One drain per session.
JbOneDrain ==
  Cardinality({f \in Running({"drain", "drain_w", "drained", "drain_end"}) :
                 jb.jobs[f].mine}) <= 1

\* The cold-build latch is up only while a cold build runs that takes it down.
JbColdLatch ==
  jb.cold => \E f \in Slots : jb.jobs[f].kind = "cold" /\ Current(jb, f)
=============================================================================
