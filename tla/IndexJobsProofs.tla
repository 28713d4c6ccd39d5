-------------------------- MODULE IndexJobsProofs --------------------------
(***************************************************************************)
(* The latches of the plugin object are true and its jobs never wait for   *)
(* each other in a cycle, for every number of jobs and of events: the      *)
(* restore latch, the hydrating flag with its depth, and who awaits whom.  *)
(*                                                                         *)
(* JInv ties each latch to the jobs that are at the labels it stands for.  *)
(* The proof follows main.ts: most synchronous functions only set fields   *)
(* that no latch is made of and start jobs that hold none (Same); the step *)
(* of a job changes itself and the latches it owns (Off, Step).            *)
(***************************************************************************)
EXTENDS IndexJobs, FiniteSetTheorems, TLAPS

---------------------------------------------------------------------------
(* The types of the plugin object and of a job. *)

Ats ==
  {"idle", "open", "boot", "boot_w", "boot_tail", "recon", "restore_open", "restore_fleet",
   "restore", "restore_w", "restore_end", "startup", "drain", "drain_w", "drained", "drain_end",
   "full_prior", "full_recover", "full_open", "full_fleet", "confirm", "slate", "index",
   "index_w", "full_catch", "full_end", "cold_fleet", "cold_model", "join", "joined", "quiesce",
   "prior", "retry", "wedge_open", "reset", "stall", "return"}
Kinds ==
  {"none", "boot", "catchup", "startup", "cold", "drop", "recon", "full", "recover", "reset",
   "stall", "poll"}
Callers == {"booted", "full", "reset", "recover", "unwedge", "stall"}

JobType ==
  [at : Ats, kind : Kinds, mine : BOOLEAN, owner : BOOLEAN, orch : Int,
   on : Slots \cup {NoSlot}, hyd : {"none", "own", "late"}, nest : Seq(Callers),
   cold : BOOLEAN, wiped : BOOLEAN]

JbType ==
  [open : BOOLEAN, content : Index, inv : Index \cup {"unknown"}, full : BOOLEAN,
   fullRun : Slots \cup {NoSlot}, recover : BOOLEAN, recoverRun : Slots \cup {NoSlot},
   pending : BOOLEAN, running : BOOLEAN, dropping : BOOLEAN, dropRun : BOOLEAN,
   hydrating : BOOLEAN, depth : Nat, counted : BOOLEAN, cold : BOOLEAN, waiting : BOOLEAN,
   boot : BOOLEAN, good : BOOLEAN, stuck : BOOLEAN, wedged : BOOLEAN, stalling : BOOLEAN,
   over : BOOLEAN, jobs : [Slots -> JobType]]

\* What the latches are made of.
Latches(J) ==
  <<J.dropRun, J.hydrating, J.depth, J.counted, J.fullRun, J.recoverRun>>
SameJob(j, k) == k.at = j.at /\ k.hyd = j.hyd /\ k.on = j.on /\ k.nest = j.nest

\* The jobs that the synchronous functions start.
Spawned(k) ==
  /\ k.at \in {"drain", "startup", "cold_fleet", "restore_open", "recon"}
  /\ k.hyd = "none" /\ k.on = NoSlot /\ k.nest = <<>>

\* Nothing but spawned jobs: what a synchronous function does.
Same(J, K) ==
  /\ K \in JbType /\ Latches(K) = Latches(J)
  /\ \A g \in Slots : \/ SameJob(J.jobs[g], K.jobs[g])
                      \/ J.jobs[g].at = "idle" /\ Spawned(K.jobs[g])

\* The synchronous functions one after the other.
LEMMA SameTrans ==
  ASSUME NEW J, NEW K, NEW L, Same(J, K), Same(K, L)
  PROVE  Same(J, L)
<1>1. ASSUME NEW g \in Slots
      PROVE  \/ SameJob(J.jobs[g], L.jobs[g])
             \/ J.jobs[g].at = "idle" /\ Spawned(L.jobs[g])
  BY DEF Same, SameJob, Spawned
<1> QED
  BY <1>1 DEF Same

\* Fields that no latch is made of are set.
LEMMA Untracked ==
  ASSUME NEW J, NEW K \in JbType, K.jobs = J.jobs, Latches(K) = Latches(J)
  PROVE  Same(J, K)
  BY DEF Same, SameJob

\* A job is started, if a slot is idle.
LEMMA SpawnSame ==
  ASSUME NEW J \in JbType, NEW job \in JobType, Spawned(job)
  PROVE  Same(J, Spawn(J, job))
<1>1. CASE \E f \in Slots : J.jobs[f] = job
  BY <1>1, Untracked DEF Spawn
<1>2. CASE ~(\E f \in Slots : J.jobs[f] = job) /\ \A f \in Slots : Busy(J, f)
  <2>1. Spawn(J, job) = [J EXCEPT !.over = TRUE]
    BY <1>2 DEF Spawn
  <2>2. /\ [J EXCEPT !.over = TRUE] \in JbType /\ [J EXCEPT !.over = TRUE].jobs = J.jobs
        /\ Latches([J EXCEPT !.over = TRUE]) = Latches(J)
    BY DEF JbType, Latches
  <2> QED
    BY <2>1, <2>2, Untracked
<1>3. CASE ~(\E f \in Slots : J.jobs[f] = job) /\ ~\A f \in Slots : Busy(J, f)
  <2>1. PICK f \in Slots : Spawn(J, job) = [J EXCEPT !.jobs[f] = job] /\ ~Busy(J, f)
    <3> DEFINE f == CHOOSE f \in Slots : ~Busy(J, f)
    <3>1. f \in Slots /\ ~Busy(J, f)
      BY <1>3
    <3>2. Spawn(J, job) = [J EXCEPT !.jobs[f] = job]
      BY <1>3 DEF Spawn
    <3> QED
      BY <3>1, <3>2
  <2>2. [J EXCEPT !.jobs[f] = job] = [J EXCEPT !.jobs = [J.jobs EXCEPT ![f] = job]]
    BY DEF JbType
  <2>3. [J.jobs EXCEPT ![f] = job] \in [Slots -> JobType]
    BY DEF JbType
  <2> DEFINE K == [J EXCEPT !.jobs = [J.jobs EXCEPT ![f] = job]]
  <2>4. K \in JbType /\ K.jobs = [J.jobs EXCEPT ![f] = job] /\ Latches(K) = Latches(J)
    BY <2>3 DEF JbType, Latches
  <2>5. J.jobs \in [Slots -> JobType]
    BY DEF JbType
  <2> HIDE DEF K
  <2>6. \A g \in Slots : \/ SameJob(J.jobs[g], K.jobs[g])
                         \/ J.jobs[g].at = "idle" /\ Spawned(K.jobs[g])
    BY <2>1, <2>4, <2>5 DEF Busy, SameJob
  <2> QED
    BY <2>1, <2>2, <2>4, <2>6 DEF Same, K
<1> QED
  BY <1>1, <1>2, <1>3

\* The jobs that scheduling starts hold no latch and wait for no one.
LEMMA NewIsSpawned ==
  ASSUME NEW kind \in Kinds, NEW at \in {"drain", "startup", "cold_fleet", "restore_open", "recon"}
  PROVE  /\ Job(kind, at) \in JobType /\ Spawned(Job(kind, at))
         /\ [Job(kind, at) EXCEPT !.orch = 0] \in JobType
         /\ Spawned([Job(kind, at) EXCEPT !.orch = 0])
<1>1. /\ NoJob \in JobType /\ NoJob.hyd = "none" /\ NoJob.on = NoSlot /\ NoJob.nest = <<>>
  <2>1. -1 \in Int /\ <<>> \in Seq(Callers)
    OBVIOUS
  <2> QED
    BY <2>1 DEF NoJob, JobType, Ats, Kinds
<1>2. ASSUME NEW j \in JobType
      PROVE  LET k == [j EXCEPT !.at = at, !.kind = kind, !.mine = TRUE]
             IN  /\ k \in JobType /\ k.at = at /\ k.hyd = j.hyd /\ k.on = j.on /\ k.nest = j.nest
  <2>1. at \in Ats
    BY DEF Ats
  <2> QED
    BY <2>1 DEF JobType
<1>3. ASSUME NEW j \in JobType
      PROVE  LET k == [j EXCEPT !.orch = 0]
             IN  k \in JobType /\ SameJob(j, k)
  BY DEF JobType, SameJob
<1> QED
  BY <1>1, <1>2, <1>3, Zenon DEF Job, Spawned, SameJob

\* The fields that no latch is made of.
LEMMA FieldSet ==
  ASSUME NEW J \in JbType, NEW b \in BOOLEAN
  PROVE  /\ Same(J, [J EXCEPT !.running = b]) /\ Same(J, [J EXCEPT !.pending = b])
         /\ Same(J, [J EXCEPT !.cold = b]) /\ Same(J, [J EXCEPT !.waiting = b])
         /\ Same(J, [J EXCEPT !.open = b]) /\ Same(J, [J EXCEPT !.boot = b])
         /\ Same(J, [J EXCEPT !.dropping = b]) /\ Same(J, [J EXCEPT !.stuck = b])
         /\ Same(J, [J EXCEPT !.full = b]) /\ Same(J, [J EXCEPT !.recover = b])
         /\ Same(J, [J EXCEPT !.wedged = b]) /\ Same(J, [J EXCEPT !.stalling = b])
<1> DEFINE F(K) == K \in JbType /\ K.jobs = J.jobs /\ Latches(K) = Latches(J)
<1>1. F([J EXCEPT !.running = b]) /\ F([J EXCEPT !.pending = b])
  BY DEF JbType, Latches
<1>2. F([J EXCEPT !.cold = b]) /\ F([J EXCEPT !.waiting = b])
  BY DEF JbType, Latches
<1>3. F([J EXCEPT !.open = b]) /\ F([J EXCEPT !.boot = b])
  BY DEF JbType, Latches
<1>4. F([J EXCEPT !.dropping = b]) /\ F([J EXCEPT !.stuck = b])
  BY DEF JbType, Latches
<1>6. F([J EXCEPT !.full = b]) /\ F([J EXCEPT !.recover = b])
  BY DEF JbType, Latches
<1>7. F([J EXCEPT !.wedged = b]) /\ F([J EXCEPT !.stalling = b])
  BY DEF JbType, Latches
<1> QED
  BY <1>1, <1>2, <1>3, <1>4, <1>6, <1>7, Untracked

LEMMA TextSet ==
  ASSUME NEW J \in JbType, NEW s \in Index
  PROVE  Same(J, [J EXCEPT !.content = s]) /\ Same(J, [J EXCEPT !.inv = s])
<1> DEFINE F(K) == K \in JbType /\ K.jobs = J.jobs /\ Latches(K) = Latches(J)
<1>1. F([J EXCEPT !.content = s]) /\ F([J EXCEPT !.inv = s])
  BY DEF JbType, Latches, Index
<1> QED
  BY <1>1, Untracked

LEMMA SameSelf == ASSUME NEW J \in JbType PROVE Same(J, J)
  BY DEF Same, SameJob

\* Each synchronous function is of that kind.
LEMMA RunCatchUpSame == ASSUME NEW J \in JbType PROVE Same(J, RunCatchUp(J))
<1>1. CASE J.waiting \/ ~J.pending \/ J.running
  BY <1>1, SameSelf DEF RunCatchUp
<1>2. CASE ~(J.waiting \/ ~J.pending \/ J.running)
  <2> DEFINE K == [J EXCEPT !.running = TRUE]
  <2>1. Same(J, K) /\ K \in JbType
    BY FieldSet DEF Same
  <2>2. RunCatchUp(J) = Spawn(K, [Job("catchup", "drain") EXCEPT !.orch = 0])
    BY <1>2 DEF RunCatchUp
  <2> HIDE DEF K
  <2> QED
    BY <2>1, <2>2, NewIsSpawned, SpawnSame, SameTrans DEF Kinds
<1> QED
  BY <1>1, <1>2

LEMMA StartupSame == ASSUME NEW J \in JbType PROVE Same(J, StartupCatchUp(J))
  BY SameSelf, NewIsSpawned, SpawnSame DEF StartupCatchUp, Kinds

LEMMA ColdBuildSame == ASSUME NEW J \in JbType PROVE Same(J, ColdBuild(J))
  BY NewIsSpawned, SpawnSame DEF ColdBuild, Kinds

LEMMA BuildSame == ASSUME NEW J \in JbType, NEW mode PROVE Same(J, Build(J, mode))
<1>1. Same(J, J)
  BY SameSelf
<1>2. Same(J, ColdBuild([J EXCEPT !.cold = TRUE]))
  <2> DEFINE K == [J EXCEPT !.cold = TRUE]
  <2>1. Same(J, K) /\ K \in JbType
    BY FieldSet DEF Same
  <2> HIDE DEF K
  <2>2. Same(J, ColdBuild(K))
    BY <2>1, ColdBuildSame, SameTrans
  <2> QED
    BY <2>2 DEF K
<1>3. Same(J, StartupCatchUp([J EXCEPT !.pending = TRUE]))
  <2> DEFINE K == [J EXCEPT !.pending = TRUE]
  <2>1. Same(J, K) /\ K \in JbType
    BY FieldSet DEF Same
  <2> HIDE DEF K
  <2>2. Same(J, StartupCatchUp(K))
    BY <2>1, StartupSame, SameTrans
  <2> QED
    BY <2>2 DEF K
<1> QED
  BY <1>1, <1>2, <1>3 DEF Build

LEMMA MaybeResumeSame == ASSUME NEW J \in JbType PROVE Same(J, MaybeResume(J))
  BY SameSelf, BuildSame DEF MaybeResume

LEMMA PostBootSame == ASSUME NEW J \in JbType PROVE Same(J, PostBoot(J))
<1>1. Same(J, DropRecovery(J))
  BY SameSelf, NewIsSpawned, SpawnSame DEF DropRecovery, Kinds
<1> QED
  BY <1>1, SameSelf, BuildSame, MaybeResumeSame DEF PostBoot

LEMMA GoodEnoughSame == ASSUME NEW J \in JbType PROVE Same(J, GoodEnough(J))
<1>1. CASE J.good
  BY <1>1, SameSelf DEF GoodEnough
<1>2. CASE ~J.good
  <2> DEFINE K == [J EXCEPT !.good = TRUE, !.dropping = FALSE, !.stuck = J.wedged]
  <2>1. K \in JbType /\ K.jobs = J.jobs /\ Latches(K) = Latches(J)
    BY DEF JbType, Latches
  <2>2. GoodEnough(J) = MaybeResume(K)
    BY <1>2 DEF GoodEnough
  <2> HIDE DEF K
  <2> QED
    BY <2>1, <2>2, Untracked, MaybeResumeSame, SameTrans
<1> QED
  BY <1>1, <1>2

LEMMA DroppedSame == ASSUME NEW J \in JbType PROVE Same(J, Dropped(J))
<1> DEFINE K == [J EXCEPT !.good = FALSE, !.dropping = TRUE, !.inv = "empty"]
<1>1. K \in JbType /\ K.jobs = J.jobs /\ Latches(K) = Latches(J)
  BY DEF JbType, Latches, Index
<1> QED
  BY <1>1, Untracked DEF Dropped

LEMMA HydratedSame == ASSUME NEW J \in JbType, NEW f, NEW how PROVE Same(J, Hydrated(J, f, how))
<1>1. Hydrated(J, f, how) =
        [J EXCEPT !.content = IF how = "healed"
                              THEN (IF J.content = "whole" THEN J.content ELSE "partial")
                              ELSE J.content]
  BY DEF Hydrated
<1> QED
  <2>1. J.content \in Index /\ {"whole", "partial"} \subseteq Index
    BY DEF JbType, Index
  <2> QED
    BY <1>1, <2>1, TextSet

LEMMA WaitSame == ASSUME NEW J \in JbType, NEW how PROVE Same(J, HydrateWait(J, how))
  BY FieldSet DEF HydrateWait

LEMMA TouchedSame == ASSUME NEW J \in JbType PROVE Same(J, Touched(J))
<1>1. J.content \in Index
  BY DEF JbType
<1> QED
  BY <1>1, TextSet, SameSelf DEF Touched

\* A new orchestrator changes what no latch is made of.
LEMMA AttachSame == ASSUME NEW J \in JbType PROVE Same(J, Attach(J))
<1> DEFINE jobs == [g \in Slots |-> [J.jobs[g] EXCEPT !.orch =
                      IF @ \in 0 .. (Cardinality(Slots) - 1) THEN @ + 1 ELSE @]]
<1>1. ASSUME NEW g \in Slots  PROVE jobs[g] \in JobType /\ SameJob(J.jobs[g], jobs[g])
  <2>1. J.jobs[g] \in JobType
    BY DEF JbType
  <2>2. \A n \in Int : [J.jobs[g] EXCEPT !.orch = n] \in JobType
                         /\ SameJob(J.jobs[g], [J.jobs[g] EXCEPT !.orch = n])
    BY <2>1 DEF JobType, SameJob
  <2>3. J.jobs[g].orch \in Int /\ J.jobs[g].orch + 1 \in Int
    BY <2>1 DEF JobType
  <2> QED
    BY <2>2, <2>3
<1>2. Attach(J) = [J EXCEPT !.jobs = jobs]
  BY DEF Attach
<1>3. jobs \in [Slots -> JobType]
  BY <1>1
<1> HIDE DEF jobs
<1>4. /\ Attach(J) \in JbType /\ Attach(J).jobs = jobs /\ Latches(Attach(J)) = Latches(J)
  BY <1>2, <1>3 DEF JbType, Latches
<1> QED
  BY <1>1, <1>4 DEF Same

-----------------------------------------------------------------------------
\* The step of one job: the others stay as they are, save for what is spawned.
Off(f, J, K) ==
  /\ K \in JbType
  /\ \A g \in Slots \ {f} : \/ SameJob(J.jobs[g], K.jobs[g])
                            \/ J.jobs[g].at = "idle" /\ Spawned(K.jobs[g])

LEMMA OffTrans ==
  ASSUME NEW f, NEW J, NEW K, NEW L, Off(f, J, K), Off(f, K, L)
  PROVE  Off(f, J, L)
<1>1. ASSUME NEW g \in Slots \ {f}
      PROVE  \/ SameJob(J.jobs[g], L.jobs[g])
             \/ J.jobs[g].at = "idle" /\ Spawned(L.jobs[g])
  BY DEF Off, SameJob, Spawned
<1> QED
  BY <1>1 DEF Off

\* The step of a job, with what it does to itself and to the latches.
Step(f, J, K) == Off(f, J, K) /\ Latches(K) = Latches(J)

LEMMA SameIsStep ==
  ASSUME NEW f \in Slots, NEW J, NEW K, Same(J, K), J.jobs[f].at # "idle"
  PROVE  Step(f, J, K) /\ SameJob(J.jobs[f], K.jobs[f]) /\ K \in JbType
  BY DEF Same, Step, Off

\* A job is put in a slot.
LEMMA PutJob ==
  ASSUME NEW J \in JbType, NEW f \in Slots, NEW j \in JobType
  PROVE  LET K == [J EXCEPT !.jobs = [J.jobs EXCEPT ![f] = j]]
         IN  Step(f, J, K) /\ K \in JbType /\ K.jobs[f] = j
<1> DEFINE K == [J EXCEPT !.jobs = [J.jobs EXCEPT ![f] = j]]
<1>1. [J.jobs EXCEPT ![f] = j] \in [Slots -> JobType]
  BY DEF JbType
<1>2. /\ K \in JbType /\ K.jobs = [J.jobs EXCEPT ![f] = j] /\ Latches(K) = Latches(J)
  BY <1>1 DEF JbType, Latches
<1>3. J.jobs \in [Slots -> JobType]
  BY DEF JbType
<1> HIDE DEF K
<1>4. K.jobs[f] = j /\ \A g \in Slots \ {f} : SameJob(J.jobs[g], K.jobs[g])
  BY <1>2, <1>3 DEF SameJob
<1> QED
  BY <1>2, <1>4 DEF Step, Off, K

LEMMA GotoStep ==
  ASSUME NEW J \in JbType, NEW f \in Slots, NEW at \in Ats
  PROVE  /\ Step(f, J, Goto(J, f, at)) /\ Goto(J, f, at) \in JbType
         /\ Goto(J, f, at).jobs[f].at = at
         /\ Goto(J, f, at).jobs[f].hyd = J.jobs[f].hyd
         /\ Goto(J, f, at).jobs[f].on = J.jobs[f].on
         /\ Goto(J, f, at).jobs[f].nest = J.jobs[f].nest
<1> DEFINE j == [J.jobs[f] EXCEPT !.at = at,
                                  !.orch = IF at \in Captured THEN J.jobs[f].orch ELSE -1]
<1>1. J.jobs[f] \in JobType
  BY DEF JbType
<1>2. j \in JobType /\ j.at = at /\ j.hyd = J.jobs[f].hyd /\ j.on = J.jobs[f].on
      /\ j.nest = J.jobs[f].nest
  <2>1. \A n \in Int : LET k == [J.jobs[f] EXCEPT !.at = at, !.orch = n]
                      IN  /\ k \in JobType /\ k.at = at /\ k.hyd = J.jobs[f].hyd
                          /\ k.on = J.jobs[f].on /\ k.nest = J.jobs[f].nest
    BY <1>1 DEF JobType
  <2>2. J.jobs[f].orch \in Int /\ -1 \in Int
    BY <1>1 DEF JobType
  <2> DEFINE n == IF at \in Captured THEN J.jobs[f].orch ELSE -1
  <2>3. n \in Int
    BY <2>2
  <2> HIDE DEF n
  <2> QED
    BY <2>1, <2>3, Zenon DEF n
<1>3. Goto(J, f, at) = [J EXCEPT !.jobs = [J.jobs EXCEPT ![f] = j]]
  BY <1>1 DEF Goto, JbType, JobType
<1> HIDE DEF j
<1> QED
  BY <1>2, <1>3, PutJob

-----------------------------------------------------------------------------
(***************************************************************************)
(* The invariant of the jobs                                               *)
(***************************************************************************)
HydAts  == {"boot", "boot_w", "restore", "restore_w"}
OnAts   == {"prior", "full_prior", "full_recover", "join", "joined"}
Asking  == {"quiesce", "prior"}
CanWait == {"quiesce", "prior", "full_prior", "full_recover", "full_open", "cold_fleet",
            "cold_model", "join", "joined"}

\* A hydrate and a wait each belong to a few places of a job.
JobInv(j) ==
  /\ j.hyd # "none" => j.at \in HydAts
  /\ j.on # NoSlot => j.at \in OnAts
  /\ j.at \in Asking => j.nest = <<>>

\* A job that will not wait for another any more.
Calm(j) == j.at \notin CanWait /\ j.at # "idle"

\* The full reindex that others wait for is past its own waiting, and will clear fullRun;
\* the recovery, at most it waits for a full reindex, and it will clear recoverRun.
FullAt(j) ==
  \/ j.at \in {"full_fleet", "confirm", "slate", "index", "index_w", "full_catch", "full_end"}
  \/ /\ j.at \in {"restore_fleet", "restore", "restore_w", "return"}
     /\ j.nest # <<>> /\ Head(j.nest) = "full"
Recovers == {<<"recover">>, <<"unwedge">> \o <<"recover">>}
RecoverNests == Recovers \cup { <<"reset">> \o r : r \in Recovers }
RecoverAt(j) ==
  \/ j.at \in Asking
  \/ /\ j.at \in {"retry", "wedge_open", "boot", "boot_w", "boot_tail"} /\ j.nest = <<"recover">>
  \/ /\ j.at = "reset" /\ j.nest \in Recovers
  \/ /\ j.at \in {"restore_fleet", "restore", "restore_w", "return"} /\ j.nest \in RecoverNests

Own(J) == {g \in Slots : J.jobs[g].hyd = "own"}

DropInv(J) ==
  /\ \A g \in Slots : J.jobs[g].at \in Restoring => J.dropRun
  /\ \A g, h \in Slots : J.jobs[g].at \in Restoring /\ J.jobs[h].at \in Restoring => g = h
  /\ J.dropRun => \E g \in Slots : J.jobs[g].at \in Restoring

HydInv(J) ==
  /\ J.hydrating = (Own(J) # {})
  /\ J.counted => J.depth = Cardinality(Own(J))
  /\ ~J.counted => Own(J) = {} /\ J.depth = 0

WaitsWell(J, at, g) ==
  \/ g = NoSlot
  \/ g \in Slots /\ Calm(J.jobs[g])
  \/ g \in Slots /\ J.jobs[g].at \in Asking /\ at # "prior"

WaitInv(J) ==
  /\ \A g \in Slots : WaitsWell(J, J.jobs[g].at, J.jobs[g].on)
  /\ J.fullRun # NoSlot => J.fullRun \in Slots /\ FullAt(J.jobs[J.fullRun])
  /\ J.recoverRun # NoSlot => J.recoverRun \in Slots /\ RecoverAt(J.jobs[J.recoverRun])

JInv(J) ==
  /\ J \in JbType
  /\ \A g \in Slots : JobInv(J.jobs[g])
  /\ DropInv(J) /\ HydInv(J) /\ WaitInv(J)

\* What the invariant says of one job is about the tracked fields.
LEMMA TrackedFields ==
  ASSUME NEW j, NEW k, SameJob(j, k)
  PROVE  /\ JobInv(k) <=> JobInv(j)
         /\ Calm(k) <=> Calm(j)
         /\ FullAt(k) <=> FullAt(j)
         /\ RecoverAt(k) <=> RecoverAt(j)
<1>1. (JobInv(k) <=> JobInv(j)) /\ (Calm(k) <=> Calm(j))
  BY DEF SameJob, JobInv, Calm
<1>2. FullAt(k) <=> FullAt(j)
  BY DEF SameJob, FullAt
<1>3. RecoverAt(k) <=> RecoverAt(j)
  BY DEF SameJob, RecoverAt
<1> QED
  BY <1>1, <1>2, <1>3

\* What a spawned and what an idle job is not.
LEMMA SpawnedFields ==
  ASSUME NEW k, Spawned(k)
  PROVE  /\ JobInv(k) /\ k.at \notin Restoring /\ k.hyd = "none" /\ k.on = NoSlot
         /\ k.at # "idle"
  BY DEF Spawned, JobInv, Restoring, Asking

LEMMA IdleFields ==
  ASSUME NEW j, j.at = "idle"
  PROVE  ~Calm(j) /\ ~FullAt(j) /\ ~RecoverAt(j) /\ j.at \notin Asking /\ j.at \notin Restoring
  BY DEF Calm, FullAt, RecoverAt, Asking, Restoring

\* The restore latch, when the step of f neither starts nor ends a restore, starts one,
\* ends one.
LEMMA DropSame ==
  ASSUME NEW J, NEW K, NEW f \in Slots, Off(f, J, K), DropInv(J), K.dropRun = J.dropRun,
         K.jobs[f].at \in Restoring <=> J.jobs[f].at \in Restoring
  PROVE  DropInv(K)
<1>1. \A g \in Slots : K.jobs[g].at \in Restoring <=> J.jobs[g].at \in Restoring
  BY SpawnedFields, IdleFields DEF Off, SameJob
<1> QED
  BY <1>1 DEF DropInv

LEMMA DropUp ==
  ASSUME NEW J, NEW K, NEW f \in Slots, Off(f, J, K), DropInv(J), ~J.dropRun, K.dropRun,
         K.jobs[f].at \in Restoring
  PROVE  DropInv(K)
<1>1. \A g \in Slots \ {f} : K.jobs[g].at \notin Restoring
  BY SpawnedFields DEF Off, SameJob, DropInv
<1> QED
  BY <1>1 DEF DropInv

LEMMA DropDown ==
  ASSUME NEW J, NEW K, NEW f \in Slots, Off(f, J, K), DropInv(J), ~K.dropRun,
         J.jobs[f].at \in Restoring, K.jobs[f].at \notin Restoring
  PROVE  DropInv(K)
<1>1. \A g \in Slots \ {f} : K.jobs[g].at \notin Restoring
  BY SpawnedFields DEF Off, SameJob, DropInv
<1> QED
  BY <1>1 DEF DropInv

\* The hydrates of the session.
LEMMA OwnOff ==
  ASSUME NEW J, NEW K, NEW f \in Slots, Off(f, J, K), \A g \in Slots : JobInv(J.jobs[g])
  PROVE  Own(K) \ {f} = Own(J) \ {f}
<1>1. \A g \in Slots \ {f} : K.jobs[g].hyd = "own" <=> J.jobs[g].hyd = "own"
  BY SpawnedFields DEF Off, SameJob, JobInv, HydAts
<1> QED
  BY <1>1 DEF Own

LEMMA HydSame ==
  ASSUME NEW J, NEW K, NEW f \in Slots, Off(f, J, K), \A g \in Slots : JobInv(J.jobs[g]),
         HydInv(J), K.hydrating = J.hydrating, K.depth = J.depth, K.counted = J.counted,
         K.jobs[f].hyd = "own" <=> J.jobs[f].hyd = "own"
  PROVE  HydInv(K)
<1>1. Own(K) = Own(J)
  BY OwnOff DEF Own
<1> QED
  BY <1>1 DEF HydInv

LEMMA HydBegin ==
  ASSUME NEW J, NEW K, NEW f \in Slots, Off(f, J, K), \A g \in Slots : JobInv(J.jobs[g]),
         HydInv(J), J \in JbType, J.jobs[f].hyd # "own", K.jobs[f].hyd = "own",
         K.hydrating, K.counted,
         K.depth = IF J.counted THEN J.depth + 1 ELSE 1
  PROVE  HydInv(K)
<1>1. Own(K) = Own(J) \cup {f} /\ f \notin Own(J)
  BY OwnOff DEF Own
<1>2. IsFiniteSet(Own(J))
  BY JobsAssumption, FS_Subset DEF Own
<1>3. Cardinality(Own(K)) = Cardinality(Own(J)) + 1
  BY <1>1, <1>2, FS_AddElement
<1>4. K.hydrating /\ Own(K) # {} /\ J.depth \in Nat
  BY <1>1 DEF JbType
<1>5. CASE J.counted
  <2>1. K.depth = Cardinality(Own(K))
    BY <1>3, <1>5 DEF HydInv
  <2> QED
    BY <1>4, <2>1 DEF HydInv
<1>6. CASE ~J.counted
  <2>1. Cardinality(Own(J)) = 0
    BY <1>6, FS_EmptySet DEF HydInv
  <2>2. K.depth = Cardinality(Own(K))
    BY <1>3, <1>6, <2>1
  <2> QED
    BY <1>4, <2>2 DEF HydInv
<1> QED
  BY <1>5, <1>6

LEMMA HydEnd ==
  ASSUME NEW J, NEW K, NEW f \in Slots, Off(f, J, K), \A g \in Slots : JobInv(J.jobs[g]),
         HydInv(J), J \in JbType, K.jobs[f].hyd # "own", K.counted = J.counted,
         K.depth = IF J.jobs[f].hyd = "own" /\ J.depth > 0 THEN J.depth - 1 ELSE J.depth,
         K.hydrating = IF J.jobs[f].hyd = "late" THEN J.hydrating ELSE K.depth > 0
  PROVE  HydInv(K)
<1>1. Own(K) = Own(J) \ {f}
  BY OwnOff DEF Own
<1>2. IsFiniteSet(Own(J)) /\ IsFiniteSet(Own(K))
  BY JobsAssumption, FS_Subset DEF Own
<1>3. /\ Cardinality(Own(J)) \in Nat /\ Cardinality(Own(K)) \in Nat
      /\ Cardinality(Own(J)) = 0 <=> Own(J) = {}
      /\ Cardinality(Own(K)) = 0 <=> Own(K) = {}
  BY <1>2, FS_CardinalityType, FS_EmptySet
<1>4. CASE J.jobs[f].hyd = "own"
  <2>1. f \in Own(J)
    BY <1>4 DEF Own
  <2>2. Cardinality(Own(K)) = Cardinality(Own(J)) - 1 /\ J.counted /\ Cardinality(Own(J)) > 0
    BY <1>1, <1>2, <1>3, <2>1, FS_RemoveElement DEF HydInv
  <2> QED
    BY <1>3, <1>4, <2>2 DEF HydInv
<1>5. CASE J.jobs[f].hyd # "own"
  <2>1. Own(K) = Own(J)
    BY <1>1, <1>5 DEF Own
  <2> QED
    BY <1>3, <1>5, <2>1 DEF HydInv
<1> QED
  BY <1>4, <1>5

\* The waits: a job goes on as those who wait for it need.
Fair(j, k) ==
  /\ Calm(j) => Calm(k)
  /\ j.at \in Asking => Calm(k) \/ k.at \in Asking
  /\ FullAt(j) => FullAt(k)
  /\ RecoverAt(j) => RecoverAt(k)

LEMMA WaitKeeps ==
  ASSUME NEW J, NEW K, NEW f \in Slots, Off(f, J, K), WaitInv(J),
         Fair(J.jobs[f], K.jobs[f]), WaitsWell(J, K.jobs[f].at, K.jobs[f].on),
         K.fullRun \in {J.fullRun, NoSlot} \/ (K.fullRun = f /\ FullAt(K.jobs[f])),
         K.recoverRun \in {J.recoverRun, NoSlot} \/ (K.recoverRun = f /\ RecoverAt(K.jobs[f]))
  PROVE  WaitInv(K)
<1>1. ASSUME NEW g \in Slots
      PROVE  /\ Calm(J.jobs[g]) => Calm(K.jobs[g])
             /\ J.jobs[g].at \in Asking => Calm(K.jobs[g]) \/ K.jobs[g].at \in Asking
             /\ FullAt(J.jobs[g]) => FullAt(K.jobs[g])
             /\ RecoverAt(J.jobs[g]) => RecoverAt(K.jobs[g])
  <2>1. CASE g = f
    BY <2>1 DEF Fair
  <2>2. CASE g # f /\ SameJob(J.jobs[g], K.jobs[g])
    BY <2>2, TrackedFields DEF SameJob
  <2>3. CASE g # f /\ J.jobs[g].at = "idle"
    BY <2>3, IdleFields
  <2> QED
    BY <2>1, <2>2, <2>3 DEF Off
<1>2. ASSUME NEW at, NEW g, WaitsWell(J, at, g)  PROVE WaitsWell(K, at, g)
  BY <1>1, <1>2 DEF WaitsWell
<1>3. ASSUME NEW g \in Slots  PROVE WaitsWell(K, K.jobs[g].at, K.jobs[g].on)
  <2>1. CASE g = f
    BY <1>2, <2>1
  <2>2. CASE g # f /\ SameJob(J.jobs[g], K.jobs[g])
    BY <1>2, <2>2 DEF SameJob, WaitInv
  <2>3. CASE g # f /\ Spawned(K.jobs[g])
    BY <2>3 DEF Spawned, WaitsWell
  <2> QED
    BY <2>1, <2>2, <2>3 DEF Off
<1> QED
  BY <1>1, <1>3 DEF WaitInv

LEMMA JobsKeep ==
  ASSUME NEW J, NEW K, NEW f \in Slots, Off(f, J, K), \A g \in Slots : JobInv(J.jobs[g]),
         JobInv(K.jobs[f])
  PROVE  \A g \in Slots : JobInv(K.jobs[g])
  BY SpawnedFields, TrackedFields DEF Off

-----------------------------------------------------------------------------
(***************************************************************************)
(* The operators keep the invariant                                        *)
(***************************************************************************)
\* What a synchronous function leaves to the job that calls it.
Kept(f, J, K) == JInv(K) /\ SameJob(J.jobs[f], K.jobs[f]) /\ Latches(K) = Latches(J)

LEMMA KeptTrans ==
  ASSUME NEW f, NEW J, NEW K, NEW L, Kept(f, J, K), Kept(f, K, L)
  PROVE  Kept(f, J, L)
  BY DEF Kept, SameJob

\* Latches are equal field by field.
LEMMA LatchFields ==
  ASSUME NEW J, NEW K, Latches(K) = Latches(J)
  PROVE  /\ K.dropRun = J.dropRun /\ K.hydrating = J.hydrating /\ K.depth = J.depth
         /\ K.counted = J.counted /\ K.fullRun = J.fullRun /\ K.recoverRun = J.recoverRun
  BY DEF Latches

LEMMA SameKeeps ==
  ASSUME NEW J, NEW K, JInv(J), Same(J, K)
  PROVE  JInv(K)
<1> USE LatchFields
<1>1. ASSUME NEW g \in Slots
      PROVE  /\ JobInv(K.jobs[g])
             /\ K.jobs[g].at \in Restoring <=> J.jobs[g].at \in Restoring
             /\ K.jobs[g].hyd = "own" <=> J.jobs[g].hyd = "own"
             /\ Calm(J.jobs[g]) => Calm(K.jobs[g])
             /\ J.jobs[g].at \in Asking => K.jobs[g].at \in Asking
             /\ FullAt(J.jobs[g]) => FullAt(K.jobs[g])
             /\ RecoverAt(J.jobs[g]) => RecoverAt(K.jobs[g])
             /\ \/ K.jobs[g].on = J.jobs[g].on /\ K.jobs[g].at = J.jobs[g].at
                \/ K.jobs[g].on = NoSlot
  <2>1. CASE SameJob(J.jobs[g], K.jobs[g])
    BY <2>1, TrackedFields DEF SameJob, JInv
  <2>2. CASE J.jobs[g].at = "idle" /\ Spawned(K.jobs[g])
    <3>1. J.jobs[g].hyd # "own"
      BY <2>2 DEF JInv, JobInv, HydAts
    <3> QED
      BY <2>2, <3>1, SpawnedFields, IdleFields
  <2> QED
    BY <2>1, <2>2 DEF Same
<1>2. K \in JbType /\ Latches(K) = Latches(J) /\ DropInv(J) /\ HydInv(J) /\ WaitInv(J)
  BY DEF Same, JInv
<1>3. DropInv(K)
  BY <1>1, <1>2 DEF DropInv
<1>4. HydInv(K)
  <2>1. Own(K) = Own(J)
    BY <1>1 DEF Own
  <2> QED
    BY <1>2, <2>1 DEF HydInv
<1>5. WaitInv(K)
  BY <1>1, <1>2 DEF WaitInv, WaitsWell
<1> QED
  BY <1>1, <1>2, <1>3, <1>4, <1>5 DEF JInv

LEMMA SameIsKept ==
  ASSUME NEW f \in Slots, NEW J, NEW K, JInv(J), Same(J, K), J.jobs[f].at # "idle"
  PROVE  Kept(f, J, K)
  BY SameKeeps, SameIsStep DEF Same, Kept

\* A job of another place takes the slot of f.
With(J, f, j) == [J EXCEPT !.jobs = [J.jobs EXCEPT ![f] = j]]

LEMMA PutKeeps ==
  ASSUME NEW J, JInv(J), NEW f \in Slots, NEW j \in JobType, JobInv(j),
         j.at \in Restoring <=> J.jobs[f].at \in Restoring,
         j.hyd = "own" <=> J.jobs[f].hyd = "own",
         Fair(J.jobs[f], j), WaitsWell(J, j.at, j.on)
  PROVE  JInv(With(J, f, j)) /\ With(J, f, j).jobs[f] = j /\ Latches(With(J, f, j)) = Latches(J)
<1> DEFINE K == With(J, f, j)
<1>1. Step(f, J, K) /\ K \in JbType /\ K.jobs[f] = j
  BY PutJob DEF With, JInv
<1> HIDE DEF K
<1>2. Off(f, J, K) /\ Latches(K) = Latches(J)
  BY <1>1 DEF Step
<1>3. DropInv(K)
  BY <1>1, <1>2, DropSame, LatchFields DEF JInv
<1>4. HydInv(K)
  BY <1>1, <1>2, HydSame, LatchFields DEF JInv
<1>5. WaitInv(K)
  BY <1>1, <1>2, WaitKeeps, LatchFields DEF JInv
<1>6. \A g \in Slots : JobInv(K.jobs[g])
  BY <1>1, <1>2, JobsKeep DEF JInv
<1> QED
  BY <1>1, <1>2, <1>3, <1>4, <1>5, <1>6 DEF JInv, K

\* A job that goes to a label.
LEMMA GotoIsWith ==
  ASSUME NEW J \in JbType, NEW f \in Slots, NEW at \in Ats
  PROVE  \E j \in JobType : /\ Goto(J, f, at) = With(J, f, j) /\ j.at = at
                            /\ j.hyd = J.jobs[f].hyd /\ j.on = J.jobs[f].on
                            /\ j.nest = J.jobs[f].nest
<1> DEFINE j == [J.jobs[f] EXCEPT !.at = at,
                                  !.orch = IF at \in Captured THEN J.jobs[f].orch ELSE -1]
<1>1. J.jobs[f] \in JobType
  BY DEF JbType
<1>2. j \in JobType /\ j.at = at /\ j.hyd = J.jobs[f].hyd /\ j.on = J.jobs[f].on
      /\ j.nest = J.jobs[f].nest
  <2>1. \A n \in Int : LET k == [J.jobs[f] EXCEPT !.at = at, !.orch = n]
                      IN  /\ k \in JobType /\ k.at = at /\ k.hyd = J.jobs[f].hyd
                          /\ k.on = J.jobs[f].on /\ k.nest = J.jobs[f].nest
    BY <1>1 DEF JobType
  <2>2. J.jobs[f].orch \in Int /\ -1 \in Int
    BY <1>1 DEF JobType
  <2> DEFINE n == IF at \in Captured THEN J.jobs[f].orch ELSE -1
  <2>3. n \in Int
    BY <2>2
  <2> HIDE DEF n
  <2> QED
    BY <2>1, <2>3, Zenon DEF n
<1>3. Goto(J, f, at) = With(J, f, j)
  BY <1>1 DEF Goto, JbType, JobType, With
<1> HIDE DEF j
<1> QED
  BY <1>2, <1>3

LEMMA GotoKeeps ==
  ASSUME NEW J, JInv(J), NEW f \in Slots, NEW at \in Ats,
         \A k : /\ k.at = at /\ k.hyd = J.jobs[f].hyd /\ k.on = J.jobs[f].on
                /\ k.nest = J.jobs[f].nest
                => JobInv(k) /\ Fair(J.jobs[f], k),
         at \in Restoring <=> J.jobs[f].at \in Restoring,
         WaitsWell(J, at, J.jobs[f].on)
  PROVE  JInv(Goto(J, f, at))
<1>1. J \in JbType
  BY DEF JInv
<1>2. PICK j \in JobType : /\ Goto(J, f, at) = With(J, f, j) /\ j.at = at
                           /\ j.hyd = J.jobs[f].hyd /\ j.on = J.jobs[f].on
                           /\ j.nest = J.jobs[f].nest
  BY <1>1, GotoIsWith
<1> QED
  BY <1>2, PutKeeps

\* Fields of a job set one after the other.
LEMMA WithWith ==
  ASSUME NEW J \in JbType, NEW f \in Slots, NEW j \in JobType, NEW k \in JobType
  PROVE  /\ With(With(J, f, j), f, k) = With(J, f, k)
         /\ With(J, f, j) \in JbType /\ With(J, f, j).jobs[f] = j
<1>1. J.jobs \in [Slots -> JobType]
  BY DEF JbType
<1>2. With(J, f, j).jobs = [J.jobs EXCEPT ![f] = j] /\ With(J, f, j) \in JbType
  BY <1>1 DEF JbType, With
<1>3. [[J.jobs EXCEPT ![f] = j] EXCEPT ![f] = k] = [J.jobs EXCEPT ![f] = k]
  BY <1>1
<1>4. With(With(J, f, j), f, k) = With(J, f, k)
  BY <1>1, <1>2, <1>3 DEF JbType, With
<1> QED
  BY <1>1, <1>2, <1>4

LEMMA WithFields ==
  ASSUME NEW J \in JbType, NEW f \in Slots, NEW j \in JobType
  PROVE  /\ With(J, f, j) \in JbType /\ With(J, f, j).jobs = [J.jobs EXCEPT ![f] = j]
         /\ Latches(With(J, f, j)) = Latches(J)
<1>1. [J.jobs EXCEPT ![f] = j] \in [Slots -> JobType]
  BY DEF JbType
<1> QED
  BY <1>1 DEF JbType, Latches, With

LEMMA PutGotoKeeps ==
  ASSUME NEW J, JInv(J), NEW f \in Slots, NEW j \in JobType, NEW at \in Ats,
         \A k : k.at = at /\ k.hyd = j.hyd /\ k.on = j.on /\ k.nest = j.nest
                => JobInv(k) /\ Fair(J.jobs[f], k),
         j.hyd = J.jobs[f].hyd,
         at \in Restoring <=> J.jobs[f].at \in Restoring,
         WaitsWell(J, at, j.on)
  PROVE  JInv(Goto(With(J, f, j), f, at))
<1>1. J \in JbType
  BY DEF JInv
<1>2. With(J, f, j) \in JbType /\ With(J, f, j).jobs[f] = j
  BY <1>1, WithWith
<1>3. PICK k \in JobType : /\ Goto(With(J, f, j), f, at) = With(With(J, f, j), f, k)
                           /\ k.at = at /\ k.hyd = j.hyd /\ k.on = j.on /\ k.nest = j.nest
  BY <1>2, GotoIsWith
<1>4. Goto(With(J, f, j), f, at) = With(J, f, k)
  BY <1>1, <1>3, WithWith
<1> QED
  BY <1>3, <1>4, PutKeeps

\* The fields of the job of f that the operators set.
LEMMA FieldWith ==
  ASSUME NEW J \in JbType, NEW f \in Slots
  PROVE  /\ J.jobs[f] \in JobType /\ J.jobs \in [Slots -> JobType]
         /\ \A r \in Slots \cup {NoSlot} :
              LET j == [J.jobs[f] EXCEPT !.on = r]
              IN  /\ [J EXCEPT !.jobs[f].on = r] = With(J, f, j)
                  /\ j \in JobType /\ j.at = J.jobs[f].at /\ j.hyd = J.jobs[f].hyd
                  /\ j.on = r /\ j.nest = J.jobs[f].nest
<1>1. J.jobs[f] \in JobType /\ J.jobs \in [Slots -> JobType]
  BY DEF JbType
<1>2. ASSUME NEW r \in Slots \cup {NoSlot}
      PROVE  LET j == [J.jobs[f] EXCEPT !.on = r]
             IN  /\ [J EXCEPT !.jobs[f].on = r] = With(J, f, j)
                 /\ j \in JobType /\ j.at = J.jobs[f].at /\ j.hyd = J.jobs[f].hyd
                 /\ j.on = r /\ j.nest = J.jobs[f].nest
  BY <1>1 DEF JobType, With
<1> QED
  BY <1>1, <1>2

LEMMA NestWith ==
  ASSUME NEW J \in JbType, NEW f \in Slots, NEW n \in Seq(Callers)
  PROVE  \E j \in JobType :
           /\ [J EXCEPT !.jobs[f].nest = n] = With(J, f, j)
           /\ j.at = J.jobs[f].at /\ j.hyd = J.jobs[f].hyd /\ j.on = J.jobs[f].on /\ j.nest = n
<1> DEFINE j == [J.jobs[f] EXCEPT !.nest = n]
<1>1. J.jobs[f] \in JobType
  BY DEF JbType
<1>2. /\ j \in JobType /\ j.at = J.jobs[f].at /\ j.hyd = J.jobs[f].hyd
      /\ j.on = J.jobs[f].on /\ j.nest = n
  BY <1>1 DEF JobType
<1>3. [J EXCEPT !.jobs[f].nest = n] = With(J, f, j)
  BY DEF With
<1> HIDE DEF j
<1> QED
  BY <1>2, <1>3

LEMMA CallWith ==
  ASSUME NEW J \in JbType, NEW f \in Slots, NEW c \in Callers
  PROVE  \E j \in JobType :
           /\ Call(J, f, c) = With(J, f, j) /\ Call(J, f, c) \in JbType
           /\ j.at = J.jobs[f].at /\ j.hyd = J.jobs[f].hyd /\ j.on = J.jobs[f].on
           /\ j.nest = <<c>> \o J.jobs[f].nest
<1>1. J.jobs[f].nest \in Seq(Callers)
  BY DEF JbType, JobType
<1> DEFINE n == <<c>> \o J.jobs[f].nest
<1>2. n \in Seq(Callers)
  BY <1>1
<1> HIDE DEF n
<1>3. PICK j \in JobType : /\ [J EXCEPT !.jobs[f].nest = n] = With(J, f, j)
                           /\ j.at = J.jobs[f].at /\ j.hyd = J.jobs[f].hyd
                           /\ j.on = J.jobs[f].on /\ j.nest = n
  BY <1>2, NestWith
<1>4. Call(J, f, c) = With(J, f, j) /\ With(J, f, j) \in JbType
  BY <1>3, WithFields DEF Call, n
<1> QED
  BY <1>3, <1>4 DEF n

\* Fields of the job that no part of the invariant is about.
LEMMA MarkSame ==
  ASSUME NEW J \in JbType, NEW f \in Slots, NEW b \in BOOLEAN
  PROVE  /\ Same(J, [J EXCEPT !.jobs[f].mine = b])
         /\ Same(J, [J EXCEPT !.jobs[f].wiped = b])
         /\ Same(J, [J EXCEPT !.jobs[f].cold = b])
<1>1. J.jobs[f] \in JobType /\ J.jobs \in [Slots -> JobType]
  BY DEF JbType
<1>2. ASSUME NEW j \in JobType, SameJob(J.jobs[f], j)  PROVE Same(J, With(J, f, j))
  <2>1. Step(f, J, With(J, f, j)) /\ With(J, f, j) \in JbType /\ With(J, f, j).jobs[f] = j
    BY PutJob DEF With
  <2> QED
    BY <1>2, <2>1 DEF Step, Off, Same
<1>3. LET j == [J.jobs[f] EXCEPT !.mine = b]
      IN  j \in JobType /\ SameJob(J.jobs[f], j) /\ [J EXCEPT !.jobs[f].mine = b] = With(J, f, j)
  BY <1>1 DEF JobType, With, SameJob
<1>4. LET j == [J.jobs[f] EXCEPT !.wiped = b]
      IN  j \in JobType /\ SameJob(J.jobs[f], j) /\ [J EXCEPT !.jobs[f].wiped = b] = With(J, f, j)
  BY <1>1 DEF JobType, With, SameJob
<1>5. LET j == [J.jobs[f] EXCEPT !.cold = b]
      IN  j \in JobType /\ SameJob(J.jobs[f], j) /\ [J EXCEPT !.jobs[f].cold = b] = With(J, f, j)
  BY <1>1 DEF JobType, With, SameJob
<1> QED
  BY <1>2, <1>3, <1>4, <1>5

LEMMA AttachedSame ==
  ASSUME NEW J \in JbType, NEW f \in Slots
  PROVE  Same(J, Attached(J, f))
<1> DEFINE j == [J.jobs[f] EXCEPT !.orch = 0]
<1>1. J.jobs[f] \in JobType
  BY DEF JbType
<1>2. j \in JobType /\ SameJob(J.jobs[f], j)
  BY <1>1 DEF JobType, SameJob
<1>3. Attached(J, f) = With(J, f, j)
  BY DEF Attached, With
<1> HIDE DEF j
<1>4. Step(f, J, With(J, f, j)) /\ With(J, f, j) \in JbType /\ With(J, f, j).jobs[f] = j
  BY <1>2, PutJob DEF With
<1> QED
  BY <1>2, <1>3, <1>4 DEF Step, Off, Same

\* A job ends.
LEMMA EndKeeps ==
  ASSUME NEW J, JInv(J), NEW f \in Slots, J.jobs[f].at \notin Restoring,
         J.jobs[f].hyd = "none", J.fullRun # f, J.recoverRun # f
  PROVE  JInv(End(J, f))
<1> DEFINE K == End(J, f)
<1>1. J \in JbType /\ NoSlot \notin Slots
  BY JobsAssumption DEF JInv
<1>2. NoJob \in JobType /\ NoJob.hyd = "none" /\ NoJob.on = NoSlot /\ NoJob.at = "idle"
  <2>1. -1 \in Int /\ <<>> \in Seq(Callers)
    OBVIOUS
  <2> QED
    BY <2>1 DEF NoJob, JobType, Ats, Kinds
<1> DEFINE jobs == [g \in Slots |->
       IF g = f THEN NoJob
       ELSE IF J.jobs[g].on = f THEN [J.jobs[g] EXCEPT !.on = NoSlot] ELSE J.jobs[g]]
<1>3. ASSUME NEW g \in Slots
      PROVE  /\ jobs[g] \in JobType
             /\ g = f => jobs[g] = NoJob
             /\ g # f => /\ jobs[g].at = J.jobs[g].at /\ jobs[g].hyd = J.jobs[g].hyd
                         /\ jobs[g].nest = J.jobs[g].nest
                         /\ jobs[g].on # f
                         /\ jobs[g].on = NoSlot \/ jobs[g].on = J.jobs[g].on
  <2>1. \A j \in JobType : LET k == [j EXCEPT !.on = NoSlot]
                          IN  /\ k \in JobType /\ k.at = j.at /\ k.hyd = j.hyd
                              /\ k.nest = j.nest /\ k.on = NoSlot
    BY DEF JobType
  <2>2. J.jobs[g] \in JobType /\ NoSlot # f
    BY <1>1 DEF JbType
  <2> QED
    BY <1>2, <2>1, <2>2
<1>4. jobs \in [Slots -> JobType]
  BY <1>3
<1>5. K = [J EXCEPT !.jobs = jobs]
  BY DEF End
<1> HIDE DEF jobs
<1>6. K \in JbType /\ K.jobs = jobs /\ Latches(K) = Latches(J)
  BY <1>1, <1>4, <1>5 DEF JbType, Latches
<1> HIDE DEF K
<1>7. ASSUME NEW g \in Slots
      PROVE  /\ JobInv(K.jobs[g])
             /\ K.jobs[g].at \in Restoring <=> J.jobs[g].at \in Restoring
             /\ K.jobs[g].hyd = "own" <=> J.jobs[g].hyd = "own"
             /\ g # f /\ Calm(J.jobs[g]) => Calm(K.jobs[g])
             /\ g # f /\ J.jobs[g].at \in Asking => K.jobs[g].at \in Asking
             /\ g # f /\ FullAt(J.jobs[g]) => FullAt(K.jobs[g])
             /\ g # f /\ RecoverAt(J.jobs[g]) => RecoverAt(K.jobs[g])
             /\ \/ K.jobs[g].on = J.jobs[g].on /\ K.jobs[g].at = J.jobs[g].at
                   /\ K.jobs[g].on # f
                \/ K.jobs[g].on = NoSlot
  <2>1. CASE g = f
    BY <1>2, <1>3, <1>6, <2>1 DEF JobInv, Restoring, Asking
  <2>2. CASE g # f
    <3>1. /\ K.jobs[g].at = J.jobs[g].at /\ K.jobs[g].hyd = J.jobs[g].hyd
          /\ K.jobs[g].nest = J.jobs[g].nest
          /\ K.jobs[g].on # f /\ (K.jobs[g].on = NoSlot \/ K.jobs[g].on = J.jobs[g].on)
      BY <1>3, <1>6, <2>2
    <3>2. JobInv(J.jobs[g])
      BY DEF JInv
    <3>3. JobInv(K.jobs[g])
      BY <3>1, <3>2 DEF JobInv
    <3> QED
      BY <3>1, <3>3 DEF Calm, FullAt, RecoverAt
  <2> QED
    BY <2>1, <2>2
<1>8. DropInv(J) /\ HydInv(J) /\ WaitInv(J)
  BY DEF JInv
<1>9. DropInv(K)
  BY <1>6, <1>7, <1>8, LatchFields DEF DropInv
<1>10. HydInv(K)
  <2>1. Own(K) = Own(J)
    BY <1>7 DEF Own
  <2> QED
    BY <1>6, <1>8, <2>1, LatchFields DEF HydInv
<1>11. WaitInv(K)
  <2>1. ASSUME NEW g \in Slots  PROVE WaitsWell(K, K.jobs[g].at, K.jobs[g].on)
    BY <1>7, <1>8 DEF WaitInv, WaitsWell
  <2>2. K.fullRun = J.fullRun /\ K.recoverRun = J.recoverRun
    BY <1>6, LatchFields
  <2> QED
    BY <1>7, <1>8, <2>1, <2>2 DEF WaitInv
<1> QED
  BY <1>6, <1>7, <1>9, <1>10, <1>11 DEF JInv, K

\* A hydrate begins: the job stands where a hydrate belongs.
Hydrates(J, f, j) ==
  [J EXCEPT !.depth = IF J.counted THEN J.depth + 1 ELSE 1, !.counted = TRUE,
            !.hydrating = TRUE, !.jobs = [J.jobs EXCEPT ![f] = j]]

LEMMA HydratesKeep ==
  ASSUME NEW J, JInv(J), NEW f \in Slots, NEW j \in JobType, JobInv(j), j.hyd = "own",
         J.jobs[f].hyd # "own", j.at \in Restoring <=> J.jobs[f].at \in Restoring,
         Fair(J.jobs[f], j), WaitsWell(J, j.at, j.on)
  PROVE  JInv(Hydrates(J, f, j))
<1> DEFINE K == Hydrates(J, f, j)
<1>1. J \in JbType /\ J.jobs \in [Slots -> JobType]
  BY DEF JInv, JbType
<1>2. [J.jobs EXCEPT ![f] = j] \in [Slots -> JobType] /\ J.depth \in Nat
  BY <1>1 DEF JbType
<1>3. (IF J.counted THEN J.depth + 1 ELSE 1) \in Nat
  BY <1>2
<1>4. /\ K \in JbType /\ K.jobs = [J.jobs EXCEPT ![f] = j] /\ K.dropRun = J.dropRun
      /\ K.fullRun = J.fullRun /\ K.recoverRun = J.recoverRun /\ K.counted /\ K.hydrating
      /\ K.depth = IF J.counted THEN J.depth + 1 ELSE 1
  <2> DEFINE d == IF J.counted THEN J.depth + 1 ELSE 1
             jobs == [J.jobs EXCEPT ![f] = j]
  <2>1. K = [J EXCEPT !.depth = d, !.counted = TRUE, !.hydrating = TRUE, !.jobs = jobs]
    BY DEF Hydrates
  <2>2. d \in Nat /\ jobs \in [Slots -> JobType] /\ jobs = [J.jobs EXCEPT ![f] = j]
    BY <1>2, <1>3
  <2> HIDE DEF d, jobs, K
  <2>3. /\ K \in JbType /\ K.jobs = jobs /\ K.dropRun = J.dropRun /\ K.fullRun = J.fullRun
        /\ K.recoverRun = J.recoverRun /\ K.counted /\ K.hydrating /\ K.depth = d
    BY <1>1, <2>1, <2>2 DEF JbType
  <2> QED
    BY <2>2, <2>3 DEF d
<1> HIDE DEF K
<1>5. K.jobs[f] = j /\ Off(f, J, K)
  BY <1>1, <1>4 DEF Off, SameJob
<1>6. DropInv(K)
  BY <1>4, <1>5, DropSame DEF JInv
<1>7. HydInv(K)
  BY <1>1, <1>4, <1>5, HydBegin DEF JInv
<1>8. WaitInv(K)
  BY <1>4, <1>5, WaitKeeps DEF JInv
<1>9. \A g \in Slots : JobInv(K.jobs[g])
  BY <1>5, JobsKeep DEF JInv
<1> QED
  BY <1>4, <1>6, <1>7, <1>8, <1>9 DEF JInv, K

LEMMA HydratesWith ==
  ASSUME NEW J \in JbType, NEW f \in Slots, NEW j \in JobType, NEW k \in JobType
  PROVE  /\ Hydrates(J, f, j) \in JbType /\ Hydrates(J, f, j).jobs[f] = j
         /\ With(Hydrates(J, f, j), f, k) = Hydrates(J, f, k)
<1>1. J.jobs \in [Slots -> JobType] /\ J.depth \in Nat
  BY DEF JbType
<1>2. [J.jobs EXCEPT ![f] = j] \in [Slots -> JobType] /\ [J.jobs EXCEPT ![f] = j][f] = j
      /\ (IF J.counted THEN J.depth + 1 ELSE 1) \in Nat
  BY <1>1
<1>3. /\ Hydrates(J, f, j) \in JbType /\ Hydrates(J, f, j).jobs = [J.jobs EXCEPT ![f] = j]
  <2> DEFINE d == IF J.counted THEN J.depth + 1 ELSE 1
             jobs == [J.jobs EXCEPT ![f] = j]
  <2>1. PICK K : K = Hydrates(J, f, j)
    OBVIOUS
  <2>2. K = [J EXCEPT !.depth = d, !.counted = TRUE, !.hydrating = TRUE, !.jobs = jobs]
    BY <2>1 DEF Hydrates
  <2>3. d \in Nat /\ jobs \in [Slots -> JobType]
    BY <1>2
  <2> HIDE DEF d, jobs
  <2>4. K \in JbType /\ K.jobs = jobs
    BY <2>2, <2>3 DEF JbType
  <2> QED
    BY <2>1, <2>4 DEF jobs
<1>4. [[J.jobs EXCEPT ![f] = j] EXCEPT ![f] = k] = [J.jobs EXCEPT ![f] = k]
  BY <1>1
<1>5. With(Hydrates(J, f, j), f, k) = [Hydrates(J, f, j) EXCEPT !.jobs = [J.jobs EXCEPT ![f] = k]]
  BY <1>3, <1>4 DEF With
<1>6. With(Hydrates(J, f, j), f, k) = Hydrates(J, f, k)
  BY <1>5 DEF Hydrates, JbType
<1> QED
  BY <1>2, <1>3, <1>6

\* withSidecarHydrate, with the label the job stops at.
LEMMA HydratesIs ==
  ASSUME NEW J \in JbType, NEW f \in Slots
  PROVE  /\ \E j \in JobType : /\ Attached(HydrateBegins(J, f), f) = Hydrates(J, f, j)
                               /\ j.at = J.jobs[f].at /\ j.hyd = "own"
                               /\ j.on = J.jobs[f].on /\ j.nest = J.jobs[f].nest
         /\ \A at \in Ats : \E j \in JobType :
                               /\ Goto(Attached(HydrateBegins(J, f), f), f, at) = Hydrates(J, f, j)
                               /\ j.at = at /\ j.hyd = "own"
                               /\ j.on = J.jobs[f].on /\ j.nest = J.jobs[f].nest
<1> DEFINE i == [J.jobs[f] EXCEPT !.hyd = "own"]
           j == [i EXCEPT !.orch = 0]
<1>1. J.jobs[f] \in JobType /\ J.jobs \in [Slots -> JobType] /\ J.depth \in Nat
  BY DEF JbType
<1>2. i \in JobType /\ i.at = J.jobs[f].at /\ i.hyd = "own" /\ i.on = J.jobs[f].on
      /\ i.nest = J.jobs[f].nest
  BY <1>1 DEF JobType
<1>3. HydrateBegins(J, f) = Hydrates(J, f, i)
  BY DEF HydrateBegins, Hydrates
<1> HIDE DEF i
<1>4. j \in JobType /\ j.at = i.at /\ j.hyd = i.hyd /\ j.on = i.on /\ j.nest = i.nest
  BY <1>2 DEF JobType
<1>5. Attached(HydrateBegins(J, f), f) = Hydrates(J, f, j)
  <2>1. PICK M : M = Hydrates(J, f, i)
    OBVIOUS
  <2>2. M.jobs[f] = i
    BY <1>2, <2>1, HydratesWith
  <2>3. Attached(M, f) = With(M, f, [M.jobs[f] EXCEPT !.orch = 0])
    BY DEF Attached, With
  <2>4. Attached(M, f) = With(M, f, j)
    BY <2>2, <2>3
  <2> HIDE DEF j
  <2> QED
    BY <1>2, <1>3, <1>4, <2>1, <2>4, HydratesWith
<1> HIDE DEF j
<1>6. ASSUME NEW at \in Ats
      PROVE  \E k \in JobType :
                /\ Goto(Attached(HydrateBegins(J, f), f), f, at) = Hydrates(J, f, k)
                /\ k.at = at /\ k.hyd = "own" /\ k.on = J.jobs[f].on /\ k.nest = J.jobs[f].nest
  <2>1. Hydrates(J, f, j) \in JbType /\ Hydrates(J, f, j).jobs[f] = j
    BY <1>4, HydratesWith
  <2>2. PICK k \in JobType : /\ Goto(Hydrates(J, f, j), f, at) = With(Hydrates(J, f, j), f, k)
                             /\ k.at = at /\ k.hyd = j.hyd /\ k.on = j.on /\ k.nest = j.nest
    BY <2>1, GotoIsWith
  <2>3. With(Hydrates(J, f, j), f, k) = Hydrates(J, f, k)
    BY <1>4, HydratesWith
  <2> QED
    BY <1>2, <1>4, <1>5, <2>2, <2>3
<1> QED
  BY <1>2, <1>4, <1>5, <1>6

\* The abort of a session: its hydrates are late ones from here on.
LEMMA AbortKeeps ==
  ASSUME NEW J, JInv(J), NEW keepFull \in BOOLEAN, NEW release \in BOOLEAN
  PROVE  LET A == Abort(J, keepFull, release)
         IN  /\ JInv(A) /\ A.fullRun = J.fullRun /\ A.recoverRun = J.recoverRun
             /\ A.dropRun = J.dropRun
             /\ \A g \in Slots : J.jobs[g].at # "idle" =>
                  /\ A.jobs[g].at = J.jobs[g].at /\ A.jobs[g].on = J.jobs[g].on
                  /\ A.jobs[g].nest = J.jobs[g].nest
                  /\ J.jobs[g].hyd = "none" => A.jobs[g].hyd = "none"
<1> DEFINE jobs == [g \in Slots |-> Late(J.jobs[g], keepFull)]
           full == keepFull /\ J.full
           A == [J EXCEPT !.jobs = jobs, !.running = FALSE, !.depth = 0, !.counted = FALSE,
                          !.hydrating = FALSE, !.boot = FALSE, !.full = full]
<1>1. J \in JbType
  BY DEF JInv
<1>2. ASSUME NEW g \in Slots
      PROVE  /\ jobs[g] \in JobType /\ jobs[g].at = J.jobs[g].at /\ jobs[g].on = J.jobs[g].on
             /\ jobs[g].nest = J.jobs[g].nest
             /\ jobs[g].hyd = IF J.jobs[g].hyd = "own" THEN "late" ELSE J.jobs[g].hyd
  <2>1. J.jobs[g] \in JobType
    BY <1>1 DEF JbType
  <2> DEFINE h == IF J.jobs[g].hyd = "own" THEN "late" ELSE J.jobs[g].hyd
             o == J.jobs[g].owner /\ keepFull
  <2>3. h \in {"none", "own", "late"} /\ o \in BOOLEAN
    BY <2>1 DEF JobType
  <2>4. jobs[g] = [J.jobs[g] EXCEPT !.mine = FALSE, !.hyd = h, !.owner = o]
    BY DEF Late
  <2> HIDE DEF h, o, jobs
  <2>5. /\ jobs[g] \in JobType /\ jobs[g].at = J.jobs[g].at /\ jobs[g].on = J.jobs[g].on
        /\ jobs[g].nest = J.jobs[g].nest /\ jobs[g].hyd = h
    BY <2>1, <2>3, <2>4 DEF JobType
  <2> QED
    BY <2>5 DEF h
<1>3. jobs \in [Slots -> JobType]
  BY <1>2
<1>17. full \in BOOLEAN
  OBVIOUS
<1> HIDE DEF jobs, full
<1>4. /\ A \in JbType /\ A.jobs = jobs /\ A.depth = 0 /\ ~A.counted /\ ~A.hydrating
      /\ A.fullRun = J.fullRun /\ A.recoverRun = J.recoverRun /\ A.dropRun = J.dropRun
  <2>1. A \in JbType
    BY <1>1, <1>3, <1>17, Zenon DEF JbType
  <2>2. A.jobs = jobs /\ A.depth = 0 /\ A.counted = FALSE /\ A.hydrating = FALSE
    BY <1>1 DEF JbType
  <2>3. A.fullRun = J.fullRun /\ A.recoverRun = J.recoverRun /\ A.dropRun = J.dropRun
    BY <1>1 DEF JbType
  <2> QED
    BY <2>1, <2>2, <2>3
<1>5. Abort(J, keepFull, release) =
        IF release THEN [A EXCEPT !.pending = FALSE, !.open = FALSE]
        ELSE IF IsWriting(J) THEN Attach(A) ELSE A
  BY DEF Abort, jobs, full
<1> HIDE DEF A
<1>6. ASSUME NEW g \in Slots
      PROVE  /\ JobInv(A.jobs[g]) /\ A.jobs[g].hyd # "own"
             /\ Calm(A.jobs[g]) <=> Calm(J.jobs[g])
             /\ FullAt(A.jobs[g]) <=> FullAt(J.jobs[g])
             /\ RecoverAt(A.jobs[g]) <=> RecoverAt(J.jobs[g])
  <2>1. /\ A.jobs[g].at = J.jobs[g].at /\ A.jobs[g].on = J.jobs[g].on
        /\ A.jobs[g].nest = J.jobs[g].nest
        /\ A.jobs[g].hyd = IF J.jobs[g].hyd = "own" THEN "late" ELSE J.jobs[g].hyd
    BY <1>2, <1>4
  <2>2. JobInv(J.jobs[g])
    BY DEF JInv
  <2> QED
    BY <2>1, <2>2 DEF JobInv, Calm, FullAt, RecoverAt
<1>7. DropInv(J) /\ WaitInv(J)
  BY DEF JInv
<1>8. DropInv(A)
  BY <1>2, <1>4, <1>7 DEF DropInv
<1>9. HydInv(A)
  <2>1. Own(A) = {} /\ A.hydrating = FALSE
    BY <1>4, <1>6 DEF Own, JbType
  <2> QED
    BY <1>4, <2>1 DEF HydInv
<1>10. WaitInv(A)
  BY <1>2, <1>4, <1>6, <1>7 DEF WaitInv, WaitsWell
<1>11. JInv(A)
  BY <1>4, <1>6, <1>8, <1>9, <1>10 DEF JInv
<1>12. Same(A, [A EXCEPT !.pending = FALSE, !.open = FALSE])
  <2>1. LET B == [A EXCEPT !.pending = FALSE, !.open = FALSE]
        IN  B \in JbType /\ B.jobs = A.jobs /\ Latches(B) = Latches(A)
    BY <1>4 DEF JbType, Latches
  <2> QED
    BY <2>1, Untracked
<1>13. Same(A, Attach(A)) /\ Same(A, A)
  BY <1>4, AttachSame, SameSelf
<1>14. PICK B : B = Abort(J, keepFull, release) /\ Same(A, B)
  BY <1>5, <1>12, <1>13
<1>15. JInv(B) /\ Latches(B) = Latches(A)
  BY <1>11, <1>14, SameKeeps DEF Same
<1>16. ASSUME NEW g \in Slots, J.jobs[g].at # "idle"
       PROVE  /\ B.jobs[g].at = J.jobs[g].at /\ B.jobs[g].on = J.jobs[g].on
              /\ B.jobs[g].nest = J.jobs[g].nest
              /\ J.jobs[g].hyd = "none" => B.jobs[g].hyd = "none"
  BY <1>2, <1>4, <1>14, <1>16 DEF Same, SameJob
<1> QED
  BY <1>4, <1>14, <1>15, <1>16, LatchFields

\* The slot of f is taken and latches are set.
LEMMA OffPut ==
  ASSUME NEW J \in JbType, NEW K \in JbType, NEW f \in Slots, NEW j,
         K.jobs = [J.jobs EXCEPT ![f] = j]
  PROVE  Off(f, J, K) /\ K.jobs[f] = j
<1>1. J.jobs \in [Slots -> JobType]
  BY DEF JbType
<1> QED
  BY <1>1 DEF Off, SameJob

\* The full reindex is on its own: from here on others may wait for it.
LEMMA FullBodyKeeps ==
  ASSUME NEW J, JInv(J), NEW f \in Slots, J.jobs[f].at \notin Restoring,
         J.jobs[f].hyd = "none", J.jobs[f].on = NoSlot, ~RecoverAt(J.jobs[f])
  PROVE  JInv(FullBody(J, f))
<1> DEFINE M == [J EXCEPT !.full = TRUE, !.fullRun = f]
<1>1. J \in JbType
  BY DEF JInv
<1>2. /\ M \in JbType /\ M.jobs = J.jobs /\ M.dropRun = J.dropRun /\ M.hydrating = J.hydrating
      /\ M.depth = J.depth /\ M.counted = J.counted /\ M.fullRun = f
      /\ M.recoverRun = J.recoverRun
  BY <1>1 DEF JbType
<1> HIDE DEF M
<1>3. PICK j \in JobType : /\ Goto(M, f, "full_fleet") = With(M, f, j) /\ j.at = "full_fleet"
                           /\ j.hyd = M.jobs[f].hyd /\ j.on = M.jobs[f].on
                           /\ j.nest = M.jobs[f].nest
  BY <1>2, GotoIsWith DEF Ats
<1>4. PICK K : K = With(M, f, j)
  OBVIOUS
<1>5. /\ K \in JbType /\ K.jobs = [J.jobs EXCEPT ![f] = j] /\ Latches(K) = Latches(M)
  BY <1>2, <1>3, <1>4, WithFields
<1>6. Off(f, J, K) /\ K.jobs[f] = j
  BY <1>1, <1>5, OffPut
<1>7. /\ K.dropRun = J.dropRun /\ K.hydrating = J.hydrating /\ K.depth = J.depth
      /\ K.counted = J.counted /\ K.fullRun = f /\ K.recoverRun = J.recoverRun
  BY <1>2, <1>5, LatchFields
<1>8. JobInv(j) /\ Fair(J.jobs[f], j) /\ FullAt(j) /\ j.at \notin Restoring
  BY <1>2, <1>3 DEF JobInv, Fair, FullAt, Calm, CanWait, Restoring, Asking
<1>9. WaitsWell(J, j.at, j.on)
  BY <1>2, <1>3 DEF WaitsWell
<1>10. DropInv(K)
  BY <1>6, <1>7, <1>8, DropSame DEF JInv
<1>11. HydInv(K)
  BY <1>2, <1>3, <1>6, <1>7, HydSame DEF JInv
<1>12. WaitInv(K)
  BY <1>6, <1>7, <1>8, <1>9, WaitKeeps DEF JInv
<1>13. \A g \in Slots : JobInv(K.jobs[g])
  BY <1>6, <1>8, JobsKeep DEF JInv
<1>14. FullBody(J, f) = K
  BY <1>3, <1>4 DEF FullBody, M
<1> QED
  BY <1>5, <1>10, <1>11, <1>12, <1>13, <1>14 DEF JInv

\* The recovery starts: it holds recoverRun while it asks to recover.
LEMMA RecoverStarts ==
  ASSUME NEW J, JInv(J), NEW f \in Slots, J.jobs[f].at = "quiesce"
  PROVE  JInv(StartRecover(J, f))
<1> DEFINE K == StartRecover(J, f)
<1>1. J \in JbType
  BY DEF JInv
<1>2. /\ K \in JbType /\ K.jobs = J.jobs /\ K.dropRun = J.dropRun /\ K.hydrating = J.hydrating
      /\ K.depth = J.depth /\ K.counted = J.counted /\ K.fullRun = J.fullRun
      /\ K.recoverRun = f
  BY <1>1 DEF JbType, StartRecover
<1> HIDE DEF K
<1>3. RecoverAt(K.jobs[f])
  BY <1>2 DEF RecoverAt, Asking
<1>4. DropInv(K) /\ HydInv(K)
  BY <1>2 DEF JInv, DropInv, HydInv, Own
<1>5. WaitInv(K)
  BY <1>2, <1>3 DEF JInv, WaitInv, WaitsWell
<1> QED
  BY <1>2, <1>4, <1>5 DEF JInv, K

\* fullRun and recoverRun are cleared.
LEMMA ClearFull ==
  ASSUME NEW J, JInv(J), NEW K, K = [J EXCEPT !.fullRun = NoSlot]
  PROVE  JInv(K) /\ K.jobs = J.jobs /\ K.fullRun = NoSlot /\ K.recoverRun = J.recoverRun
<1>1. /\ K \in JbType /\ K.jobs = J.jobs /\ K.dropRun = J.dropRun /\ K.hydrating = J.hydrating
      /\ K.depth = J.depth /\ K.counted = J.counted /\ K.fullRun = NoSlot
      /\ K.recoverRun = J.recoverRun
  BY DEF JInv, JbType
<1>2. DropInv(K) /\ HydInv(K) /\ WaitInv(K)
  BY <1>1 DEF JInv, DropInv, HydInv, Own, WaitInv, WaitsWell
<1> QED
  BY <1>1, <1>2 DEF JInv

LEMMA ClearRecover ==
  ASSUME NEW J, JInv(J), NEW K, K = [J EXCEPT !.recoverRun = NoSlot, !.recover = FALSE]
  PROVE  JInv(K) /\ K.jobs = J.jobs /\ K.fullRun = J.fullRun /\ K.recoverRun = NoSlot
<1>1. /\ K \in JbType /\ K.jobs = J.jobs /\ K.dropRun = J.dropRun /\ K.hydrating = J.hydrating
      /\ K.depth = J.depth /\ K.counted = J.counted /\ K.fullRun = J.fullRun
      /\ K.recoverRun = NoSlot
  BY DEF JInv, JbType
<1>2. DropInv(K) /\ HydInv(K) /\ WaitInv(K)
  BY <1>1 DEF JInv, DropInv, HydInv, Own, WaitInv, WaitsWell
<1> QED
  BY <1>1, <1>2 DEF JInv

\* A job of the user, of the stall guard or of the poll takes an idle slot.
LEMMA NewKeeps ==
  ASSUME NEW J, JInv(J), NEW f \in Slots, ~Busy(J, f), NEW kind \in Kinds, NEW at \in Ats,
         at \notin Restoring, at # "idle"
  PROVE  LET K == [J EXCEPT !.jobs[f] = Job(kind, at)]
         IN  /\ JInv(K) /\ K.jobs[f].at = at /\ K.jobs[f].hyd = "none" /\ K.jobs[f].on = NoSlot
             /\ K.jobs[f].nest = <<>>
<1>1. /\ NoJob \in JobType /\ NoJob.hyd = "none" /\ NoJob.on = NoSlot /\ NoJob.nest = <<>>
  <2>1. -1 \in Int /\ <<>> \in Seq(Callers)
    OBVIOUS
  <2> QED
    BY <2>1 DEF NoJob, JobType, Ats, Kinds
<1>2. ASSUME NEW j \in JobType
      PROVE  LET k == [j EXCEPT !.at = at, !.kind = kind, !.mine = TRUE]
             IN  /\ k \in JobType /\ k.at = at /\ k.hyd = j.hyd /\ k.on = j.on /\ k.nest = j.nest
  BY DEF JobType
<1>3. PICK j \in JobType : /\ j = Job(kind, at) /\ j.at = at /\ j.hyd = "none"
                           /\ j.on = NoSlot /\ j.nest = <<>>
  BY <1>1, <1>2, Zenon DEF Job
<1>4. JobInv(j) /\ J.jobs[f].at = "idle" /\ J.jobs[f].hyd # "own"
  BY <1>3 DEF JobInv, Busy, JInv, HydAts
<1>5. Fair(J.jobs[f], j) /\ WaitsWell(J, j.at, j.on)
  BY <1>3, <1>4, IdleFields DEF Fair, WaitsWell
<1>6. JInv(With(J, f, j)) /\ With(J, f, j).jobs[f] = j
  BY <1>3, <1>4, <1>5, PutKeeps, IdleFields
<1>7. [J EXCEPT !.jobs[f] = Job(kind, at)] = With(J, f, j)
  BY <1>3 DEF With
<1> QED
  BY <1>3, <1>6, <1>7

\* A restore starts, unless one is on; the caller goes on when it returns.
LEMMA RestoreKeeps ==
  ASSUME NEW J, JInv(J), NEW f \in Slots, NEW j \in JobType, J.jobs[f].at \notin Restoring,
         j.hyd = "none", J.jobs[f].hyd = "none", j.on = NoSlot,
         \A k : k.at \in {"return", "restore_fleet"} /\ k.nest = j.nest => Fair(J.jobs[f], k)
  PROVE  JInv(Restore(With(J, f, j), f))
<1>1. J \in JbType
  BY DEF JInv
<1>2. PICK C : C = With(J, f, j)
  OBVIOUS
<1>3. C \in JbType /\ C.jobs[f] = j /\ C.jobs = [J.jobs EXCEPT ![f] = j] /\ Latches(C) = Latches(J)
  BY <1>1, <1>2, WithWith, WithFields
<1>4. CASE C.dropRun
  <2>1. ASSUME NEW k, k.at = "return", k.hyd = j.hyd, k.on = j.on, k.nest = j.nest
        PROVE  JobInv(k) /\ Fair(J.jobs[f], k)
    BY <2>1 DEF JobInv, Asking
  <2>2. JInv(Goto(With(J, f, j), f, "return"))
    BY <2>1, PutGotoKeeps DEF Ats, Restoring, WaitsWell
  <2> QED
    BY <1>2, <1>4, <2>2 DEF Restore
<1>5. CASE ~C.dropRun
  <2> DEFINE M == [C EXCEPT !.dropRun = TRUE]
  <2>1. /\ M \in JbType /\ M.jobs = C.jobs /\ M.dropRun /\ M.hydrating = C.hydrating
        /\ M.depth = C.depth /\ M.counted = C.counted /\ M.fullRun = C.fullRun
        /\ M.recoverRun = C.recoverRun
    BY <1>3 DEF JbType
  <2> HIDE DEF M
  <2>2. PICK k \in JobType : /\ Goto(M, f, "restore_fleet") = With(M, f, k)
                             /\ k.at = "restore_fleet" /\ k.hyd = M.jobs[f].hyd
                             /\ k.on = M.jobs[f].on /\ k.nest = M.jobs[f].nest
    BY <2>1, GotoIsWith DEF Ats
  <2>3. PICK K : K = With(M, f, k)
    OBVIOUS
  <2>4. K \in JbType /\ K.jobs = [M.jobs EXCEPT ![f] = k] /\ Latches(K) = Latches(M)
    BY <2>1, <2>3, WithFields
  <2>5. K.jobs = [J.jobs EXCEPT ![f] = k]
    BY <1>1, <1>3, <2>1, <2>4 DEF JbType
  <2>6. Off(f, J, K) /\ K.jobs[f] = k
    BY <1>1, <2>4, <2>5, OffPut
  <2>7. /\ K.dropRun /\ ~J.dropRun /\ K.hydrating = J.hydrating /\ K.depth = J.depth
        /\ K.counted = J.counted /\ K.fullRun = J.fullRun /\ K.recoverRun = J.recoverRun
    BY <1>3, <1>5, <2>1, <2>4, LatchFields
  <2>8. k.hyd = "none" /\ k.on = NoSlot /\ k.nest = j.nest
    BY <1>3, <2>1, <2>2
  <2>9. JobInv(k) /\ Fair(J.jobs[f], k) /\ k.at \in Restoring /\ WaitsWell(J, k.at, k.on)
    BY <2>2, <2>8 DEF JobInv, Asking, Restoring, WaitsWell
  <2>10. DropInv(K)
    BY <2>6, <2>7, <2>9, DropUp DEF JInv
  <2>11. HydInv(K)
    BY <2>6, <2>7, <2>8, HydSame DEF JInv
  <2>12. WaitInv(K)
    BY <2>6, <2>7, <2>9, WaitKeeps DEF JInv
  <2>13. \A g \in Slots : JobInv(K.jobs[g])
    BY <2>6, <2>9, JobsKeep DEF JInv
  <2>14. Restore(With(J, f, j), f) = K
    BY <1>2, <1>5, <2>2, <2>3 DEF Restore, M
  <2> QED
    BY <2>4, <2>10, <2>11, <2>12, <2>13, <2>14 DEF JInv
<1> QED
  BY <1>4, <1>5

\* The end of a hydrate, of this session or of an earlier one.
LEMMA HydrateEndsStep ==
  ASSUME NEW H \in JbType, NEW f \in Slots, H.jobs[f].at # "idle", NEW K, K = HydrateEnds(H, f)
  PROVE  /\ K \in JbType /\ Off(f, H, K) /\ K.dropRun = H.dropRun /\ K.fullRun = H.fullRun
         /\ K.recoverRun = H.recoverRun /\ K.counted = H.counted
         /\ K.depth = IF H.jobs[f].hyd = "own" /\ H.depth > 0 THEN H.depth - 1 ELSE H.depth
         /\ K.hydrating = IF H.jobs[f].hyd = "late" THEN H.hydrating ELSE K.depth > 0
         /\ K.jobs[f].at = H.jobs[f].at /\ K.jobs[f].on = H.jobs[f].on
         /\ K.jobs[f].nest = H.jobs[f].nest /\ K.jobs[f].hyd = "none"
<1> DEFINE depth == IF H.jobs[f].hyd = "own" /\ H.depth > 0 THEN H.depth - 1 ELSE H.depth
           j == [H.jobs[f] EXCEPT !.hyd = "none"]
           jobs == [H.jobs EXCEPT ![f] = j]
           D == [H EXCEPT !.depth = depth, !.jobs = jobs]
           up == depth > 0
           E == [D EXCEPT !.hydrating = up]
<1>1. H.jobs[f] \in JobType /\ H.jobs \in [Slots -> JobType] /\ H.depth \in Nat
  BY DEF JbType
<1>2. j \in JobType /\ j.at = H.jobs[f].at /\ j.on = H.jobs[f].on /\ j.nest = H.jobs[f].nest
      /\ j.hyd = "none"
  BY <1>1 DEF JobType
<1> HIDE DEF j
<1>3. jobs \in [Slots -> JobType] /\ depth \in Nat /\ up \in BOOLEAN
  BY <1>1, <1>2
<1>4. K = IF H.jobs[f].hyd = "late" THEN D ELSE IF E.depth = 0 THEN PostBoot(E) ELSE E
  BY DEF HydrateEnds, OwnHydrate, j
<1> HIDE DEF depth, jobs, up
<1>5. /\ D \in JbType /\ D.jobs = jobs /\ D.depth = depth /\ D.dropRun = H.dropRun
      /\ D.fullRun = H.fullRun /\ D.recoverRun = H.recoverRun /\ D.counted = H.counted
      /\ D.hydrating = H.hydrating
  BY <1>3 DEF JbType
<1> HIDE DEF D
<1>6. /\ E \in JbType /\ E.jobs = jobs /\ E.depth = depth /\ E.dropRun = H.dropRun
      /\ E.fullRun = H.fullRun /\ E.recoverRun = H.recoverRun /\ E.counted = H.counted
      /\ E.hydrating = up
  BY <1>3, <1>5 DEF JbType
<1> HIDE DEF E
<1>7. Off(f, H, D) /\ D.jobs[f] = j /\ Off(f, H, E) /\ E.jobs[f] = j
  BY <1>1, <1>5, <1>6, OffPut DEF jobs
<1>8. CASE H.jobs[f].hyd = "late"
  BY <1>2, <1>4, <1>5, <1>7, <1>8 DEF depth
<1>9. CASE H.jobs[f].hyd # "late"
  <2>1. Same(E, PostBoot(E)) /\ Same(E, E)
    BY <1>6, PostBootSame, SameSelf
  <2>2. Same(E, K)
    BY <1>4, <1>9, <2>1
  <2>3. Step(f, E, K) /\ SameJob(E.jobs[f], K.jobs[f]) /\ K \in JbType
    BY <1>2, <1>7, <2>2, SameIsStep
  <2>4. Off(f, H, K)
    BY <1>7, <2>3, OffTrans DEF Step
  <2>5. /\ K.dropRun = E.dropRun /\ K.hydrating = E.hydrating /\ K.depth = E.depth
        /\ K.counted = E.counted /\ K.fullRun = E.fullRun /\ K.recoverRun = E.recoverRun
    BY <2>3, LatchFields DEF Step
  <2>6. K.jobs[f].at = H.jobs[f].at /\ K.jobs[f].on = H.jobs[f].on
        /\ K.jobs[f].nest = H.jobs[f].nest /\ K.jobs[f].hyd = "none"
    BY <1>2, <1>7, <2>3 DEF SameJob
  <2>7. K.hydrating = (K.depth > 0) /\ K.depth = depth
    BY <1>6, <2>5 DEF up
  <2> QED
    BY <1>6, <1>9, <2>3, <2>4, <2>5, <2>6, <2>7 DEF depth
<1> QED
  BY <1>8, <1>9

LEMMA HydEnded ==
  ASSUME NEW J, JInv(J), NEW f \in Slots, J.jobs[f].at \in {"boot_w", "restore_w"},
         NEW S, Same(J, S), NEW at \in Ats, at # "idle",
         NEW X, X = HydrateEnds(Goto(S, f, at), f)
  PROVE  /\ X \in JbType /\ Off(f, J, X) /\ HydInv(X)
         /\ X.dropRun = J.dropRun /\ X.fullRun = J.fullRun /\ X.recoverRun = J.recoverRun
         /\ X.jobs[f].at = at /\ X.jobs[f].hyd = "none" /\ X.jobs[f].on = NoSlot
         /\ X.jobs[f].nest = J.jobs[f].nest
<1>1. S \in JbType /\ Step(f, J, S) /\ SameJob(J.jobs[f], S.jobs[f])
  BY SameIsStep
<1>2. PICK H : H = Goto(S, f, at)
  OBVIOUS
<1>3. /\ Step(f, S, H) /\ H \in JbType /\ H.jobs[f].at = at /\ H.jobs[f].hyd = S.jobs[f].hyd
      /\ H.jobs[f].on = S.jobs[f].on /\ H.jobs[f].nest = S.jobs[f].nest
  BY <1>1, <1>2, GotoStep
<1>4. Off(f, J, H) /\ Latches(H) = Latches(J)
  BY <1>1, <1>3, OffTrans DEF Step
<1>5. /\ H.dropRun = J.dropRun /\ H.hydrating = J.hydrating /\ H.depth = J.depth
      /\ H.counted = J.counted /\ H.fullRun = J.fullRun /\ H.recoverRun = J.recoverRun
  BY <1>4, LatchFields
<1>6. H.jobs[f].hyd = J.jobs[f].hyd /\ H.jobs[f].on = J.jobs[f].on
      /\ H.jobs[f].nest = J.jobs[f].nest
  BY <1>1, <1>3 DEF SameJob
<1>7. J.jobs[f].on = NoSlot
  BY DEF JInv, JobInv, OnAts
<1>8. /\ X \in JbType /\ Off(f, H, X) /\ X.dropRun = H.dropRun /\ X.fullRun = H.fullRun
      /\ X.recoverRun = H.recoverRun /\ X.counted = H.counted
      /\ X.depth = IF H.jobs[f].hyd = "own" /\ H.depth > 0 THEN H.depth - 1 ELSE H.depth
      /\ X.hydrating = IF H.jobs[f].hyd = "late" THEN H.hydrating ELSE X.depth > 0
      /\ X.jobs[f].at = H.jobs[f].at /\ X.jobs[f].on = H.jobs[f].on
      /\ X.jobs[f].nest = H.jobs[f].nest /\ X.jobs[f].hyd = "none"
  BY <1>2, <1>3, HydrateEndsStep
<1>9. Off(f, J, X)
  BY <1>4, <1>8, OffTrans
<1>10. HydInv(X)
  BY <1>5, <1>6, <1>8, <1>9, HydEnd DEF JInv
<1> QED
  BY <1>3, <1>5, <1>6, <1>7, <1>8, <1>9, <1>10

\* The end of the hydrate of a boot.
LEMMA BootEnds ==
  ASSUME NEW J, JInv(J), NEW f \in Slots, J.jobs[f].at = "boot_w", NEW S, Same(J, S)
  PROVE  JInv(HydrateEnds(Goto(S, f, "boot_tail"), f))
<1>1. PICK X : X = HydrateEnds(Goto(S, f, "boot_tail"), f)
  OBVIOUS
<1>2. /\ X \in JbType /\ Off(f, J, X) /\ HydInv(X)
      /\ X.dropRun = J.dropRun /\ X.fullRun = J.fullRun /\ X.recoverRun = J.recoverRun
      /\ X.jobs[f].at = "boot_tail" /\ X.jobs[f].hyd = "none" /\ X.jobs[f].on = NoSlot
      /\ X.jobs[f].nest = J.jobs[f].nest
  BY <1>1, HydEnded DEF Ats
<1>3. JobInv(X.jobs[f]) /\ Fair(J.jobs[f], X.jobs[f]) /\ WaitsWell(J, X.jobs[f].at, X.jobs[f].on)
  BY <1>2 DEF JobInv, Fair, WaitsWell, Calm, CanWait, Asking, FullAt, RecoverAt
<1>4. DropInv(X)
  BY <1>2, DropSame DEF JInv, Restoring
<1>5. WaitInv(X)
  BY <1>2, <1>3, WaitKeeps DEF JInv
<1>6. \A g \in Slots : JobInv(X.jobs[g])
  BY <1>2, <1>3, JobsKeep DEF JInv
<1> QED
  BY <1>1, <1>2, <1>4, <1>5, <1>6 DEF JInv

\* The end of a restore: its finally lowers the latch.
LEMMA RestoreOver ==
  ASSUME NEW J, JInv(J), NEW f \in Slots, J.jobs[f].at \in Restoring,
         NEW Y \in JbType, Off(f, J, Y), HydInv(Y),
         Y.fullRun = J.fullRun, Y.recoverRun = J.recoverRun,
         Y.jobs[f].at # "idle", Y.jobs[f].hyd = "none", Y.jobs[f].on = NoSlot,
         Y.jobs[f].nest = J.jobs[f].nest
  PROVE  JInv(RestoreEnds(Y, f))
<1> DEFINE M == [Y EXCEPT !.dropRun = FALSE]
<1>1. /\ M \in JbType /\ M.jobs = Y.jobs /\ ~M.dropRun /\ M.hydrating = Y.hydrating
      /\ M.depth = Y.depth /\ M.counted = Y.counted /\ M.fullRun = Y.fullRun
      /\ M.recoverRun = Y.recoverRun
  BY DEF JbType
<1> HIDE DEF M
<1>2. PICK K : K = Goto(M, f, "return")
  OBVIOUS
<1>3. /\ Step(f, M, K) /\ K \in JbType /\ K.jobs[f].at = "return" /\ K.jobs[f].hyd = M.jobs[f].hyd
      /\ K.jobs[f].on = M.jobs[f].on /\ K.jobs[f].nest = M.jobs[f].nest
  <2>1. "return" \in Ats
    BY DEF Ats
  <2> QED
    BY <1>1, <1>2, <2>1, GotoStep
<1>4. Off(f, Y, M) /\ Off(f, M, K) /\ Off(f, Y, K)
  <2>1. Off(f, Y, M)
    BY <1>1 DEF Off, SameJob
  <2> QED
    BY <1>3, <2>1, OffTrans DEF Step
<1>5. Off(f, J, K)
  BY <1>4, OffTrans
<1>6. /\ ~K.dropRun /\ K.hydrating = Y.hydrating /\ K.depth = Y.depth /\ K.counted = Y.counted
      /\ K.fullRun = J.fullRun /\ K.recoverRun = J.recoverRun
  BY <1>1, <1>3, LatchFields DEF Step
<1>7. K.jobs[f].hyd = "none" /\ K.jobs[f].on = NoSlot /\ K.jobs[f].nest = J.jobs[f].nest
  BY <1>1, <1>3
<1>8. JobInv(K.jobs[f]) /\ Fair(J.jobs[f], K.jobs[f]) /\ WaitsWell(J, K.jobs[f].at, K.jobs[f].on)
  BY <1>3, <1>7 DEF JobInv, Fair, WaitsWell, Calm, CanWait, Asking, FullAt, RecoverAt, Restoring
<1>9. DropInv(K)
  BY <1>3, <1>5, <1>6, DropDown DEF JInv, Restoring
<1>10. HydInv(K)
  <2>1. Own(K) = Own(Y)
    <3>1. ASSUME NEW g \in Slots  PROVE \/ K.jobs[g].hyd = Y.jobs[g].hyd
                                        \/ Y.jobs[g].at = "idle" /\ K.jobs[g].hyd = "none"
      <4>1. CASE g = f
        BY <1>1, <1>3, <4>1
      <4>2. CASE g # f
        <5>1. g \in Slots \ {f} /\ Off(f, Y, K)
          BY <1>4, <4>2
        <5>2. SameJob(Y.jobs[g], K.jobs[g]) \/ (Y.jobs[g].at = "idle" /\ Spawned(K.jobs[g]))
          BY <5>1 DEF Off
        <5> QED
          BY <5>2 DEF SameJob, Spawned
      <4> QED
        BY <4>1, <4>2
    <3>2. ASSUME NEW g \in Slots, Y.jobs[g].at = "idle"  PROVE Y.jobs[g].hyd # "own"
      BY <3>2 DEF Off, SameJob, Spawned, JInv, JobInv, HydAts
    <3> QED
      BY <1>1, <1>3, <3>1, <3>2 DEF Own
  <2> QED
    BY <1>6, <2>1 DEF HydInv
<1>11. WaitInv(K)
  BY <1>5, <1>6, <1>8, WaitKeeps DEF JInv
<1>12. \A g \in Slots : JobInv(K.jobs[g])
  BY <1>5, <1>8, JobsKeep DEF JInv
<1>13. RestoreEnds(Y, f) = K
  BY <1>2 DEF RestoreEnds, M
<1> QED
  BY <1>3, <1>9, <1>10, <1>11, <1>12, <1>13 DEF JInv

LEMMA RestoreOverSame ==
  ASSUME NEW J, JInv(J), NEW f \in Slots, J.jobs[f].at = "restore_fleet", NEW Y, Same(J, Y)
  PROVE  JInv(RestoreEnds(Y, f))
<1>1. J.jobs[f].hyd = "none" /\ J.jobs[f].on = NoSlot
  BY DEF JInv, JobInv, HydAts, OnAts
<1>2. Y \in JbType /\ Step(f, J, Y) /\ SameJob(J.jobs[f], Y.jobs[f]) /\ JInv(Y)
  BY SameIsStep, SameKeeps
<1>3. Off(f, J, Y) /\ Y.fullRun = J.fullRun /\ Y.recoverRun = J.recoverRun /\ HydInv(Y)
  BY <1>2, LatchFields DEF Step, JInv
<1>4. Y.jobs[f].at # "idle" /\ Y.jobs[f].hyd = "none" /\ Y.jobs[f].on = NoSlot
      /\ Y.jobs[f].nest = J.jobs[f].nest
  BY <1>1, <1>2 DEF SameJob
<1> QED
  BY <1>2, <1>3, <1>4, RestoreOver DEF Restoring

LEMMA RestoreOverHyd ==
  ASSUME NEW J, JInv(J), NEW f \in Slots, J.jobs[f].at = "restore_w", NEW S, Same(J, S),
         NEW X, X = HydrateEnds(Goto(S, f, "restore_end"), f), NEW Y, Same(X, Y)
  PROVE  JInv(RestoreEnds(Y, f))
<1>1. /\ X \in JbType /\ Off(f, J, X) /\ HydInv(X)
      /\ X.fullRun = J.fullRun /\ X.recoverRun = J.recoverRun
      /\ X.jobs[f].at = "restore_end" /\ X.jobs[f].hyd = "none" /\ X.jobs[f].on = NoSlot
      /\ X.jobs[f].nest = J.jobs[f].nest
  BY HydEnded DEF Ats
<1>2. Step(f, X, Y) /\ SameJob(X.jobs[f], Y.jobs[f]) /\ Y \in JbType
  BY <1>1, SameIsStep
<1>3. Off(f, X, Y) /\ Off(f, J, Y)
  BY <1>1, <1>2, OffTrans DEF Step
<1>4. /\ Y.hydrating = X.hydrating /\ Y.depth = X.depth /\ Y.counted = X.counted
      /\ Y.fullRun = J.fullRun /\ Y.recoverRun = J.recoverRun
  BY <1>1, <1>2, LatchFields DEF Step
<1>5. Y.jobs[f].at # "idle" /\ Y.jobs[f].hyd = "none" /\ Y.jobs[f].on = NoSlot
      /\ Y.jobs[f].nest = J.jobs[f].nest
  BY <1>1, <1>2 DEF SameJob
<1>6. \A g \in Slots : JobInv(X.jobs[g])
  <2>1. JobInv(X.jobs[f])
    BY <1>1 DEF JobInv, Asking
  <2> QED
    BY <1>1, <2>1, JobsKeep DEF JInv
<1>7. HydInv(Y)
  BY <1>1, <1>3, <1>4, <1>5, <1>6, HydSame
<1> QED
  BY <1>2, <1>3, <1>4, <1>5, <1>7, RestoreOver DEF Restoring

LEMMA WithSelf ==
  ASSUME NEW J \in JbType, NEW f \in Slots
  PROVE  With(J, f, J.jobs[f]) = J
<1>1. J.jobs \in [Slots -> JobType]
  BY DEF JbType
<1>2. [J.jobs EXCEPT ![f] = J.jobs[f]] = J.jobs
  BY <1>1
<1>3. [J EXCEPT !.jobs = J.jobs] = J
  BY DEF JbType
<1> QED
  BY <1>2, <1>3 DEF With

-----------------------------------------------------------------------------
(***************************************************************************)
(* The steps of the jobs                                                   *)
(***************************************************************************)
LEMMA RestoreFields ==
  ASSUME NEW J \in JbType, NEW a \in BOOLEAN, NEW b \in BOOLEAN
  PROVE  Same(J, [J EXCEPT !.open = a, !.dropping = TRUE, !.good = FALSE, !.waiting = b])
<1> DEFINE L == [J EXCEPT !.open = a, !.dropping = TRUE, !.good = FALSE]
           K == [L EXCEPT !.waiting = b]
<1>1. L \in JbType /\ L.jobs = J.jobs /\ Latches(L) = Latches(J)
  <2>1. L \in JbType /\ L.jobs = J.jobs
    BY DEF JbType
  <2>2. Latches(L) = Latches(J)
    BY DEF JbType, Latches
  <2> QED
    BY <2>1, <2>2
<1>2. Same(J, L)
  BY <1>1, Untracked
<1> HIDE DEF L
<1>3. Same(L, K)
  BY <1>1, FieldSet
<1>4. Same(J, K)
  BY <1>2, <1>3, SameTrans
<1> QED
  BY <1>4 DEF L

\* The steps of recoverAfterFailedDrop.
LEMMA RestoreStepKeeps ==
  ASSUME JInv(jb), NEW f \in Slots, RestoreStep(f)
  PROVE  JInv(jb')
<1>1. jb \in JbType /\ jb.jobs[f] \in JobType /\ JobInv(jb.jobs[f])
  BY DEF JInv, JbType
<1>2. CASE jb.jobs[f].at = "restore_open" /\ jb' = Restore(jb, f)
  <2>1. jb.jobs[f].hyd = "none" /\ jb.jobs[f].on = NoSlot
    BY <1>1, <1>2 DEF JobInv, HydAts, OnAts
  <2>2. \A k : Fair(jb.jobs[f], k) <=> (Calm(jb.jobs[f]) => Calm(k))
    BY <1>2 DEF Fair, FullAt, RecoverAt, Asking
  <2>3. \A k : k.at \in {"return", "restore_fleet"} => Calm(k)
    BY DEF Calm, CanWait
  <2>4. JInv(Restore(With(jb, f, jb.jobs[f]), f))
    BY <1>1, <1>2, <2>1, <2>2, <2>3, RestoreKeeps DEF Restoring
  <2> QED
    BY <1>1, <1>2, <2>4, WithSelf
<1>3. ASSUME jb.jobs[f].at = "restore_fleet", NEW opens \in BOOLEAN,
             NEW J, J = [jb EXCEPT !.open = @ \/ opens, !.dropping = TRUE, !.good = FALSE,
                                   !.waiting = JbSidecar],
             jb' = IF JbSidecar /\ J.open
                    THEN Goto(Attached(HydrateBegins(J, f), f), f, "restore")
                    ELSE IF ~JbSidecar /\ J.open /\ ColdAllowed(J, f)
                         THEN RestoreEnds(ColdBuild(J), f)
                         ELSE RestoreEnds(J, f)
      PROVE  JInv(jb')
  <2>1. Same(jb, J)
    <3> DEFINE open == jb.open \/ opens
    <3>1. open \in BOOLEAN /\ JbSidecar \in BOOLEAN
      BY JobsAssumption
    <3>2. J = [jb EXCEPT !.open = open, !.dropping = TRUE, !.good = FALSE, !.waiting = JbSidecar]
      BY <1>3
    <3> HIDE DEF open
    <3> QED
      BY <1>1, <3>1, <3>2, RestoreFields, Zenon
  <2>2. Kept(f, jb, J) /\ JInv(J) /\ J \in JbType
    <3>1. jb.jobs[f].at = "restore_fleet"
      BY <1>3
    <3> QED
      BY <2>1, <3>1, SameIsKept, SameKeeps DEF Same
  <2>3. J.jobs[f].at = "restore_fleet" /\ J.jobs[f].hyd = "none" /\ J.jobs[f].on = NoSlot
    BY <1>1, <1>3, <2>2 DEF Kept, SameJob, JobInv, HydAts, OnAts
  <2>4. JInv(Goto(Attached(HydrateBegins(J, f), f), f, "restore"))
    <3>1. PICK j \in JobType :
            /\ Goto(Attached(HydrateBegins(J, f), f), f, "restore") = Hydrates(J, f, j)
            /\ j.at = "restore" /\ j.hyd = "own" /\ j.on = J.jobs[f].on
            /\ j.nest = J.jobs[f].nest
      BY <2>2, HydratesIs DEF Ats
    <3>2. JobInv(j) /\ Fair(J.jobs[f], j) /\ WaitsWell(J, j.at, j.on)
          /\ j.at \in Restoring /\ J.jobs[f].at \in Restoring
      BY <2>3, <3>1 DEF JobInv, Fair, WaitsWell, Calm, CanWait, Asking, FullAt, RecoverAt,
                        Restoring, HydAts
    <3> QED
      BY <2>2, <2>3, <3>1, <3>2, HydratesKeep
  <2>5. Same(jb, ColdBuild(J)) /\ Same(jb, J)
    BY <2>1, <2>2, ColdBuildSame, SameTrans
  <2>6. JInv(RestoreEnds(ColdBuild(J), f)) /\ JInv(RestoreEnds(J, f))
    BY <1>3, <2>5, RestoreOverSame
  <2> QED
    BY <1>3, <2>4, <2>6
<1>4. CASE jb.jobs[f].at = "restore" /\ jb' = Goto(jb, f, "restore_w")
  <2>1. ASSUME NEW k, k.at = "restore_w", k.hyd = jb.jobs[f].hyd, k.on = jb.jobs[f].on,
               k.nest = jb.jobs[f].nest
        PROVE  JobInv(k) /\ Fair(jb.jobs[f], k)
    BY <1>1, <1>4, <2>1 DEF JobInv, HydAts, OnAts, Asking, Fair, Calm, CanWait, FullAt, RecoverAt
  <2>2. WaitsWell(jb, "restore_w", jb.jobs[f].on)
    BY <1>1, <1>4 DEF JobInv, OnAts, WaitsWell
  <2>3. "restore_w" \in Ats /\ "restore_w" \in Restoring /\ "restore" \in Restoring
    BY DEF Ats, Restoring
  <2> QED
    BY <1>4, <2>1, <2>2, <2>3, GotoKeeps
<1>5. ASSUME jb.jobs[f].at = "restore_w", NEW how, NEW may \in BOOLEAN,
             NEW X, X = HydrateEnds(Goto(Hydrated(jb, f, how), f, "restore_end"), f),
             NEW J, J = IF how = "throw" THEN X ELSE Touched(HydrateWait(X, how)),
             jb' = IF how # "throw" /\ (how = "healed" \/ J.inv # "empty")
                    THEN RestoreEnds(GoodEnough([J EXCEPT !.waiting = FALSE]), f)
                    ELSE IF ~J.waiting /\ ColdAllowed(J, f) /\ may
                         THEN RestoreEnds(ColdBuild(J), f)
                         ELSE RestoreEnds(J, f)
      PROVE  JInv(jb')
  <2>1. Same(jb, Hydrated(jb, f, how))
    BY <1>1, HydratedSame
  <2>2. X \in JbType
    BY <1>5, <2>1, HydEnded DEF Ats
  <2>3. Same(X, J)
    <3>1. Same(X, X) /\ Same(X, HydrateWait(X, how))
      BY <2>2, SameSelf, WaitSame
    <3>2. Same(X, Touched(HydrateWait(X, how)))
      BY <3>1, TouchedSame, SameTrans DEF Same
    <3> QED
      BY <1>5, <3>1, <3>2
  <2>4. J \in JbType
    BY <2>3 DEF Same
  <2>5. Same(X, ColdBuild(J))
    BY <2>3, <2>4, ColdBuildSame, SameTrans
  <2>6. Same(X, GoodEnough([J EXCEPT !.waiting = FALSE]))
    <3>1. PICK K : K = [J EXCEPT !.waiting = FALSE]
      OBVIOUS
    <3>2. Same(J, K)
      BY <2>4, <3>1, FieldSet
    <3>3. Same(K, GoodEnough(K))
      BY <3>2, GoodEnoughSame DEF Same
    <3> QED
      BY <2>3, <3>1, <3>2, <3>3, SameTrans
  <2> QED
    BY <1>5, <2>1, <2>3, <2>5, <2>6, RestoreOverHyd
<1> QED
  BY <1>2, <1>3, <1>4, <1>5, Zenon DEF RestoreStep

\* The synchronous functions, as they are called in a step.
LEMMA OpenSame ==
  ASSUME NEW J \in JbType, NEW b \in BOOLEAN
  PROVE  Same(J, [J EXCEPT !.open = @ \/ b])
<1>1. (J.open \/ b) \in BOOLEAN
  OBVIOUS
<1> QED
  BY <1>1, FieldSet

\* A job that no one waits for goes on, or ends.
LEMMA FreeGoto ==
  ASSUME NEW J, JInv(J), NEW f \in Slots, NEW at \in Ats, J.jobs[f].at \notin Restoring,
         J.jobs[f].hyd = "none", J.jobs[f].on = NoSlot, ~FullAt(J.jobs[f]),
         ~RecoverAt(J.jobs[f]), at \notin Asking, at \notin Restoring,
         Calm(J.jobs[f]) => at \notin CanWait /\ at # "idle"
  PROVE  JInv(Goto(J, f, at))
<1>1. ASSUME NEW k, k.at = at, k.hyd = J.jobs[f].hyd, k.on = J.jobs[f].on,
             k.nest = J.jobs[f].nest
      PROVE  JobInv(k) /\ Fair(J.jobs[f], k)
  BY <1>1 DEF JobInv, Fair, Calm, RecoverAt
<1>2. WaitsWell(J, at, J.jobs[f].on)
  BY DEF WaitsWell
<1> QED
  BY <1>1, <1>2, GotoKeeps

\* To the return of the function that runs in f, if it is no restore and no full reindex.
LEMMA ReturnKeeps ==
  ASSUME NEW J, JInv(J), NEW f \in Slots, J.jobs[f].at \notin Restoring,
         J.jobs[f].hyd = "none", J.jobs[f].on = NoSlot,
         J.jobs[f].at \in {"open", "boot_tail", "retry", "wedge_open", "reset", "return"}
  PROVE  JInv(Goto(J, f, "return"))
<1>1. ASSUME NEW k, k.at = "return", k.hyd = J.jobs[f].hyd, k.on = J.jobs[f].on,
             k.nest = J.jobs[f].nest
      PROVE  JobInv(k) /\ Fair(J.jobs[f], k)
  <2>1. J.jobs[f].at \notin Asking
    BY DEF Asking
  <2>2. JobInv(k) /\ Calm(k)
    BY <1>1 DEF JobInv, Calm, Asking, CanWait
  <2>3. FullAt(J.jobs[f]) => FullAt(k)
    BY <1>1 DEF FullAt
  <2>4. RecoverAt(J.jobs[f]) => RecoverAt(k)
    BY <1>1, <2>1, Zenon DEF RecoverAt, RecoverNests, Recovers
  <2> QED
    BY <2>1, <2>2, <2>3, <2>4 DEF Fair
<1>2. WaitsWell(J, "return", J.jobs[f].on) /\ "return" \in Ats /\ "return" \notin Restoring
  BY DEF WaitsWell, Ats, Restoring
<1> QED
  BY <1>1, <1>2, GotoKeeps

\* resumeBootAfterStoreOpen, from the boot or from retryIndexStoreOpen.
LEMMA ResumeKeeps ==
  ASSUME NEW J, JInv(J), NEW f \in Slots, J.jobs[f].at \in {"open", "retry"}
  PROVE  JInv(Resume(J, f))
<1>1. J \in JbType /\ J.jobs[f].hyd = "none" /\ J.jobs[f].on = NoSlot
  BY DEF JInv, JobInv, HydAts, OnAts
<1>2. JInv(Goto(J, f, "return"))
  BY <1>1, ReturnKeeps DEF Restoring
<1>3. PICK K : K = [J EXCEPT !.boot = TRUE]
  OBVIOUS
<1>4. Same(J, K)
  BY <1>1, <1>3, FieldSet
<1>5. Kept(f, J, K) /\ K \in JbType
  BY <1>4, SameIsKept DEF Same
<1>6. PICK j \in JobType :
        /\ Goto(Attached(HydrateBegins(K, f), f), f, "boot") = Hydrates(K, f, j)
        /\ j.at = "boot" /\ j.hyd = "own" /\ j.on = K.jobs[f].on /\ j.nest = K.jobs[f].nest
  BY <1>5, HydratesIs DEF Ats
<1>7. /\ K.jobs[f].at \in {"open", "retry"} /\ K.jobs[f].hyd = "none" /\ j.on = NoSlot
  BY <1>1, <1>5, <1>6 DEF Kept, SameJob
<1>8. JobInv(j) /\ Fair(K.jobs[f], j) /\ WaitsWell(K, j.at, j.on)
  BY <1>6, <1>7 DEF JobInv, Fair, WaitsWell, Calm, CanWait, Asking, FullAt, RecoverAt, HydAts
<1>9. j.at \notin Restoring /\ K.jobs[f].at \notin Restoring
  BY <1>6, <1>7 DEF Restoring
<1>10. JInv(Hydrates(K, f, j))
  BY <1>5, <1>6, <1>7, <1>8, <1>9, HydratesKeep DEF Kept
<1> QED
  BY <1>2, <1>3, <1>6, <1>10 DEF Resume

\* The steps of the boot and of reconcileOnLoad.
LEMMA BootStepKeeps ==
  ASSUME JInv(jb), NEW f \in Slots, BootStep(f)
  PROVE  JInv(jb')
<1>1. jb \in JbType /\ jb.jobs[f] \in JobType /\ JobInv(jb.jobs[f])
  BY DEF JInv, JbType
<1>2. ASSUME jb.jobs[f].at = "open", NEW opens \in BOOLEAN,
             NEW J, J = [jb EXCEPT !.open = @ \/ opens],
             jb' = IF J.open THEN Resume(Touched(J), f) ELSE End(J, f)
      PROVE  JInv(jb')
  <2>1. Same(jb, J)
    BY <1>1, <1>2, OpenSame
  <2>2. Same(J, Touched(J)) /\ Same(jb, Touched(J))
    BY <2>1, TouchedSame, SameTrans DEF Same
  <2>3. Kept(f, jb, J) /\ Kept(f, jb, Touched(J))
    BY <1>2, <2>1, <2>2, SameIsKept
  <2>4. JInv(Resume(Touched(J), f))
    BY <1>2, <2>3, ResumeKeeps DEF Kept, SameJob
  <2>5. J.jobs[f].at = "open" /\ J.jobs[f].hyd = "none" /\ JInv(J)
    BY <1>1, <1>2, <2>3 DEF Kept, SameJob, JobInv, HydAts
  <2>6. J.fullRun # f /\ J.recoverRun # f
    BY <2>5, JobsAssumption DEF JInv, WaitInv, FullAt, RecoverAt, Asking
  <2>7. JInv(End(J, f))
    BY <2>5, <2>6, EndKeeps DEF Restoring
  <2> QED
    BY <1>2, <2>4, <2>7
<1>3. CASE jb.jobs[f].at = "boot" /\ jb' = Goto(jb, f, "boot_w")
  <2>1. ASSUME NEW k, k.at = "boot_w", k.hyd = jb.jobs[f].hyd, k.on = jb.jobs[f].on,
               k.nest = jb.jobs[f].nest
        PROVE  JobInv(k) /\ Fair(jb.jobs[f], k)
    BY <1>1, <1>3, <2>1 DEF JobInv, HydAts, OnAts, Asking, Fair, Calm, CanWait, FullAt, RecoverAt
  <2>2. WaitsWell(jb, "boot_w", jb.jobs[f].on)
    BY <1>1, <1>3 DEF JobInv, OnAts, WaitsWell
  <2>3. "boot_w" \in Ats /\ "boot_w" \notin Restoring /\ "boot" \notin Restoring
    BY DEF Ats, Restoring
  <2> QED
    BY <1>3, <2>1, <2>2, <2>3, GotoKeeps
<1>4. ASSUME jb.jobs[f].at = "boot_w", NEW how,
             NEW H, H = HydrateEnds(Goto(Hydrated(jb, f, how), f, "boot_tail"), f),
             jb' = IF how = "throw" THEN H ELSE Touched(HydrateWait(H, how))
      PROVE  JInv(jb')
  <2>1. Same(jb, Hydrated(jb, f, how))
    BY <1>1, HydratedSame
  <2>2. JInv(H)
    BY <1>4, <2>1, BootEnds
  <2>3. Same(H, HydrateWait(H, how))
    BY <2>2, WaitSame DEF JInv
  <2>4. Same(H, Touched(HydrateWait(H, how)))
    BY <2>3, TouchedSame, SameTrans DEF Same
  <2> QED
    BY <1>4, <2>2, <2>4, SameKeeps
<1>5. ASSUME jb.jobs[f].at = "boot_tail",
             NEW J, J = IF ~jb.good /\ ~jb.waiting /\ jb.inv # "empty" /\ ~jb.dropping
                        THEN GoodEnough(jb) ELSE jb,
             NEW R, R = IF Current(J, f) /\ ~J.waiting /\ ~J.hydrating
                        THEN Spawn(J, Job("recon", "recon")) ELSE J,
             jb' = IF Current(R, f) THEN Goto(PostBoot(Touched(R)), f, "return")
                                   ELSE Goto(R, f, "return")
      PROVE  JInv(jb')
  <2>1. Same(jb, J)
    BY <1>1, <1>5, GoodEnoughSame, SameSelf
  <2>2. J \in JbType
    BY <2>1 DEF Same
  <2>3. Same(J, R)
    BY <1>5, <2>2, NewIsSpawned, SpawnSame, SameSelf DEF Kinds
  <2>4. Same(jb, R) /\ R \in JbType
    BY <2>1, <2>3, SameTrans DEF Same
  <2>5. Same(R, Touched(R)) /\ Touched(R) \in JbType
    BY <2>4, TouchedSame DEF Same
  <2>6. Same(R, PostBoot(Touched(R)))
    BY <2>5, PostBootSame, SameTrans
  <2>7. Same(jb, PostBoot(Touched(R)))
    BY <2>4, <2>6, SameTrans
  <2>8. ASSUME NEW K, Same(jb, K)  PROVE JInv(Goto(K, f, "return"))
    <3>1. Kept(f, jb, K)
      BY <1>5, <2>8, SameIsKept
    <3>2. K.jobs[f].at = "boot_tail" /\ K.jobs[f].hyd = "none" /\ K.jobs[f].on = NoSlot /\ JInv(K)
      BY <1>1, <1>5, <3>1 DEF Kept, SameJob, JobInv, HydAts, OnAts
    <3> QED
      BY <3>2, ReturnKeeps DEF Restoring
  <2> QED
    BY <1>5, <2>4, <2>7, <2>8
<1>6. ASSUME jb.jobs[f].at = "recon", NEW mode,
             jb' = End(jb, f) \/ jb' = End(Build(jb, mode), f)
      PROVE  JInv(jb')
  <2>1. ASSUME NEW K, Same(jb, K)  PROVE JInv(End(K, f))
    <3>1. Kept(f, jb, K)
      BY <1>6, <2>1, SameIsKept
    <3>2. K.jobs[f].at = "recon" /\ K.jobs[f].hyd = "none" /\ JInv(K)
      BY <1>1, <1>6, <3>1 DEF Kept, SameJob, JobInv, HydAts
    <3>3. K.fullRun # f /\ K.recoverRun # f
      BY <3>2, JobsAssumption DEF JInv, WaitInv, FullAt, RecoverAt, Asking
    <3> QED
      BY <3>2, <3>3, EndKeeps DEF Restoring
  <2>2. Same(jb, jb) /\ Same(jb, Build(jb, mode))
    BY <1>1, SameSelf, BuildSame
  <2> QED
    BY <1>6, <2>1, <2>2
<1> QED
  <2>1. CASE jb.jobs[f].at = "open"
    BY <1>2, <2>1 DEF BootStep
  <2>2. CASE jb.jobs[f].at = "boot"
    BY <1>3, <2>2 DEF BootStep
  <2>3. CASE jb.jobs[f].at = "boot_w"
    BY <1>4, <2>3 DEF BootStep
  <2>4. CASE jb.jobs[f].at = "boot_tail"
    BY <1>5, <2>4 DEF BootStep
  <2>5. CASE jb.jobs[f].at = "recon"
    BY <1>6, <2>5 DEF BootStep
  <2> QED
    BY <2>1, <2>2, <2>3, <2>4, <2>5 DEF BootStep

-----------------------------------------------------------------------------
\* The labels at which no one waits for a job, whoever called it.
Free ==
  {"open", "recon", "restore_open", "startup", "drain", "drain_w", "drained", "drain_end",
   "full_prior", "full_recover", "full_open", "cold_fleet", "cold_model", "join", "joined",
   "stall"}

LEMMA FreeAt ==
  ASSUME NEW j, j.at \in Free
  PROVE  ~FullAt(j) /\ ~RecoverAt(j) /\ j.at \notin Asking /\ j.at \notin Restoring
         /\ j.at \notin HydAts /\ j.at # "idle"
<1>1. j.at \notin Asking /\ j.at \notin Restoring /\ j.at \notin HydAts /\ j.at # "idle"
  BY DEF Free, Asking, Restoring, HydAts
<1>2. ~FullAt(j)
  BY DEF Free, FullAt
<1>3. ~RecoverAt(j)
  BY <1>1 DEF Free, RecoverAt
<1> QED
  BY <1>1, <1>2, <1>3

LEMMA SameEnd ==
  ASSUME NEW J, JInv(J), NEW f \in Slots, J.jobs[f].at \in Free, NEW K, Same(J, K)
  PROVE  JInv(End(K, f))
<1>1. J.jobs[f].at # "idle"
  BY FreeAt
<1>2. Kept(f, J, K)
  BY <1>1, SameIsKept
<1>3. K.jobs[f].at \in Free /\ JInv(K) /\ NoSlot \notin Slots
  BY <1>2, JobsAssumption DEF Kept, SameJob
<1>4. K.jobs[f].hyd = "none" /\ K.jobs[f].at \notin Restoring
  BY <1>3, FreeAt DEF JInv, JobInv
<1>5. K.fullRun # f /\ K.recoverRun # f
  BY <1>3, FreeAt DEF JInv, WaitInv
<1> QED
  BY <1>3, <1>4, <1>5, EndKeeps

LEMMA SameGoto ==
  ASSUME NEW J, JInv(J), NEW f \in Slots, J.jobs[f].at \in Free, J.jobs[f].on = NoSlot,
         NEW K, Same(J, K), NEW at \in Ats, at \notin Asking, at \notin Restoring,
         J.jobs[f].at \in CanWait \/ at \notin CanWait \cup {"idle"}
  PROVE  JInv(Goto(K, f, at))
<1>1. J.jobs[f].at # "idle"
  BY FreeAt
<1>2. Kept(f, J, K)
  BY <1>1, SameIsKept
<1>3. K.jobs[f].at \in Free /\ JInv(K) /\ K.jobs[f].at = J.jobs[f].at
      /\ K.jobs[f].on = NoSlot
  BY <1>2 DEF Kept, SameJob
<1>4. /\ K.jobs[f].hyd = "none" /\ K.jobs[f].at \notin Restoring
      /\ ~FullAt(K.jobs[f]) /\ ~RecoverAt(K.jobs[f])
  BY <1>3, FreeAt DEF JInv, JobInv
<1>5. Calm(K.jobs[f]) => at \notin CanWait /\ at # "idle"
  BY <1>3 DEF Calm
<1> QED
  BY <1>3, <1>4, <1>5, FreeGoto

\* The steps of the catch-up.
LEMMA CatchUpStepKeeps ==
  ASSUME JInv(jb), NEW f \in Slots, CatchUpStep(f)
  PROVE  JInv(jb')
<1>1. jb \in JbType /\ JobInv(jb.jobs[f]) /\ Same(jb, jb)
  BY SameSelf DEF JInv
<1>2. ASSUME jb.jobs[f].at \in {"startup", "drain", "drain_w", "drained", "drain_end"}
      PROVE  jb.jobs[f].at \in Free /\ jb.jobs[f].on = NoSlot /\ jb.jobs[f].at \notin CanWait
  BY <1>1, <1>2 DEF Free, JobInv, OnAts, CanWait
<1>3. ASSUME NEW at \in {"drain", "drain_w", "drained", "drain_end"}
      PROVE  at \in Ats /\ at \notin Asking /\ at \notin Restoring
             /\ at \notin CanWait \cup {"idle"}
  BY DEF Ats, Asking, Restoring, CanWait
<1>4. CASE jb.jobs[f].at = "startup"
  <2>1. Same(jb, RunCatchUp(jb))
    BY <1>1, RunCatchUpSame
  <2>2. jb' \in {End(RunCatchUp(jb), f), End(jb, f)}
    BY <1>4 DEF CatchUpStep
  <2> QED
    BY <1>1, <1>2, <1>4, <2>1, <2>2, SameEnd
<1>5. CASE jb.jobs[f].at = "drain"
  <2>1. jb' = Goto(jb, f, "drain_w")
    BY <1>5 DEF CatchUpStep
  <2> QED
    BY <1>1, <1>2, <1>3, <1>5, <2>1, SameGoto
<1>6. CASE jb.jobs[f].at = "drain_w"
  <2>1. ASSUME NEW c \in {"partial", "whole"},
               jb' = Goto([jb EXCEPT !.content = IF @ = "whole" THEN @ ELSE c], f, "drained")
        PROVE  JInv(jb')
    <3>1. PICK d \in Index : d = IF jb.content = "whole" THEN jb.content ELSE c
      BY <1>1 DEF JbType, Index
    <3>2. Same(jb, [jb EXCEPT !.content = IF @ = "whole" THEN @ ELSE c])
      BY <1>1, <3>1, TextSet
    <3> QED
      BY <1>2, <1>3, <1>6, <2>1, <3>2, SameGoto
  <2>2. ASSUME jb' = Goto([jb EXCEPT !.pending = IF Current(jb, f) THEN TRUE ELSE @], f, "drain_end")
        PROVE  JInv(jb')
    <3>1. (IF Current(jb, f) THEN TRUE ELSE jb.pending) \in BOOLEAN
      BY <1>1 DEF JbType
    <3>2. Same(jb, [jb EXCEPT !.pending = IF Current(jb, f) THEN TRUE ELSE @])
      BY <1>1, <3>1, FieldSet
    <3> QED
      BY <1>2, <1>3, <1>6, <2>2, <3>2, SameGoto
  <2> QED
    BY <1>6, <2>1, <2>2 DEF CatchUpStep
<1>7. CASE jb.jobs[f].at = "drained"
  <2>1. jb' = Goto(jb, f, "drain")
        \/ jb' = Goto([jb EXCEPT !.pending = jb.content # "whole"], f, "drain_end")
    BY <1>7 DEF CatchUpStep
  <2>2. Same(jb, [jb EXCEPT !.pending = jb.content # "whole"])
    BY <1>1, FieldSet
  <2> QED
    BY <1>1, <1>2, <1>3, <1>7, <2>1, <2>2, SameGoto
<1>8. CASE jb.jobs[f].at = "drain_end"
  <2>1. jb' = DrainEnds(jb, f)
    BY <1>8 DEF CatchUpStep
  <2>2. PICK D : D = [jb EXCEPT !.running = FALSE]
    OBVIOUS
  <2>3. Same(jb, D)
    BY <1>1, <2>2, FieldSet
  <2>4. Same(D, StartupCatchUp(D)) /\ StartupCatchUp(D) \in JbType
    BY <2>3, StartupSame DEF Same
  <2>5. Same(jb, Touched(StartupCatchUp(D)))
    BY <2>3, <2>4, TouchedSame, SameTrans
  <2>6. jb' = End(D, f) \/ jb' = End(Touched(StartupCatchUp(D)), f)
    BY <2>1, <2>2 DEF DrainEnds, LateReset
  <2> QED
    BY <1>2, <1>8, <2>3, <2>5, <2>6, SameEnd
<1> QED
  BY <1>4, <1>5, <1>6, <1>7, <1>8 DEF CatchUpStep

-----------------------------------------------------------------------------
\* A full reindex that is done with waiting.
LEMMA SameBody ==
  ASSUME NEW J, JInv(J), NEW f \in Slots, J.jobs[f].at \in Free, J.jobs[f].on = NoSlot,
         NEW K, Same(J, K)
  PROVE  JInv(FullBody(K, f))
<1>1. J.jobs[f].at # "idle"
  BY FreeAt
<1>2. Kept(f, J, K)
  BY <1>1, SameIsKept
<1>3. K.jobs[f].at \in Free /\ JInv(K) /\ K.jobs[f].on = NoSlot
  BY <1>2 DEF Kept, SameJob
<1>4. /\ K.jobs[f].hyd = "none" /\ K.jobs[f].at \notin Restoring /\ ~RecoverAt(K.jobs[f])
  BY <1>3, FreeAt DEF JInv, JobInv
<1> QED
  BY <1>3, <1>4, FullBodyKeeps

\* Whom a job may wait for.
LEMMA MayAwait ==
  ASSUME NEW J, JInv(J)
  PROVE  /\ J.fullRun \in Slots \cup {NoSlot} /\ J.recoverRun \in Slots \cup {NoSlot}
         /\ \A at : WaitsWell(J, at, J.fullRun)
         /\ \A at : at # "prior" => WaitsWell(J, at, J.recoverRun)
<1>1. J.fullRun \in Slots \cup {NoSlot} /\ J.recoverRun \in Slots \cup {NoSlot}
  BY DEF JInv, JbType
<1>2. \A j : FullAt(j) => Calm(j)
  BY DEF FullAt, Calm, CanWait
<1>3. \A j : RecoverAt(j) => Calm(j) \/ j.at \in Asking
  BY DEF RecoverAt, Calm, CanWait
<1> QED
  BY <1>1, <1>2, <1>3 DEF JInv, WaitInv, WaitsWell

\* A job that waits for another one.
LEMMA AwaitKeeps ==
  ASSUME NEW J, JInv(J), NEW f \in Slots, J.jobs[f].at \in CanWait,
         NEW r \in Slots \cup {NoSlot}, NEW at \in OnAts, WaitsWell(J, at, r),
         J.jobs[f].at \in Asking <=> at \in Asking
  PROVE  JInv(Goto([J EXCEPT !.jobs[f].on = r], f, at))
<1>1. J \in JbType /\ at \in Ats /\ at \notin Restoring /\ J.jobs[f].at \notin Restoring
      /\ JobInv(J.jobs[f])
  BY DEF JInv, OnAts, Ats, Restoring, CanWait
<1>2. PICK j \in JobType : /\ [J EXCEPT !.jobs[f].on = r] = With(J, f, j)
                           /\ j.hyd = J.jobs[f].hyd /\ j.on = r /\ j.nest = J.jobs[f].nest
  <2> DEFINE j == [J.jobs[f] EXCEPT !.on = r]
  <2>1. [J EXCEPT !.jobs[f].on = r] = With(J, f, j) /\ j \in JobType
        /\ j.hyd = J.jobs[f].hyd /\ j.on = r /\ j.nest = J.jobs[f].nest
    BY <1>1, FieldWith
  <2> HIDE DEF j
  <2> QED
    BY <2>1
<1>3. ~FullAt(J.jobs[f]) /\ ~Calm(J.jobs[f]) /\ J.jobs[f].at \notin HydAts
  BY DEF FullAt, Calm, CanWait, HydAts
<1>4. RecoverAt(J.jobs[f]) => J.jobs[f].at \in Asking
  BY DEF RecoverAt, CanWait
<1>5. ASSUME NEW k, k.at = at, k.hyd = j.hyd, k.on = j.on, k.nest = j.nest
      PROVE  JobInv(k) /\ Fair(J.jobs[f], k)
  <2>1. JobInv(k)
    BY <1>1, <1>2, <1>3, <1>5 DEF JobInv
  <2>2. J.jobs[f].at \in Asking => RecoverAt(k)
    BY <1>5 DEF RecoverAt
  <2> QED
    BY <1>3, <1>4, <1>5, <2>1, <2>2 DEF Fair
<1>6. WaitsWell(J, at, j.on)
  BY <1>2
<1> QED
  BY <1>1, <1>2, <1>5, <1>6, PutGotoKeeps

-----------------------------------------------------------------------------
\* The full reindex, past its own waiting.
FullAts == {"full_fleet", "confirm", "slate", "index", "index_w", "full_catch"}

LEMMA FullFields ==
  ASSUME NEW J, JInv(J), NEW f \in Slots, J.jobs[f].at \in FullAts
  PROVE  /\ J.jobs[f].hyd = "none" /\ J.jobs[f].on = NoSlot /\ J.jobs[f].at # "idle"
         /\ J.jobs[f].at \notin Restoring /\ J.jobs[f].at \notin Asking
         /\ ~RecoverAt(J.jobs[f])
<1>1. JobInv(J.jobs[f])
  BY DEF JInv
<1> QED
  BY <1>1 DEF JobInv, FullAts, HydAts, OnAts, Restoring, Asking, RecoverAt

LEMMA FullGoto ==
  ASSUME NEW J, JInv(J), NEW f \in Slots, J.jobs[f].at \in FullAts,
         NEW at \in FullAts \cup {"full_end"}
  PROVE  JInv(Goto(J, f, at))
<1>1. /\ J.jobs[f].hyd = "none" /\ J.jobs[f].on = NoSlot /\ J.jobs[f].at # "idle"
      /\ J.jobs[f].at \notin Restoring /\ J.jobs[f].at \notin Asking
      /\ ~RecoverAt(J.jobs[f])
  BY FullFields
<1>2. at \in Ats /\ at \notin Restoring /\ at \notin Asking /\ at \notin CanWait /\ at # "idle"
  BY DEF FullAts, Ats, Restoring, Asking, CanWait
<1>3. ASSUME NEW k, k.at = at, k.hyd = J.jobs[f].hyd, k.on = J.jobs[f].on,
             k.nest = J.jobs[f].nest
      PROVE  JobInv(k) /\ Fair(J.jobs[f], k)
  <2>1. FullAt(k)
    BY <1>3 DEF FullAt, FullAts
  <2> QED
    BY <1>1, <1>2, <1>3, <2>1 DEF JobInv, Fair, Calm
<1>4. WaitsWell(J, at, J.jobs[f].on)
  BY <1>1 DEF WaitsWell
<1> QED
  BY <1>1, <1>2, <1>3, <1>4, GotoKeeps

LEMMA SameFull ==
  ASSUME NEW J, JInv(J), NEW f \in Slots, J.jobs[f].at \in FullAts, NEW K, Same(J, K)
  PROVE  JInv(K) /\ K \in JbType /\ K.jobs[f].at = J.jobs[f].at /\ K.jobs[f].at \in FullAts
<1>1. J.jobs[f].at # "idle"
  BY FullFields
<1> QED
  BY <1>1, SameIsKept DEF Kept, SameJob, JInv

\* finalizeFullReindex, with the restore of an index that was wiped.
LEMMA FullEndsKeeps ==
  ASSUME NEW J, JInv(J), NEW f \in Slots, J.jobs[f].at \in FullAts
  PROVE  JInv(FullEnds(J, f))
<1>1. J \in JbType
  BY DEF JInv
<1>2. PICK E : E = [J EXCEPT !.full = @ /\ ~CurrentFull(J, f)]
  OBVIOUS
<1>3. Same(J, E)
  <2>1. PICK b \in BOOLEAN : b = (J.full /\ ~CurrentFull(J, f))
    OBVIOUS
  <2> QED
    BY <1>1, <1>2, <2>1, FieldSet
<1>4. JInv(E) /\ E \in JbType /\ E.jobs[f].at \in FullAts
  BY <1>3, SameFull
<1>5. /\ E.jobs[f].hyd = "none" /\ E.jobs[f].on = NoSlot /\ E.jobs[f].at # "idle"
      /\ E.jobs[f].at \notin Restoring /\ E.jobs[f].at \notin Asking
      /\ ~RecoverAt(E.jobs[f])
  BY <1>4, FullFields
<1>6. JInv(Goto(E, f, "full_end"))
  BY <1>4, FullGoto
<1>7. JInv(Restore(Call(E, f, "full"), f))
  <2>1. "full" \in Callers /\ E.jobs[f].nest \in Seq(Callers)
    BY <1>4 DEF Callers, JbType, JobType
  <2>2. PICK j \in JobType : /\ Call(E, f, "full") = With(E, f, j)
                             /\ j.hyd = E.jobs[f].hyd /\ j.on = E.jobs[f].on
                             /\ j.nest = <<"full">> \o E.jobs[f].nest
    BY <1>4, <2>1, CallWith
  <2>3. j.nest # <<>> /\ Head(j.nest) = "full"
    BY <2>1, <2>2
  <2>5. ASSUME NEW k, k.at \in {"return", "restore_fleet"}, k.nest = j.nest
        PROVE  Fair(E.jobs[f], k)
    BY <1>5, <2>3, <2>5 DEF Fair, FullAt, Calm, CanWait
  <2>4. j.hyd = "none" /\ j.on = NoSlot
    BY <1>5, <2>2
  <2>6. JInv(Restore(With(E, f, j), f))
    BY <1>4, <1>5, <2>4, <2>5, RestoreKeeps
  <2> QED
    BY <2>2, <2>6
<1> QED
  BY <1>2, <1>6, <1>7 DEF FullEnds

\* The wipe of a full reindex.
LEMMA WipeKeeps ==
  ASSUME NEW J, JInv(J), NEW f \in Slots, J.jobs[f].at \in FullAts
  PROVE  JInv(Wipe(J, f))
<1>1. PICK A : A = IF IsWriting(J) \/ J.running \/ J.hydrating \/ J.pending
                   THEN Abort(J, TRUE, TRUE) ELSE J
  OBVIOUS
<1>2. JInv(A) /\ A.jobs[f].at \in FullAts
  <2>1. J.jobs[f].at # "idle"
    BY FullFields
  <2> QED
    BY <1>1, <2>1, AbortKeeps
<1>3. Same(A, Dropped(A))
  BY <1>2, DroppedSame DEF JInv
<1>4. PICK D : D = Dropped(A)
  OBVIOUS
<1>5. PICK E : E = [D EXCEPT !.pending = FALSE]
  OBVIOUS
<1>6. PICK G : G = [E EXCEPT !.open = FALSE]
  OBVIOUS
<1>7. PICK K : K = [G EXCEPT !.jobs[f].wiped = TRUE]
  OBVIOUS
<1>8. Same(A, D) /\ Same(D, E) /\ E \in JbType
  <2>1. Same(A, D) /\ D \in JbType
    BY <1>3, <1>4 DEF Same
  <2>2. Same(D, E)
    BY <1>5, <2>1, FieldSet
  <2> QED
    BY <2>1, <2>2 DEF Same
<1>9. Same(E, G) /\ G \in JbType
  <2>1. Same(E, G)
    BY <1>6, <1>8, FieldSet
  <2> QED
    BY <2>1 DEF Same
<1>13. Same(G, K)
  BY <1>7, <1>9, MarkSame
<1>14. Same(A, E)
  BY <1>8, SameTrans
<1>15. Same(A, G)
  BY <1>9, <1>14, SameTrans
<1>10. Same(A, K)
  BY <1>13, <1>15, SameTrans
<1>11. JInv(Goto(K, f, "slate"))
  BY <1>2, <1>10, SameFull, FullGoto DEF FullAts
<1>12. K = [Dropped(A) EXCEPT !.pending = FALSE, !.open = FALSE, !.jobs[f].wiped = TRUE]
  BY <1>4, <1>5, <1>6, <1>7
<1> QED
  BY <1>1, <1>11, <1>12 DEF Wipe

\* The steps of the full reindex.
LEMMA FullStepKeeps ==
  ASSUME JInv(jb), NEW f \in Slots, FullStep(f)
  PROVE  JInv(jb')
<1>1. jb \in JbType /\ JobInv(jb.jobs[f]) /\ Same(jb, jb)
  BY SameSelf DEF JInv
<1>2. CASE jb.jobs[f].at = "full_prior"
  <2>1. jb' = Goto([jb EXCEPT !.jobs[f].on = jb.recoverRun], f, "full_recover")
    BY <1>2 DEF FullStep
  <2>2. /\ jb.jobs[f].at \in CanWait /\ jb.jobs[f].at \notin Asking
        /\ "full_recover" \in OnAts /\ "full_recover" \notin Asking
    BY <1>2 DEF CanWait, Asking, OnAts
  <2> QED
    BY <2>1, <2>2, MayAwait, AwaitKeeps
<1>3. CASE jb.jobs[f].at = "full_recover" /\ jb.jobs[f].on = NoSlot
  <2>1. jb.jobs[f].at \in Free /\ jb.jobs[f].at \in CanWait
    BY <1>3 DEF Free, CanWait
  <2>2. \/ jb' = Goto(jb, f, "full_end") \/ jb' = FullBody(Attach(jb), f)
        \/ jb' = Goto(jb, f, "full_open")
    BY <1>3 DEF FullStep
  <2>3. /\ {"full_end", "full_open"} \subseteq Ats
        /\ \A at \in {"full_end", "full_open"} : at \notin Asking /\ at \notin Restoring
    BY DEF Ats, Asking, Restoring
  <2>4. JInv(Goto(jb, f, "full_end")) /\ JInv(Goto(jb, f, "full_open"))
    BY <1>1, <1>3, <2>1, <2>3, SameGoto
  <2>5. Same(jb, Attach(jb))
    BY <1>1, AttachSame
  <2>6. JInv(FullBody(Attach(jb), f))
    BY <1>3, <2>1, <2>5, SameBody
  <2> QED
    BY <2>2, <2>4, <2>6
<1>4. CASE jb.jobs[f].at = "full_open"
  <2>1. PICK opens \in BOOLEAN : jb' = FullBody(Attach([jb EXCEPT !.open = @ \/ opens]), f)
    BY <1>4 DEF FullStep
  <2>2. PICK K : K = [jb EXCEPT !.open = @ \/ opens]
    OBVIOUS
  <2>3. Same(jb, K) /\ K \in JbType
    BY <1>1, <2>2, OpenSame DEF Same
  <2>4. Same(jb, Attach(K))
    BY <2>3, AttachSame, SameTrans
  <2>5. jb.jobs[f].at \in Free /\ jb.jobs[f].on = NoSlot
    BY <1>1, <1>4 DEF Free, JobInv, OnAts
  <2> QED
    BY <2>1, <2>2, <2>4, <2>5, SameBody
<1>5. CASE jb.jobs[f].at \in {"full_fleet", "confirm"}
  <2>1. jb.jobs[f].at \in FullAts
    BY <1>5 DEF FullAts
  <2>2. jb' = FullEnds(jb, f) \/ jb' = Wipe(jb, f) \/ jb' = Goto(jb, f, "confirm")
    BY <1>5 DEF FullStep
  <2> QED
    BY <2>1, <2>2, FullEndsKeeps, WipeKeeps, FullGoto DEF FullAts
<1>6. CASE jb.jobs[f].at = "slate"
  <2>1. jb.jobs[f].at \in FullAts
    BY <1>6 DEF FullAts
  <2>0. PICK reset \in BOOLEAN, opens \in BOOLEAN : \E J :
          /\ J = IF reset THEN [jb EXCEPT !.content = "empty", !.open = TRUE]
                 ELSE [jb EXCEPT !.open = opens]
          /\ jb' = FullEnds(J, f) \/ jb' = Goto(Attached(Attach(J), f), f, "index")
    BY <1>6 DEF FullStep
  <2>2. PICK J :
          /\ J = IF reset THEN [jb EXCEPT !.content = "empty", !.open = TRUE]
                 ELSE [jb EXCEPT !.open = opens]
          /\ jb' = FullEnds(J, f) \/ jb' = Goto(Attached(Attach(J), f), f, "index")
    BY <2>0
  <2>3. Same(jb, J)
    <3>1. PICK C : C = [jb EXCEPT !.content = "empty"]
      OBVIOUS
    <3>2. Same(jb, C) /\ C \in JbType
      BY <1>1, <3>1, TextSet DEF Index, Same
    <3>3. Same(C, [C EXCEPT !.open = TRUE])
      BY <3>2, FieldSet
    <3>4. Same(jb, [C EXCEPT !.open = TRUE])
      BY <3>2, <3>3, SameTrans
    <3>5. [C EXCEPT !.open = TRUE] = [jb EXCEPT !.content = "empty", !.open = TRUE]
      BY <3>1
    <3>6. Same(jb, [jb EXCEPT !.open = opens])
      BY <1>1, FieldSet
    <3> QED
      BY <2>2, <3>4, <3>5, <3>6
  <2>4. Same(J, Attach(J)) /\ Attach(J) \in JbType
    BY <2>3, AttachSame DEF Same
  <2>5. Same(Attach(J), Attached(Attach(J), f))
    BY <2>4, AttachedSame
  <2>6. Same(jb, Attach(J))
    BY <2>3, <2>4, SameTrans
  <2>7. Same(jb, Attached(Attach(J), f))
    BY <2>5, <2>6, SameTrans
  <2> QED
    BY <2>1, <2>2, <2>3, <2>7, SameFull, FullEndsKeeps, FullGoto DEF FullAts
<1>7. CASE jb.jobs[f].at = "index"
  <2>1. jb.jobs[f].at \in FullAts
    BY <1>7 DEF FullAts
  <2>2. jb' = Goto(jb, f, "full_catch") \/ jb' = FullEnds(jb, f) \/ jb' = Goto(jb, f, "index_w")
    BY <1>7 DEF FullStep
  <2> QED
    BY <2>1, <2>2, FullEndsKeeps, FullGoto DEF FullAts
<1>8. CASE jb.jobs[f].at = "index_w"
  <2>1. jb.jobs[f].at \in FullAts
    BY <1>8 DEF FullAts
  <2>2. ASSUME NEW J, J = [jb EXCEPT !.content = IF jb.jobs[f].orch = 0
                                               THEN "whole" ELSE "partial"],
               \/ jb' = FullEnds([GoodEnough(Touched(J)) EXCEPT
                                          !.dropping = FALSE, !.jobs[f].wiped = FALSE], f)
               \/ jb' = FullEnds(J, f)
        PROVE  JInv(jb')
    <3>1. Same(jb, J) /\ J \in JbType
      BY <1>1, <2>2, TextSet DEF Index, Same
    <3>2. Same(J, Touched(J)) /\ Touched(J) \in JbType
      BY <3>1, TouchedSame DEF Same
    <3>3. PICK G : G = GoodEnough(Touched(J))
      OBVIOUS
    <3>4. Same(Touched(J), G) /\ G \in JbType
      BY <3>2, <3>3, GoodEnoughSame DEF Same
    <3>5. PICK D : D = [G EXCEPT !.dropping = FALSE]
      OBVIOUS
    <3>6. Same(G, D) /\ D \in JbType
      BY <3>4, <3>5, FieldSet DEF Same
    <3>7. PICK K : K = [D EXCEPT !.jobs[f].wiped = FALSE]
      OBVIOUS
    <3>8. Same(D, K)
      BY <3>6, <3>7, MarkSame
    <3>9. Same(J, G)
      BY <3>2, <3>4, SameTrans
    <3>10. Same(J, D)
      BY <3>6, <3>9, SameTrans
    <3>11. Same(J, K)
      BY <3>8, <3>10, SameTrans
    <3>12. Same(jb, K)
      BY <3>1, <3>11, SameTrans
    <3>13. K = [GoodEnough(Touched(J)) EXCEPT !.dropping = FALSE, !.jobs[f].wiped = FALSE]
      BY <3>3, <3>5, <3>7
    <3> QED
      BY <2>1, <2>2, <3>1, <3>12, <3>13, SameFull, FullEndsKeeps
  <2>3. ASSUME jb' = Goto([jb EXCEPT !.content = IF jb.open THEN "partial" ELSE @], f, "full_catch")
        PROVE  JInv(jb')
    <3>1. PICK c \in Index : c = IF jb.open THEN "partial" ELSE jb.content
      BY <1>1 DEF JbType, Index
    <3>2. Same(jb, [jb EXCEPT !.content = IF jb.open THEN "partial" ELSE @])
      BY <1>1, <3>1, TextSet
    <3> QED
      BY <2>1, <2>3, <3>2, SameFull, FullGoto DEF FullAts
  <2> QED
    BY <1>8, <2>2, <2>3, Zenon DEF FullStep
<1>9. CASE jb.jobs[f].at = "full_catch"
  <2>1. jb.jobs[f].at \in FullAts
    BY <1>9 DEF FullAts
  <2>2. PICK opens \in BOOLEAN :
          jb' = FullEnds(IF CurrentFull(jb, f) THEN [jb EXCEPT !.open = @ \/ opens] ELSE jb, f)
    BY <1>9 DEF FullStep
  <2>3. Same(jb, IF CurrentFull(jb, f) THEN [jb EXCEPT !.open = @ \/ opens] ELSE jb)
    BY <1>1, OpenSame
  <2> QED
    BY <2>1, <2>2, <2>3, SameFull, FullEndsKeeps
<1>10. CASE jb.jobs[f].at = "full_end"
  <2>1. PICK J : J = [jb EXCEPT !.fullRun = IF @ = f THEN NoSlot ELSE @]
    OBVIOUS
  <2>2. JInv(J) /\ J.jobs = jb.jobs /\ J.fullRun # f /\ J.recoverRun = jb.recoverRun
    <3>1. CASE jb.fullRun = f
      <4>1. J = [jb EXCEPT !.fullRun = NoSlot]
        BY <2>1, <3>1
      <4> QED
        BY <4>1, ClearFull, JobsAssumption
    <3>2. CASE jb.fullRun # f
      <4>1. J = jb
        BY <1>1, <2>1, <3>2 DEF JbType
      <4> QED
        BY <3>2, <4>1
    <3> QED
      BY <3>1, <3>2
  <2>3. J.jobs[f].at = "full_end" /\ J.recoverRun # f /\ J \in JbType
    BY <1>10, <2>2, JobsAssumption DEF JInv, WaitInv, RecoverAt, Asking
  <2>4. ASSUME NEW K, Same(J, K)  PROVE JInv(End(K, f))
    <3>1. Kept(f, J, K)
      BY <2>2, <2>3, <2>4, SameIsKept
    <3>2. K.jobs[f].at = "full_end" /\ JInv(K)
      BY <2>3, <3>1 DEF Kept, SameJob
    <3>3. K.jobs[f].hyd = "none" /\ K.jobs[f].at \notin Restoring
      BY <3>2 DEF JInv, JobInv, HydAts, Restoring
    <3>4. K.fullRun # f /\ K.recoverRun # f
      BY <2>2, <2>3, <3>1, LatchFields DEF Kept
    <3> QED
      BY <3>2, <3>3, <3>4, EndKeeps
  <2>5. Same(J, J)
    BY <2>3, SameSelf
  <2>6. PICK P : P = [J EXCEPT !.pending = TRUE]
    OBVIOUS
  <2>7. Same(J, P) /\ P \in JbType
    <3>1. Same(J, P)
      BY <2>3, <2>6, FieldSet
    <3> QED
      BY <3>1 DEF Same
  <2>8. Same(J, StartupCatchUp(P))
    BY <2>7, StartupSame, SameTrans
  <2>9. ASSUME NEW K, Same(J, K)  PROVE Same(J, [K EXCEPT !.cold = FALSE])
    <3>1. Same(K, [K EXCEPT !.cold = FALSE])
      BY <2>9, FieldSet DEF Same
    <3> QED
      BY <2>9, <3>1, SameTrans
  <2>10. PICK failed \in BOOLEAN :
           \/ jb' = End(J, f)
           \/ jb' = End([(IF failed THEN StartupCatchUp([J EXCEPT !.pending = TRUE]) ELSE J)
                           EXCEPT !.cold = FALSE], f)
    <3> DEFINE failed == ~IsWriting(J) /\ ~J.full /\ J.inv = "empty"
    <3>1. failed \in BOOLEAN
      OBVIOUS
    <3>2. \/ jb' = End(J, f)
          \/ jb' = End([(IF failed THEN StartupCatchUp([J EXCEPT !.pending = TRUE]) ELSE J)
                           EXCEPT !.cold = FALSE], f)
      BY <1>10, <2>1 DEF FullStep
    <3> HIDE DEF failed
    <3> QED
      BY <3>1, <3>2
  <2> QED
    BY <2>4, <2>5, <2>6, <2>8, <2>9, <2>10
<1> QED
  BY <1>2, <1>3, <1>4, <1>5, <1>6, <1>7, <1>8, <1>9, <1>10 DEF FullStep

-----------------------------------------------------------------------------
\* A full reindex takes over: it is the owner, and the session before it ends.
LEMMA OwnersSame ==
  ASSUME NEW J \in JbType, NEW f \in Slots
  PROVE  Same(J, [J EXCEPT !.jobs = [g \in Slots |-> [J.jobs[g] EXCEPT !.owner = g = f]]])
<1> DEFINE jobs == [g \in Slots |-> [J.jobs[g] EXCEPT !.owner = g = f]]
           K == [J EXCEPT !.jobs = jobs]
<1>1. ASSUME NEW g \in Slots  PROVE jobs[g] \in JobType /\ SameJob(J.jobs[g], jobs[g])
  <2>1. J.jobs[g] \in JobType
    BY DEF JbType
  <2>2. ASSUME NEW b \in BOOLEAN
        PROVE  /\ [J.jobs[g] EXCEPT !.owner = b] \in JobType
               /\ SameJob(J.jobs[g], [J.jobs[g] EXCEPT !.owner = b])
    BY <2>1 DEF JobType, SameJob
  <2>3. PICK b \in BOOLEAN : b = (g = f)
    OBVIOUS
  <2>4. jobs[g] = [J.jobs[g] EXCEPT !.owner = b]
    BY <2>3
  <2> QED
    BY <2>2, <2>4
<1>2. jobs \in [Slots -> JobType]
  BY <1>1
<1> HIDE DEF jobs
<1>3. K \in JbType /\ K.jobs = jobs /\ Latches(K) = Latches(J)
  BY <1>2 DEF JbType, Latches
<1>4. Same(J, K)
  BY <1>1, <1>3 DEF Same
<1> QED
  BY <1>4 DEF jobs

LEMMA StartFullKeeps ==
  ASSUME NEW J, JInv(J), NEW f \in Slots, J.jobs[f].at \in {"full_prior", "cold_model"},
         J.jobs[f].on = NoSlot
  PROVE  JInv(StartFull(J, f))
<1>1. PICK G : G = [J EXCEPT !.jobs = [g \in Slots |-> [J.jobs[g] EXCEPT !.owner = g = f]]]
  OBVIOUS
<1>2. Same(J, G)
  BY <1>1, OwnersSame DEF JInv
<1>3. J.jobs[f].at \in Free /\ J.jobs[f].at # "idle"
  BY DEF Free
<1>4. JInv(FullBody(G, f))
  BY <1>2, <1>3, SameBody
<1>5. Kept(f, J, G)
  BY <1>2, <1>3, SameIsKept
<1>6. G.jobs[f].at \in {"full_prior", "cold_model"} /\ JInv(G) /\ G.jobs[f].at # "idle"
  BY <1>3, <1>5 DEF Kept, SameJob
<1>7. PICK A : A = Abort(G, TRUE, TRUE)
  OBVIOUS
<1>8. JInv(A) /\ A.jobs[f].at \in {"full_prior", "cold_model"} /\ A.fullRun = G.fullRun
  BY <1>6, <1>7, AbortKeeps
<1>9. A.fullRun \in Slots \cup {NoSlot} /\ WaitsWell(A, "full_prior", A.fullRun)
  BY <1>8, MayAwait
<1>10. A.jobs[f].at \in CanWait /\ A.jobs[f].at \notin Asking
       /\ "full_prior" \in OnAts /\ "full_prior" \notin Asking
  BY <1>8 DEF CanWait, Asking, OnAts
<1>11. JInv(Goto([A EXCEPT !.jobs[f].on = A.fullRun], f, "full_prior"))
  BY <1>8, <1>9, <1>10, AwaitKeeps
<1>12. StartFull(J, f) = IF ~Live(J) THEN FullBody(G, f)
                         ELSE Goto([A EXCEPT !.jobs[f].on = A.fullRun], f, "full_prior")
  <2> DEFINE H == [J EXCEPT !.jobs = [g \in Slots |-> [J.jobs[g] EXCEPT !.owner = g = f]]]
  <2>1. StartFull(J, f) = IF ~Live(J) THEN FullBody(H, f)
                          ELSE Goto([Abort(H, TRUE, TRUE) EXCEPT !.jobs[f].on = H.fullRun],
                                    f, "full_prior")
    BY DEF StartFull
  <2>2. H = G
    BY <1>1
  <2> HIDE DEF H
  <2> QED
    BY <1>7, <1>8, <2>1, <2>2
<1> QED
  BY <1>4, <1>11, <1>12

\* The steps of the cold build.
LEMMA ColdStepKeeps ==
  ASSUME JInv(jb), NEW f \in Slots, ColdStep(f)
  PROVE  JInv(jb')
<1>1. jb \in JbType /\ JobInv(jb.jobs[f]) /\ Same(jb, jb)
  BY SameSelf DEF JInv
<1>2. CASE jb.jobs[f].at = "cold_fleet"
  <2>1. jb.jobs[f].at \in Free /\ jb.jobs[f].at \in CanWait /\ jb.jobs[f].on = NoSlot
    BY <1>1, <1>2 DEF Free, CanWait, JobInv, OnAts
  <2>2. PICK wait \in BOOLEAN :
          \/ jb' = End([jb EXCEPT !.cold = FALSE, !.waiting = @ \/ wait], f)
          \/ jb' = Goto(jb, f, "cold_model")
    BY <1>2, Zenon DEF ColdStep
  <2>3. PICK C : C = [jb EXCEPT !.cold = FALSE]
    OBVIOUS
  <2>4. Same(jb, C)
    BY <1>1, <2>3, FieldSet
  <2>5. PICK b \in BOOLEAN : b = (C.waiting \/ wait)
    OBVIOUS
  <2>6. Same(C, [C EXCEPT !.waiting = b])
    BY <2>4, FieldSet DEF Same
  <2>7. Same(jb, [C EXCEPT !.waiting = b])
    BY <2>4, <2>6, SameTrans
  <2>8. [C EXCEPT !.waiting = b] = [jb EXCEPT !.cold = FALSE, !.waiting = @ \/ wait]
    BY <1>1, <2>3, <2>5 DEF JbType
  <2>9. JInv(End([jb EXCEPT !.cold = FALSE, !.waiting = @ \/ wait], f))
    BY <2>1, <2>7, <2>8, SameEnd
  <2>10. "cold_model" \in Ats /\ "cold_model" \notin Asking /\ "cold_model" \notin Restoring
    BY DEF Ats, Asking, Restoring
  <2>11. JInv(Goto(jb, f, "cold_model"))
    BY <1>1, <2>1, <2>10, SameGoto
  <2> QED
    BY <2>2, <2>9, <2>11
<1>3. CASE jb.jobs[f].at = "cold_model"
  <2>1. jb.jobs[f].at \in Free /\ jb.jobs[f].at # "idle" /\ jb.jobs[f].on = NoSlot
    BY <1>1, <1>3 DEF Free, JobInv, OnAts
  <2>2. PICK P : P = [jb EXCEPT !.pending = TRUE]
    OBVIOUS
  <2>3. Same(jb, P) /\ P \in JbType
    <3>1. Same(jb, P)
      BY <1>1, <2>2, FieldSet
    <3> QED
      BY <3>1 DEF Same
  <2>4. Same(jb, StartupCatchUp(P)) /\ StartupCatchUp(P) \in JbType
    BY <2>3, StartupSame, SameTrans DEF Same
  <2>5. Same(StartupCatchUp(P), [StartupCatchUp(P) EXCEPT !.cold = FALSE])
    BY <2>4, FieldSet
  <2>6. Same(jb, [StartupCatchUp(P) EXCEPT !.cold = FALSE])
    BY <2>4, <2>5, SameTrans
  <2>7. PICK C : C = [jb EXCEPT !.pending = FALSE]
    OBVIOUS
  <2>8. Same(jb, C)
    BY <1>1, <2>7, FieldSet
  <2>9. PICK J : J = [C EXCEPT !.jobs[f].cold = TRUE]
    OBVIOUS
  <2>10. Same(C, J)
    BY <2>8, <2>9, MarkSame DEF Same
  <2>11. Kept(f, jb, J)
    BY <2>1, <2>8, <2>10, SameTrans, SameIsKept
  <2>12. JInv(J) /\ J.jobs[f].at = "cold_model" /\ J.jobs[f].on = NoSlot
    BY <1>3, <2>1, <2>11 DEF Kept, SameJob
  <2>13. JInv(StartFull(J, f))
    BY <2>12, StartFullKeeps
  <2>14. J.jobs[f].at \in CanWait /\ J.jobs[f].at \notin Asking /\ "join" \in OnAts
         /\ "join" \notin Asking
    BY <2>12 DEF CanWait, Asking, OnAts
  <2>15. JInv(Goto([J EXCEPT !.jobs[f].on = J.recoverRun], f, "join"))
    BY <2>12, <2>14, MayAwait, AwaitKeeps
  <2>16. JInv(End(jb, f)) /\ JInv(End([StartupCatchUp(P) EXCEPT !.cold = FALSE], f))
    BY <1>1, <2>1, <2>6, SameEnd
  <2>17. J = [jb EXCEPT !.pending = FALSE, !.jobs[f].cold = TRUE]
    BY <1>1, <2>7, <2>9 DEF JbType
  <2>18. \/ jb' = End(jb, f) \/ jb' = End([StartupCatchUp(P) EXCEPT !.cold = FALSE], f)
         \/ jb' = Goto([J EXCEPT !.jobs[f].on = J.recoverRun], f, "join")
         \/ jb' = StartFull(J, f)
    BY <1>3, <2>2, <2>17 DEF ColdStep
  <2> QED
    BY <2>13, <2>15, <2>16, <2>18
<1>4. CASE jb.jobs[f].at = "join" /\ jb.jobs[f].on = NoSlot
  <2>1. jb' = Goto([jb EXCEPT !.jobs[f].on = jb.fullRun], f, "joined")
    BY <1>4 DEF ColdStep
  <2>2. /\ jb.jobs[f].at \in CanWait /\ jb.jobs[f].at \notin Asking
        /\ "joined" \in OnAts /\ "joined" \notin Asking
    BY <1>4 DEF CanWait, Asking, OnAts
  <2> QED
    BY <2>1, <2>2, MayAwait, AwaitKeeps
<1>5. CASE jb.jobs[f].at = "joined" /\ jb.jobs[f].on = NoSlot
  <2>1. jb.jobs[f].at \in Free
    BY <1>5 DEF Free
  <2>2. PICK K : jb' = End(K, f) /\ K \in {jb, [jb EXCEPT !.cold = FALSE]}
    BY <1>5 DEF ColdStep
  <2>3. Same(jb, K)
    BY <1>1, <2>2, FieldSet
  <2> QED
    BY <2>1, <2>2, <2>3, SameEnd
<1> QED
  BY <1>2, <1>3, <1>4, <1>5, Zenon DEF ColdStep

-----------------------------------------------------------------------------
\* The step of f, whatever it changes of the fields without an invariant.
LEMMA StepKeeps ==
  ASSUME NEW J, JInv(J), NEW f \in Slots, NEW K, Step(f, J, K), JobInv(K.jobs[f]),
         K.jobs[f].at \in Restoring <=> J.jobs[f].at \in Restoring,
         K.jobs[f].hyd = "own" <=> J.jobs[f].hyd = "own",
         Fair(J.jobs[f], K.jobs[f]), WaitsWell(J, K.jobs[f].at, K.jobs[f].on)
  PROVE  JInv(K)
<1>1. K \in JbType /\ Off(f, J, K) /\ Latches(K) = Latches(J)
  BY DEF Step, Off
<1>2. DropInv(K)
  BY <1>1, DropSame, LatchFields DEF JInv
<1>3. HydInv(K)
  BY <1>1, HydSame, LatchFields DEF JInv
<1>4. WaitInv(K)
  BY <1>1, WaitKeeps, LatchFields DEF JInv
<1>5. \A g \in Slots : JobInv(K.jobs[g])
  BY <1>1, JobsKeep DEF JInv
<1> QED
  BY <1>1, <1>2, <1>3, <1>4, <1>5 DEF JInv

\* An awaited function is called, and the synchronous part of it runs.
LEMMA CallGoto ==
  ASSUME NEW J, JInv(J), NEW f \in Slots, J.jobs[f].at # "idle", J.jobs[f].at \notin Restoring,
         J.jobs[f].hyd = "none", J.jobs[f].on = NoSlot, NEW c \in Callers,
         NEW N, Same(Call(J, f, c), N), NEW at \in Ats, at \notin Restoring, at \notin Asking,
         \A k : k.at = at /\ k.nest = <<c>> \o J.jobs[f].nest => Fair(J.jobs[f], k)
  PROVE  JInv(Goto(N, f, at))
<1>1. J \in JbType /\ J.jobs[f].nest \in Seq(Callers)
  BY DEF JInv, JbType, JobType
<1>3. PICK j \in JobType : /\ Call(J, f, c) = With(J, f, j)
                           /\ j.at = J.jobs[f].at /\ j.hyd = J.jobs[f].hyd
                           /\ j.on = J.jobs[f].on /\ j.nest = <<c>> \o J.jobs[f].nest
  BY <1>1, CallWith
<1>4. PICK M : M = With(J, f, j)
  OBVIOUS
<1>5. Call(J, f, c) = M
  BY <1>3, <1>4
<1>6. Step(f, J, M) /\ M \in JbType /\ M.jobs[f] = j
  BY <1>1, <1>4, PutJob DEF With
<1>7. Step(f, M, N) /\ SameJob(M.jobs[f], N.jobs[f]) /\ N \in JbType
  BY <1>3, <1>5, <1>6, SameIsStep
<1>8. PICK K : K = Goto(N, f, at)
  OBVIOUS
<1>9. /\ Step(f, N, K) /\ K \in JbType /\ K.jobs[f].at = at /\ K.jobs[f].hyd = N.jobs[f].hyd
      /\ K.jobs[f].on = N.jobs[f].on /\ K.jobs[f].nest = N.jobs[f].nest
  BY <1>7, <1>8, GotoStep
<1>10. Off(f, J, N)
  BY <1>6, <1>7, OffTrans DEF Step
<1>11. Off(f, J, K)
  BY <1>9, <1>10, OffTrans DEF Step
<1>12. Step(f, J, K)
  BY <1>6, <1>7, <1>9, <1>11 DEF Step
<1>13. K.jobs[f].hyd = "none" /\ K.jobs[f].on = NoSlot
       /\ K.jobs[f].nest = <<c>> \o J.jobs[f].nest
  BY <1>3, <1>6, <1>7, <1>9 DEF SameJob
<1>14. JobInv(K.jobs[f]) /\ WaitsWell(J, K.jobs[f].at, K.jobs[f].on)
  BY <1>9, <1>13 DEF JobInv, WaitsWell
<1>15. Fair(J.jobs[f], K.jobs[f])
  BY <1>9, <1>13
<1> QED
  BY <1>8, <1>9, <1>12, <1>13, <1>14, <1>15, StepKeeps

\* forceResetAndReindex.
LEMMA ResetKeeps ==
  ASSUME NEW J, JInv(J), NEW f \in Slots, NEW caller,
         \/ J.jobs[f].at = "prior" /\ caller = "recover"
         \/ J.jobs[f].at = "wedge_open" /\ caller = "unwedge",
         J.jobs[f].on = NoSlot
  PROVE  JInv(Reset(J, f, caller))
<1>1. PICK M : M = [J EXCEPT !.jobs[f].mine = TRUE]
  OBVIOUS
<1>2. Same(J, M)
  BY <1>1, MarkSame DEF JInv
<1>3. Kept(f, J, M)
  BY <1>2, SameIsKept
<1>4. JInv(M) /\ M \in JbType /\ M.jobs[f].on = NoSlot /\ JobInv(M.jobs[f])
      /\ M.jobs[f].at = J.jobs[f].at
  BY <1>3 DEF Kept, SameJob, JInv
<1>5. M.jobs[f].hyd = "none" /\ M.jobs[f].at # "idle" /\ M.jobs[f].at \notin Restoring
  BY <1>4 DEF JobInv, HydAts, Restoring
<1>6. ASSUME NEW k, k.at = "reset", k.nest = <<caller>> \o M.jobs[f].nest
      PROVE  Fair(M.jobs[f], k)
  <2>1. Calm(k) /\ ~FullAt(M.jobs[f])
    BY <1>4, <1>6 DEF Calm, CanWait, FullAt
  <2>2. CASE J.jobs[f].at = "prior" /\ caller = "recover"
    <3>1. M.jobs[f].nest = <<>>
      BY <1>4, <2>2 DEF JobInv, Asking
    <3>2. k.nest = <<"recover">>
      BY <1>6, <2>2, <3>1
    <3>3. RecoverAt(k)
      BY <1>6, <3>2 DEF RecoverAt, Recovers
    <3> QED
      BY <2>1, <3>3 DEF Fair
  <2>3. CASE J.jobs[f].at = "wedge_open" /\ caller = "unwedge"
    <3>1. ASSUME RecoverAt(M.jobs[f])  PROVE RecoverAt(k)
      <4>1. M.jobs[f].nest = <<"recover">>
        BY <1>4, <2>3, <3>1 DEF RecoverAt, Asking
      <4>2. k.nest = <<"unwedge">> \o <<"recover">>
        BY <1>6, <2>3, <4>1
      <4> QED
        BY <1>6, <4>2 DEF RecoverAt, Recovers
    <3> QED
      BY <2>1, <3>1 DEF Fair
  <2> QED
    BY <2>2, <2>3
<1>7. Call(M, f, caller) \in JbType
  <2>1. caller \in Callers
    BY DEF Callers
  <2> QED
    BY <1>4, <2>1, CallWith
<1>8. Same(Call(M, f, caller), Call(M, f, caller))
  BY <1>7, SameSelf
<1>9. caller \in Callers /\ "reset" \in Ats /\ "reset" \notin Restoring /\ "reset" \notin Asking
  BY DEF Callers, Ats, Restoring, Asking
<1>10. JInv(Goto(Call(M, f, caller), f, "reset"))
  BY <1>4, <1>5, <1>6, <1>8, <1>9, CallGoto
<1> QED
  BY <1>1, <1>10 DEF Reset

\* What an awaited function needs of the job that calls it.
LEMMA CallerFields ==
  ASSUME NEW J, JInv(J), NEW f \in Slots, J.jobs[f].on = NoSlot,
         J.jobs[f].at \in {"prior", "stall", "wedge_open", "reset", "retry", "quiesce"}
  PROVE  /\ J \in JbType /\ J.jobs[f].hyd = "none" /\ J.jobs[f].at # "idle"
         /\ J.jobs[f].at \notin Restoring /\ ~FullAt(J.jobs[f])
         /\ J.jobs[f].at = "prior" => J.jobs[f].nest = <<>>
         /\ J.jobs[f].at = "stall" => ~RecoverAt(J.jobs[f])
         /\ J.jobs[f].at \in {"wedge_open", "retry"} /\ RecoverAt(J.jobs[f])
              => J.jobs[f].nest = <<"recover">>
         /\ J.jobs[f].at = "reset" /\ RecoverAt(J.jobs[f]) => J.jobs[f].nest \in Recovers
<1>1. J \in JbType /\ JobInv(J.jobs[f])
  BY DEF JInv
<1>2. /\ J.jobs[f].hyd = "none" /\ J.jobs[f].at # "idle"
      /\ J.jobs[f].at \notin Restoring /\ ~FullAt(J.jobs[f])
      /\ J.jobs[f].at = "prior" => J.jobs[f].nest = <<>>
  BY <1>1 DEF JobInv, HydAts, Restoring, FullAt, Asking
<1>3. /\ J.jobs[f].at = "stall" => ~RecoverAt(J.jobs[f])
      /\ J.jobs[f].at \in {"wedge_open", "retry"} /\ RecoverAt(J.jobs[f])
              => J.jobs[f].nest = <<"recover">>
      /\ J.jobs[f].at = "reset" /\ RecoverAt(J.jobs[f]) => J.jobs[f].nest \in Recovers
  BY DEF RecoverAt, Asking
<1> QED
  BY <1>1, <1>2, <1>3

\* retryIndexStoreOpen, as the recovery and the stall guard call it.
LEMMA RetryKeeps ==
  ASSUME NEW J, JInv(J), NEW f \in Slots, J.jobs[f].on = NoSlot, NEW c,
         \/ J.jobs[f].at = "prior" /\ c = "recover"
         \/ J.jobs[f].at = "stall" /\ c = "stall"
  PROVE  JInv(Retry(Call(J, f, c), f))
<1>1. /\ J \in JbType /\ J.jobs[f].hyd = "none" /\ J.jobs[f].at # "idle"
      /\ J.jobs[f].at \notin Restoring /\ ~FullAt(J.jobs[f])
      /\ J.jobs[f].at = "prior" => J.jobs[f].nest = <<>>
      /\ J.jobs[f].at = "stall" => ~RecoverAt(J.jobs[f])
  BY CallerFields
<1>2. c \in Callers
  BY DEF Callers
<1>3. PICK M : M = Call(J, f, c)
  OBVIOUS
<1>4. M \in JbType
  BY <1>1, <1>2, <1>3, CallWith
<1>5. ASSUME NEW k, k.at \in {"wedge_open", "retry"}, k.nest = <<c>> \o J.jobs[f].nest
      PROVE  Fair(J.jobs[f], k)
  <2>1. Calm(k)
    BY <1>5 DEF Calm, CanWait
  <2>2. CASE J.jobs[f].at = "prior" /\ c = "recover"
    <3>1. J.jobs[f].nest = <<>>
      BY <1>1, <2>2
    <3>2. k.nest = <<"recover">>
      BY <1>5, <2>2, <3>1
    <3>3. RecoverAt(k)
      BY <1>5, <3>2 DEF RecoverAt
    <3> QED
      BY <1>1, <2>1, <3>3 DEF Fair
  <2>3. CASE J.jobs[f].at = "stall" /\ c = "stall"
    BY <1>1, <2>1, <2>3 DEF Fair, Asking
  <2> QED
    BY <2>2, <2>3
<1>6. \A at \in {"wedge_open", "retry"} : at \in Ats /\ at \notin Restoring /\ at \notin Asking
  BY DEF Ats, Restoring, Asking
<1>7. ASSUME NEW N, Same(M, N), NEW at \in {"wedge_open", "retry"}
      PROVE  JInv(Goto(N, f, at))
  <2>1. Same(Call(J, f, c), N)
    BY <1>3, <1>7
  <2>2. \A k : k.at = at /\ k.nest = <<c>> \o J.jobs[f].nest => Fair(J.jobs[f], k)
    BY <1>5
  <2> QED
    BY <1>1, <1>2, <1>6, <2>1, <2>2, CallGoto
<1>8. Same(M, [M EXCEPT !.open = FALSE])
  BY <1>4, FieldSet
<1>9. PICK S : S = [M EXCEPT !.stuck = FALSE]
  OBVIOUS
<1>10. Same(M, S) /\ S \in JbType
  <2>1. Same(M, S)
    BY <1>4, <1>9, FieldSet
  <2> QED
    BY <2>1 DEF Same
<1>11. PICK N : N = [S EXCEPT !.jobs[f].mine = TRUE]
  OBVIOUS
<1>12. Same(S, N)
  BY <1>10, <1>11, MarkSame
<1>13. Same(M, N)
  BY <1>10, <1>12, SameTrans
<1>14. N = [M EXCEPT !.stuck = FALSE, !.jobs[f].mine = TRUE]
  BY <1>4, <1>9, <1>11 DEF JbType
<1>15. Retry(M, f) = IF M.wedged THEN Goto([M EXCEPT !.open = FALSE], f, "wedge_open")
                     ELSE Goto(N, f, "retry")
  BY <1>14 DEF Retry
<1> QED
  BY <1>3, <1>7, <1>8, <1>13, <1>15

LEMMA SameCaller ==
  ASSUME NEW J, JInv(J), NEW f \in Slots, J.jobs[f].on = NoSlot,
         J.jobs[f].at \in {"prior", "stall", "wedge_open", "reset", "retry"}, NEW K, Same(J, K)
  PROVE  JInv(K) /\ K \in JbType /\ K.jobs[f].on = NoSlot /\ K.jobs[f].at = J.jobs[f].at
<1>1. J.jobs[f].at # "idle"
  BY CallerFields
<1> QED
  BY <1>1, SameIsKept DEF Kept, SameJob, JInv

\* The function that runs in f returns after its synchronous part.
LEMMA SameReturn ==
  ASSUME NEW J, JInv(J), NEW f \in Slots, J.jobs[f].on = NoSlot,
         J.jobs[f].at \in {"wedge_open", "reset", "retry"}, NEW K, Same(J, K)
  PROVE  JInv(Goto(K, f, "return"))
<1>1. /\ JInv(K) /\ K.jobs[f].on = NoSlot /\ K.jobs[f].at \in {"wedge_open", "reset", "retry"}
  BY SameCaller
<1>2. K.jobs[f].hyd = "none" /\ K.jobs[f].at \notin Restoring
  BY <1>1, CallerFields
<1> QED
  BY <1>1, <1>2, ReturnKeeps

\* The steps of the recovery and of the force reset.
LEMMA RecoverStepKeeps ==
  ASSUME JInv(jb), NEW f \in Slots, RecoverStep(f)
  PROVE  JInv(jb')
<1>1. jb \in JbType /\ JobInv(jb.jobs[f]) /\ Same(jb, jb)
  BY SameSelf DEF JInv
<1>2. CASE jb.jobs[f].at = "quiesce"
  <2>1. PICK A : A = Abort(jb, FALSE, TRUE)
    OBVIOUS
  <2>2. jb' = Goto([A EXCEPT !.jobs[f].on = A.fullRun], f, "prior")
    BY <1>2, <2>1 DEF RecoverStep
  <2>3. JInv(A) /\ A.jobs[f].at = "quiesce"
    BY <1>2, <2>1, AbortKeeps
  <2>4. /\ A.jobs[f].at \in CanWait /\ A.jobs[f].at \in Asking
        /\ "prior" \in OnAts /\ "prior" \in Asking
    BY <2>3 DEF CanWait, Asking, OnAts
  <2> QED
    BY <2>2, <2>3, <2>4, MayAwait, AwaitKeeps
<1>3. CASE jb.jobs[f].at = "prior" /\ jb.jobs[f].on = NoSlot
  <2>1. JInv(Reset(jb, f, "recover"))
    BY <1>3, ResetKeeps
  <2>2. ASSUME NEW opens \in BOOLEAN,
               jb' = Retry(Call(Attach([jb EXCEPT !.open = @ \/ opens]), f, "recover"), f)
        PROVE  JInv(jb')
    <3>1. PICK K : K = [jb EXCEPT !.open = @ \/ opens]
      OBVIOUS
    <3>2. Same(jb, K) /\ K \in JbType
      BY <1>1, <3>1, OpenSame DEF Same
    <3>3. Same(jb, Attach(K))
      BY <3>2, AttachSame, SameTrans
    <3>4. JInv(Attach(K)) /\ Attach(K).jobs[f].on = NoSlot /\ Attach(K).jobs[f].at = "prior"
      BY <1>3, <3>3, SameCaller
    <3> QED
      BY <2>2, <3>1, <3>4, RetryKeeps
  <2> QED
    BY <1>3, <2>1, <2>2 DEF RecoverStep
<1>4. CASE jb.jobs[f].at = "retry"
  <2>0. PICK opens \in BOOLEAN : \E J :
          /\ J = [jb EXCEPT !.open = @ \/ opens]
          /\ jb' = Resume(J, f) \/ jb' = Goto(J, f, "return")
    BY <1>4 DEF RecoverStep
  <2>1. PICK J :
          /\ J = [jb EXCEPT !.open = @ \/ opens]
          /\ jb' = Resume(J, f) \/ jb' = Goto(J, f, "return")
    BY <2>0
  <2>2. Same(jb, J)
    BY <1>1, <2>1, OpenSame
  <2>3. jb.jobs[f].on = NoSlot
    BY <1>1, <1>4 DEF JobInv, OnAts
  <2>4. JInv(Goto(J, f, "return"))
    BY <1>4, <2>2, <2>3, SameReturn
  <2>5. JInv(Resume(J, f))
    BY <1>4, <2>2, <2>3, SameCaller, ResumeKeeps
  <2> QED
    BY <2>1, <2>4, <2>5
<1>5. CASE jb.jobs[f].at = "wedge_open"
  <2>1. jb.jobs[f].on = NoSlot
    BY <1>1, <1>5 DEF JobInv, OnAts
  <2>0. PICK opens \in BOOLEAN : \E J, C :
          /\ J = [jb EXCEPT !.open = @ \/ opens]
          /\ C = [J EXCEPT !.wedged = FALSE, !.stuck = FALSE, !.inv = J.content]
          /\ \/ jb' = Goto(StartupCatchUp([GoodEnough(C) EXCEPT !.pending = TRUE]), f, "return")
             \/ jb' = Reset(J, f, "unwedge")
    BY <1>5, Zenon DEF RecoverStep
  <2>2. PICK J, C :
          /\ J = [jb EXCEPT !.open = @ \/ opens]
          /\ C = [J EXCEPT !.wedged = FALSE, !.stuck = FALSE, !.inv = J.content]
          /\ \/ jb' = Goto(StartupCatchUp([GoodEnough(C) EXCEPT !.pending = TRUE]), f, "return")
             \/ jb' = Reset(J, f, "unwedge")
    BY <2>0, Zenon
  <2>3. Same(jb, J)
    BY <1>1, <2>2, OpenSame
  <2>4. JInv(Reset(J, f, "unwedge"))
    BY <1>5, <2>1, <2>3, SameCaller, ResetKeeps
  <2>5. Same(J, C) /\ C \in JbType
    <3>1. J \in JbType
      BY <2>3 DEF Same
    <3>2. PICK U : U = [J EXCEPT !.wedged = FALSE]
      OBVIOUS
    <3>3. Same(J, U)
      BY <3>1, <3>2, FieldSet
    <3>4. PICK V : V = [U EXCEPT !.stuck = FALSE]
      OBVIOUS
    <3>5. Same(U, V)
      BY <3>3, <3>4, FieldSet DEF Same
    <3>6. J.content \in Index
      BY <3>1 DEF JbType
    <3>7. Same(V, [V EXCEPT !.inv = J.content])
      BY <3>5, <3>6, TextSet DEF Same
    <3>8. C = [V EXCEPT !.inv = J.content]
      BY <2>2, <3>2, <3>4
    <3>9. Same(J, V)
      BY <3>3, <3>5, SameTrans
    <3>10. Same(J, C)
      BY <3>7, <3>8, <3>9, SameTrans
    <3> QED
      BY <3>10 DEF Same
  <2>6. PICK G : G = GoodEnough(C)
    OBVIOUS
  <2>7. Same(C, G) /\ G \in JbType
    BY <2>5, <2>6, GoodEnoughSame DEF Same
  <2>8. PICK P : P = [G EXCEPT !.pending = TRUE]
    OBVIOUS
  <2>9. Same(G, P) /\ P \in JbType
    <3>1. Same(G, P)
      BY <2>7, <2>8, FieldSet
    <3> QED
      BY <3>1 DEF Same
  <2>10. Same(P, StartupCatchUp(P))
    BY <2>9, StartupSame
  <2>11. Same(jb, C)
    BY <2>3, <2>5, SameTrans
  <2>12. Same(jb, G)
    BY <2>7, <2>11, SameTrans
  <2>13. Same(jb, P)
    BY <2>9, <2>12, SameTrans
  <2>14. Same(jb, StartupCatchUp(P))
    BY <2>10, <2>13, SameTrans
  <2>15. JInv(Goto(StartupCatchUp(P), f, "return"))
    BY <1>5, <2>1, <2>14, SameReturn
  <2> QED
    BY <2>2, <2>4, <2>6, <2>8, <2>15
<1>6. CASE jb.jobs[f].at = "reset"
  <2>1. jb.jobs[f].on = NoSlot
    BY <1>1, <1>6 DEF JobInv, OnAts
  <2>2. PICK J : /\ \/ J = [jb EXCEPT !.content = "empty", !.open = TRUE]
                    \/ J = [jb EXCEPT !.open = FALSE]
                 /\ \/ jb' = Goto(J, f, "return")
                    \/ jb' = Restore(Dropped(J), f)
                    \/ jb' = Restore(Call(Dropped([J EXCEPT !.wedged = FALSE, !.stuck = FALSE]),
                                          f, "reset"), f)
    BY <1>6, Zenon DEF RecoverStep
  <2>3. Same(jb, J)
    <3>1. PICK C : C = [jb EXCEPT !.content = "empty"]
      OBVIOUS
    <3>2. Same(jb, C) /\ C \in JbType
      BY <1>1, <3>1, TextSet DEF Index, Same
    <3>3. Same(C, [C EXCEPT !.open = TRUE])
      BY <3>2, FieldSet
    <3>4. Same(jb, [C EXCEPT !.open = TRUE])
      BY <3>2, <3>3, SameTrans
    <3>5. [C EXCEPT !.open = TRUE] = [jb EXCEPT !.content = "empty", !.open = TRUE]
      BY <3>1
    <3>6. Same(jb, [jb EXCEPT !.open = FALSE])
      BY <1>1, FieldSet
    <3> QED
      BY <2>2, <3>4, <3>5, <3>6
  <2>4. J \in JbType
    BY <2>3 DEF Same
  <2>5. JInv(Goto(J, f, "return"))
    BY <1>6, <2>1, <2>3, SameReturn
  <2>6. ASSUME NEW D, Same(jb, D), NEW j \in JobType, j.hyd = D.jobs[f].hyd,
               j.on = D.jobs[f].on,
               j.nest = D.jobs[f].nest \/ j.nest = <<"reset">> \o D.jobs[f].nest
        PROVE  JInv(Restore(With(D, f, j), f))
    <3>1. JInv(D) /\ D.jobs[f].on = NoSlot /\ D.jobs[f].at = "reset"
      BY <1>6, <2>1, <2>6, SameCaller
    <3>2. /\ D.jobs[f].hyd = "none" /\ D.jobs[f].at \notin Restoring /\ ~FullAt(D.jobs[f])
          /\ RecoverAt(D.jobs[f]) => D.jobs[f].nest \in Recovers
      BY <3>1, CallerFields
    <3>3. ASSUME NEW k, k.at \in {"return", "restore_fleet"}, k.nest = j.nest
          PROVE  Fair(D.jobs[f], k)
      <4>1. Calm(k) /\ D.jobs[f].at \notin Asking
        BY <3>1, <3>3 DEF Calm, CanWait, Asking
      <4>2. RecoverAt(D.jobs[f]) => j.nest \in RecoverNests
        BY <2>6, <3>2 DEF RecoverNests
      <4>3. RecoverAt(D.jobs[f]) => RecoverAt(k)
        BY <3>3, <4>2 DEF RecoverAt
      <4> QED
        BY <3>2, <4>1, <4>3 DEF Fair
    <3>4. j.hyd = "none" /\ j.on = NoSlot
      BY <2>6, <3>1, <3>2
    <3> QED
      BY <3>1, <3>2, <3>3, <3>4, RestoreKeeps
  <2>7. JInv(Restore(Dropped(J), f))
    <3>1. PICK D : D = Dropped(J)
      OBVIOUS
    <3>2. Same(jb, D) /\ D \in JbType
      BY <2>3, <2>4, <3>1, DroppedSame, SameTrans DEF Same
    <3>3. D.jobs[f] \in JobType /\ With(D, f, D.jobs[f]) = D
      BY <3>2, WithSelf DEF JbType
    <3>4. JInv(Restore(With(D, f, D.jobs[f]), f))
      BY <2>6, <3>2, <3>3
    <3> QED
      BY <3>1, <3>3, <3>4
  <2>8. JInv(Restore(Call(Dropped([J EXCEPT !.wedged = FALSE, !.stuck = FALSE]), f, "reset"), f))
    <3>1. PICK U : U = [J EXCEPT !.wedged = FALSE]
      OBVIOUS
    <3>2. Same(jb, U) /\ U \in JbType
      <4>1. Same(J, U)
        BY <2>4, <3>1, FieldSet
      <4> QED
        BY <2>3, <4>1, SameTrans DEF Same
    <3>3. PICK V : V = [U EXCEPT !.stuck = FALSE]
      OBVIOUS
    <3>4. Same(jb, V) /\ V \in JbType
      <4>1. Same(U, V)
        BY <3>2, <3>3, FieldSet
      <4> QED
        BY <3>2, <4>1, SameTrans DEF Same
    <3>5. PICK D : D = Dropped(V)
      OBVIOUS
    <3>6. Same(jb, D) /\ D \in JbType
      BY <3>4, <3>5, DroppedSame, SameTrans DEF Same
    <3>7. "reset" \in Callers
      BY DEF Callers
    <3>8. PICK j \in JobType :
            /\ Call(D, f, "reset") = With(D, f, j)
            /\ j.hyd = D.jobs[f].hyd /\ j.on = D.jobs[f].on
            /\ j.nest = <<"reset">> \o D.jobs[f].nest
      BY <3>6, <3>7, CallWith
    <3>9. JInv(Restore(Call(D, f, "reset"), f))
      BY <2>6, <3>6, <3>8
    <3>10. V = [J EXCEPT !.wedged = FALSE, !.stuck = FALSE]
      BY <3>1, <3>3
    <3> QED
      BY <3>5, <3>9, <3>10
  <2> QED
    BY <2>2, <2>5, <2>7, <2>8
<1> QED
  BY <1>2, <1>3, <1>4, <1>5, <1>6, Zenon DEF RecoverStep

\* The step of the stall guard.
LEMMA StallStepKeeps ==
  ASSUME JInv(jb), NEW f \in Slots, StallStep(f)
  PROVE  JInv(jb')
<1>1. jb \in JbType /\ JobInv(jb.jobs[f]) /\ jb.jobs[f].at = "stall"
  BY DEF JInv, StallStep
<1>2. jb.jobs[f].on = NoSlot
  BY <1>1 DEF JobInv, OnAts
<1>0. PICK opens \in BOOLEAN : \E J, C :
        /\ J = Attach([jb EXCEPT !.open = @ \/ opens])
        /\ C = [J EXCEPT !.inv = J.content, !.wedged = FALSE]
        /\ \/ jb' = Retry(Call(J, f, "stall"), f)
           \/ jb' = Retry(Call([J EXCEPT !.wedged = TRUE, !.stuck = TRUE], f, "stall"), f)
           \/ jb' = Goto(Call(IF C.inv = "whole" THEN [C EXCEPT !.stuck = TRUE]
                              ELSE MaybeResume([C EXCEPT !.stuck = FALSE]), f, "stall"),
                         f, "return")
  BY Zenon DEF StallStep
<1>3. PICK J, C :
        /\ J = Attach([jb EXCEPT !.open = @ \/ opens])
        /\ C = [J EXCEPT !.inv = J.content, !.wedged = FALSE]
        /\ \/ jb' = Retry(Call(J, f, "stall"), f)
           \/ jb' = Retry(Call([J EXCEPT !.wedged = TRUE, !.stuck = TRUE], f, "stall"), f)
           \/ jb' = Goto(Call(IF C.inv = "whole" THEN [C EXCEPT !.stuck = TRUE]
                              ELSE MaybeResume([C EXCEPT !.stuck = FALSE]), f, "stall"),
                         f, "return")
  BY <1>0, Zenon
<1>4. Same(jb, J) /\ J \in JbType
  <2>1. PICK K : K = [jb EXCEPT !.open = @ \/ opens]
    OBVIOUS
  <2>2. Same(jb, K) /\ K \in JbType
    BY <1>1, <2>1, OpenSame DEF Same
  <2>3. Same(K, J)
    BY <1>3, <2>1, <2>2, AttachSame
  <2> QED
    BY <2>2, <2>3, SameTrans DEF Same
<1>5. ASSUME NEW K, Same(jb, K)
      PROVE  /\ JInv(Retry(Call(K, f, "stall"), f))
             /\ JInv(Goto(Call(K, f, "stall"), f, "return"))
  <2>1. JInv(K) /\ K \in JbType /\ K.jobs[f].on = NoSlot /\ K.jobs[f].at = "stall"
    BY <1>1, <1>2, <1>5, SameCaller
  <2>2. /\ K.jobs[f].hyd = "none" /\ K.jobs[f].at # "idle" /\ K.jobs[f].at \notin Restoring
        /\ ~FullAt(K.jobs[f]) /\ ~RecoverAt(K.jobs[f]) /\ K.jobs[f].at \notin Asking
    BY <2>1, CallerFields DEF Asking
  <2>3. "stall" \in Callers /\ "return" \in Ats /\ "return" \notin Restoring /\ "return" \notin Asking
    BY DEF Callers, Ats, Restoring, Asking
  <2>4. \A k : k.at = "return" => Fair(K.jobs[f], k)
    BY <2>2 DEF Fair, Calm, CanWait
  <2>5. Call(K, f, "stall") \in JbType
    BY <2>1, <2>3, CallWith
  <2>6. Same(Call(K, f, "stall"), Call(K, f, "stall"))
    BY <2>5, SameSelf
  <2>7. JInv(Goto(Call(K, f, "stall"), f, "return"))
    BY <2>1, <2>2, <2>3, <2>4, <2>6, CallGoto
  <2> QED
    BY <2>1, <2>7, RetryKeeps
<1>6. Same(jb, [J EXCEPT !.wedged = TRUE, !.stuck = TRUE])
  <2>1. PICK U : U = [J EXCEPT !.wedged = TRUE]
    OBVIOUS
  <2>2. Same(J, U)
    BY <1>4, <2>1, FieldSet
  <2>3. Same(U, [U EXCEPT !.stuck = TRUE])
    BY <2>2, FieldSet DEF Same
  <2>4. Same(jb, U)
    BY <1>4, <2>2, SameTrans
  <2>5. Same(jb, [U EXCEPT !.stuck = TRUE])
    BY <2>3, <2>4, SameTrans
  <2>6. [U EXCEPT !.stuck = TRUE] = [J EXCEPT !.wedged = TRUE, !.stuck = TRUE]
    BY <2>1
  <2> QED
    BY <2>5, <2>6
<1>7. Same(jb, C) /\ C \in JbType
  <2>1. PICK U : U = [J EXCEPT !.inv = J.content]
    OBVIOUS
  <2>2. J.content \in Index
    BY <1>4 DEF JbType
  <2>3. Same(J, U)
    BY <1>4, <2>1, <2>2, TextSet
  <2>4. C = [U EXCEPT !.wedged = FALSE]
    BY <1>3, <2>1
  <2>5. Same(U, C)
    BY <2>3, <2>4, FieldSet DEF Same
  <2>6. Same(J, C)
    BY <2>3, <2>5, SameTrans
  <2> QED
    BY <1>4, <2>6, SameTrans DEF Same
<1>8. Same(jb, [C EXCEPT !.stuck = TRUE]) /\ Same(jb, MaybeResume([C EXCEPT !.stuck = FALSE]))
  <2>1. Same(C, [C EXCEPT !.stuck = TRUE])
    BY <1>7, FieldSet
  <2>2. PICK U : U = [C EXCEPT !.stuck = FALSE]
    OBVIOUS
  <2>3. Same(C, U)
    BY <1>7, <2>2, FieldSet
  <2>4. Same(U, MaybeResume(U))
    BY <2>3, MaybeResumeSame DEF Same
  <2>5. Same(jb, U)
    BY <1>7, <2>3, SameTrans
  <2>6. Same(jb, MaybeResume(U))
    BY <2>4, <2>5, SameTrans
  <2>7. Same(jb, [C EXCEPT !.stuck = TRUE])
    BY <1>7, <2>1, SameTrans
  <2> QED
    BY <2>2, <2>6, <2>7
<1> QED
  BY <1>3, <1>4, <1>5, <1>6, <1>8

-----------------------------------------------------------------------------
\* An awaited function returns: the place it returns to is taken off the nest.
LEMMA PopKeeps ==
  ASSUME NEW J, JInv(J), NEW f \in Slots, J.jobs[f].at = "return",
         NEW j \in JobType, j.at = "return", j.hyd = J.jobs[f].hyd, j.on = J.jobs[f].on,
         J.jobs[f].nest # <<>>, j.nest = Tail(J.jobs[f].nest),
         Head(J.jobs[f].nest) \notin {"full", "recover"}
  PROVE  JInv(With(J, f, j))
<1>1. J.jobs[f].nest \in Seq(Callers) /\ JobInv(J.jobs[f])
  BY DEF JInv, JbType, JobType
<1>2. JobInv(j) /\ ~FullAt(J.jobs[f]) /\ Calm(j) /\ J.jobs[f].at \notin Asking
  BY <1>1 DEF JobInv, FullAt, Calm, CanWait, Asking
<1>3. RecoverAt(J.jobs[f]) => RecoverAt(j)
  <2>1. SUFFICES ASSUME J.jobs[f].nest \in RecoverNests
                 PROVE  j.nest \in RecoverNests
    BY DEF RecoverAt, Asking
  <2>2. {"recover", "unwedge", "reset"} \subseteq Callers
    BY DEF Callers
  <2>3. <<"recover">> \in Seq(Callers) /\ Head(<<"recover">>) = "recover"
    BY <2>2
  <2>9. <<"unwedge">> \in Seq(Callers) /\ "unwedge" \in Callers
    BY <2>2
  <2>10. \A a, b \in Seq(Callers) : a \o b \in Seq(Callers)
    OBVIOUS
  <2>11. <<"unwedge">> \o <<"recover">> \in Seq(Callers)
    BY <2>3, <2>9, <2>10
  <2>4. \A r \in Recovers : r \in Seq(Callers)
    BY <2>3, <2>11, Zenon DEF Recovers
  <2>5. \A r \in Seq(Callers), c \in Callers : Tail(<<c>> \o r) = r
    OBVIOUS
  <2>6. CASE J.jobs[f].nest = <<"recover">>
    BY <2>3, <2>6
  <2>7. CASE J.jobs[f].nest = <<"unwedge">> \o <<"recover">>
    <3>1. Tail(<<"unwedge">> \o <<"recover">>) = <<"recover">>
      BY <2>2, <2>3, <2>5, Zenon
    <3> QED
      BY <2>7, <3>1 DEF RecoverNests, Recovers
  <2>8. ASSUME NEW r \in Recovers, J.jobs[f].nest = <<"reset">> \o r
        PROVE  j.nest \in RecoverNests
    <3>1. Tail(<<"reset">> \o r) = r
      BY <2>2, <2>4, <2>5
    <3> QED
      BY <2>8, <3>1, Zenon DEF RecoverNests
  <2> QED
    BY <2>1, <2>6, <2>7, <2>8, Zenon DEF RecoverNests, Recovers
<1>4. Fair(J.jobs[f], j)
  BY <1>2, <1>3 DEF Fair
<1>5. WaitsWell(J, j.at, j.on)
  BY <1>1 DEF JobInv, OnAts, WaitsWell
<1> QED
  BY <1>2, <1>4, <1>5, PutKeeps

\* The recovery is over: no one waits for it any more.
LEMMA RecoverOver ==
  ASSUME NEW J, JInv(J), NEW f \in Slots, J.jobs[f].at = "return",
         NEW j \in JobType, j.at = "return", j.hyd = J.jobs[f].hyd, j.on = J.jobs[f].on,
         J.jobs[f].nest # <<>>, Head(J.jobs[f].nest) = "recover",
         NEW K, K \in JbType, K.jobs = [J.jobs EXCEPT ![f] = j], K.dropRun = J.dropRun,
         K.hydrating = J.hydrating, K.depth = J.depth, K.counted = J.counted,
         K.fullRun = J.fullRun,
         K.recoverRun = IF J.recoverRun = f THEN NoSlot ELSE J.recoverRun
  PROVE  JInv(K) /\ K.fullRun # f /\ K.recoverRun # f
<1>1. J \in JbType /\ JobInv(J.jobs[f]) /\ NoSlot \notin Slots
  BY JobsAssumption DEF JInv
<1>2. Off(f, J, K) /\ K.jobs[f] = j
  <2>1. J.jobs \in [Slots -> JobType]
    BY <1>1 DEF JbType
  <2> QED
    BY <2>1 DEF Off, SameJob
<1>3. JobInv(j) /\ ~FullAt(J.jobs[f]) /\ Calm(j) /\ j.at \notin Restoring
  BY <1>1 DEF JobInv, FullAt, Calm, CanWait, Asking, Restoring
<1>4. DropInv(K)
  BY <1>2, <1>3, DropSame DEF JInv, Restoring
<1>5. HydInv(K)
  BY <1>2, HydSame DEF JInv
<1>6. K.fullRun # f /\ K.recoverRun # f
  BY <1>1, <1>3 DEF JInv, WaitInv
<1>7. \A g \in Slots \ {f} : K.jobs[g] = J.jobs[g]
  BY <1>1 DEF JbType
<1>8. ASSUME NEW at, NEW g, WaitsWell(J, at, g)  PROVE WaitsWell(K, at, g)
  <2>1. J.jobs[f].at \notin Asking
    BY DEF Asking
  <2> QED
    BY <1>2, <1>3, <1>7, <1>8, <2>1 DEF WaitsWell
<1>9. j.on = NoSlot
  BY <1>1 DEF JobInv, OnAts
<1>10. ASSUME NEW g \in Slots  PROVE WaitsWell(K, K.jobs[g].at, K.jobs[g].on)
  <2>1. CASE g = f
    BY <1>2, <1>9, <2>1 DEF WaitsWell
  <2>2. CASE g # f
    BY <1>7, <1>8, <2>2 DEF JInv, WaitInv
  <2> QED
    BY <2>1, <2>2
<1>11. WaitInv(K)
  BY <1>6, <1>7, <1>10 DEF JInv, WaitInv
<1>12. \A g \in Slots : JobInv(K.jobs[g])
  BY <1>2, <1>3, JobsKeep DEF JInv
<1> QED
  BY <1>4, <1>5, <1>6, <1>11, <1>12 DEF JInv

\* The callers of a function that the recovery awaits.
LEMMA NestHeads ==
  ASSUME NEW n \in RecoverNests
  PROVE  n # <<>> /\ Head(n) \in {"recover", "unwedge", "reset"}
<1>1. {"recover", "unwedge", "reset"} \subseteq Callers
  BY DEF Callers
<1>2. \A c \in Callers : <<c>> \in Seq(Callers) /\ <<c>> # <<>> /\ Head(<<c>>) = c
  OBVIOUS
<1>3. \A a, b \in Seq(Callers) : a \o b \in Seq(Callers)
  OBVIOUS
<1>4. \A r \in Seq(Callers), c \in Callers : <<c>> \o r # <<>> /\ Head(<<c>> \o r) = c
  OBVIOUS
<1>5. <<"recover">> \in Seq(Callers) /\ <<"unwedge">> \o <<"recover">> \in Seq(Callers)
  BY <1>1, <1>2, <1>3
<1>6. CASE n = <<"recover">>
  BY <1>1, <1>2, <1>6
<1>7. CASE n = <<"unwedge">> \o <<"recover">>
  BY <1>1, <1>4, <1>5, <1>7
<1>8. ASSUME NEW r \in Recovers, n = <<"reset">> \o r
      PROVE  n # <<>> /\ Head(n) = "reset"
  <2>1. r \in Seq(Callers)
    BY <1>5, Zenon DEF Recovers
  <2> QED
    BY <1>1, <1>4, <1>8, <2>1
<1> QED
  BY <1>6, <1>7, <1>8 DEF RecoverNests, Recovers

\* Who awaits a function that returns.
LEMMA ReturnFields ==
  ASSUME NEW J, JInv(J), NEW f \in Slots, J.jobs[f].at = "return"
  PROVE  /\ J.jobs[f].hyd = "none" /\ J.jobs[f].on = NoSlot
         /\ J.jobs[f].nest \in Seq(Callers)
         /\ J.fullRun = f => J.jobs[f].nest # <<>> /\ Head(J.jobs[f].nest) = "full"
         /\ J.recoverRun = f => /\ J.jobs[f].nest # <<>>
                                /\ Head(J.jobs[f].nest) \in {"recover", "unwedge", "reset"}
<1>1. J.jobs[f].nest \in Seq(Callers) /\ JobInv(J.jobs[f]) /\ f # NoSlot
  BY JobsAssumption DEF JInv, JbType, JobType
<1>2. J.jobs[f].hyd = "none" /\ J.jobs[f].on = NoSlot
  <2>1. J.jobs[f].hyd \in {"none", "own", "late"}
    BY DEF JInv, JbType, JobType
  <2> QED
    BY <1>1, <2>1 DEF JobInv, HydAts, OnAts
<1>3. J.fullRun = f => J.jobs[f].nest # <<>> /\ Head(J.jobs[f].nest) = "full"
  BY <1>1 DEF JInv, WaitInv, FullAt
<1>4. J.recoverRun = f => J.jobs[f].nest \in RecoverNests
  BY <1>1 DEF JInv, WaitInv, RecoverAt, Asking
<1> QED
  BY <1>1, <1>2, <1>3, <1>4, NestHeads

\* An awaited function returns to its caller.
LEMMA ReturnsKeeps ==
  ASSUME JInv(jb), NEW f \in Slots, Returns(f)
  PROVE  JInv(jb')
<1>1. /\ jb \in JbType /\ jb.jobs[f].at = "return" /\ jb.jobs[f].hyd = "none"
      /\ jb.jobs[f].on = NoSlot /\ jb.jobs[f].nest \in Seq(Callers)
  BY ReturnFields DEF JInv, Returns
<1>2. PICK nest : nest = jb.jobs[f].nest
  OBVIOUS
<1>3. PICK n : n = IF nest = <<>> THEN nest ELSE Tail(nest)
  OBVIOUS
<1>4. n \in Seq(Callers)
  BY <1>1, <1>2, <1>3
<1>5. PICK J : J = [jb EXCEPT !.jobs[f].nest = n]
  OBVIOUS
<1>6. PICK j \in JobType : /\ J = With(jb, f, j) /\ j.at = "return" /\ j.hyd = "none"
                           /\ j.on = NoSlot /\ j.nest = n
  BY <1>1, <1>4, <1>5, NestWith
<1>7. J \in JbType /\ J.jobs[f] = j /\ Latches(J) = Latches(jb)
  <2>1. J \in JbType /\ Latches(J) = Latches(jb)
    BY <1>1, <1>6, WithFields
  <2>2. With(jb, f, j).jobs[f] = j
    BY <1>1, WithWith
  <2> QED
    BY <1>6, <2>1, <2>2
<1>8. J.fullRun = jb.fullRun /\ J.recoverRun = jb.recoverRun
  BY <1>7, LatchFields
<1>9. nest # <<>> /\ Head(nest) \notin {"full", "recover"} => JInv(J)
  BY <1>1, <1>2, <1>3, <1>6, PopKeeps
<1>10. CASE nest = <<>>
  <2>1. jb' = End(J, f)
    BY <1>2, <1>3, <1>5, <1>10 DEF Returns
  <2>2. Fair(jb.jobs[f], j) /\ JobInv(j)
    BY <1>1, <1>2, <1>3, <1>6, <1>10
       DEF Fair, JobInv, Calm, CanWait, Asking, FullAt, RecoverAt
  <2>3. WaitsWell(jb, j.at, j.on)
    BY <1>6 DEF WaitsWell
  <2>4. JInv(J)
    BY <1>1, <1>6, <2>2, <2>3, PutKeeps
  <2>5. J.fullRun # f /\ J.recoverRun # f
    <3>1. /\ jb.fullRun = f => jb.jobs[f].nest # <<>>
          /\ jb.recoverRun = f => jb.jobs[f].nest # <<>>
      BY <1>1, ReturnFields
    <3> QED
      BY <1>2, <1>8, <1>10, <3>1
  <2> QED
    BY <1>6, <1>7, <2>1, <2>4, <2>5, EndKeeps DEF Restoring
<1>11. CASE nest # <<>> /\ Head(nest) = "booted"
  <2>1. jb' = End(IF ~Current(J, f) THEN J
                  ELSE PostBoot([J EXCEPT !.hydrating = @ /\ J.depth > 0]), f)
    BY <1>2, <1>3, <1>5, <1>11 DEF Returns
  <2>2. JInv(J)
    BY <1>9, <1>11
  <2>3. [J EXCEPT !.hydrating = @ /\ J.depth > 0] = J
    <3>1. J.hydrating => J.depth > 0
      <4>1. J.depth \in Nat /\ IsFiniteSet(Own(J))
        BY <1>7, JobsAssumption, FS_Subset DEF JbType, Own
      <4>2. J.hydrating => Own(J) # {} /\ J.depth = Cardinality(Own(J))
        BY <2>2 DEF JInv, HydInv
      <4> QED
        BY <4>1, <4>2, FS_EmptySet
    <3>2. J.hydrating \in BOOLEAN
      BY <1>7 DEF JbType
    <3>3. (J.hydrating /\ J.depth > 0) = J.hydrating
      BY <3>1, <3>2
    <3>4. [J EXCEPT !.hydrating = J.hydrating] = J
      BY <1>7 DEF JbType
    <3> QED
      BY <3>3, <3>4
  <2>4. Same(J, J) /\ Same(J, PostBoot(J))
    BY <1>7, SameSelf, PostBootSame
  <2>5. ASSUME NEW K, Same(J, K)  PROVE JInv(End(K, f))
    <3>1. JInv(K) /\ SameJob(J.jobs[f], K.jobs[f]) /\ Latches(K) = Latches(J)
      BY <1>6, <1>7, <2>2, <2>5, SameIsKept DEF Kept
    <3>2. K.fullRun = jb.fullRun /\ K.recoverRun = jb.recoverRun
      BY <1>8, <3>1, LatchFields
    <3>3. K.fullRun # f /\ K.recoverRun # f
      BY <1>1, <1>2, <1>11, <3>2, ReturnFields
    <3> QED
      BY <1>6, <1>7, <3>1, <3>3, EndKeeps DEF SameJob, Restoring
  <2> QED
    BY <2>1, <2>3, <2>4, <2>5
<1>12. CASE nest # <<>> /\ Head(nest) = "full"
  <2>1. jb' = Goto(J, f, "full_end")
    BY <1>2, <1>3, <1>5, <1>12 DEF Returns
  <2>2. ~RecoverAt(jb.jobs[f])
    <3>1. jb.jobs[f].nest \notin RecoverNests
      BY <1>1, <1>2, <1>12, NestHeads
    <3> QED
      BY <1>1, <3>1 DEF RecoverAt, Asking
  <2>3. ASSUME NEW k, k.at = "full_end", k.hyd = j.hyd, k.on = j.on, k.nest = j.nest
        PROVE  JobInv(k) /\ Fair(jb.jobs[f], k)
    BY <1>1, <1>6, <2>2, <2>3 DEF JobInv, Fair, Calm, CanWait, Asking, FullAt
  <2>4. "full_end" \in Ats /\ "full_end" \notin Restoring /\ "return" \notin Restoring
    BY DEF Ats, Restoring
  <2>5. WaitsWell(jb, "full_end", j.on)
    BY <1>6 DEF WaitsWell
  <2> QED
    BY <1>1, <1>6, <2>1, <2>3, <2>4, <2>5, PutGotoKeeps
<1>13. CASE nest # <<>> /\ Head(nest) = "reset"
  <2>1. PICK R : R = [J EXCEPT !.running = FALSE]
    OBVIOUS
  <2>2. PICK P : P = [R EXCEPT !.pending = TRUE]
    OBVIOUS
  <2>3. \/ jb' = Goto(J, f, "return") \/ jb' = Goto(R, f, "return")
        \/ jb' = Goto(StartupCatchUp(P), f, "return")
    BY <1>2, <1>3, <1>5, <1>13, <2>1, <2>2, Zenon DEF Returns
  <2>4. JInv(J)
    BY <1>9, <1>13
  <2>5. Same(J, J) /\ Same(J, R)
    BY <1>7, <2>1, SameSelf, FieldSet
  <2>6. Same(R, P)
    <3>1. R \in JbType
      BY <2>5 DEF Same
    <3> QED
      BY <2>2, <3>1, FieldSet
  <2>7. Same(P, StartupCatchUp(P))
    BY <2>6, StartupSame DEF Same
  <2>8. Same(J, P)
    BY <2>5, <2>6, SameTrans
  <2>9. Same(J, StartupCatchUp(P))
    BY <2>7, <2>8, SameTrans
  <2>10. ASSUME NEW K, Same(J, K)  PROVE JInv(Goto(K, f, "return"))
    <3>1. JInv(K) /\ SameJob(J.jobs[f], K.jobs[f])
      BY <1>6, <1>7, <2>4, <2>10, SameIsKept DEF Kept
    <3> QED
      BY <1>6, <1>7, <3>1, ReturnKeeps DEF SameJob, Restoring
  <2> QED
    BY <2>3, <2>5, <2>9, <2>10
<1>14. CASE nest # <<>> /\ Head(nest) = "recover"
  <2>1. PICK R : /\ R = IF J.jobs[f].kind = "reset" THEN J
                        ELSE [StartupCatchUp(MaybeResume(J)) EXCEPT !.dropping = FALSE]
                 /\ jb' = End(IF R.recoverRun = f
                              THEN [R EXCEPT !.recoverRun = NoSlot, !.recover = FALSE]
                              ELSE R, f)
    BY <1>2, <1>3, <1>5, <1>14, Zenon DEF Returns
  <2>2. Same(J, R)
    <3>1. Same(J, J)
      BY <1>7, SameSelf
    <3>2. Same(J, MaybeResume(J))
      BY <1>7, MaybeResumeSame
    <3>3. Same(MaybeResume(J), StartupCatchUp(MaybeResume(J)))
      BY <3>2, StartupSame DEF Same
    <3>4. PICK S : S = StartupCatchUp(MaybeResume(J))
      OBVIOUS
    <3>5. Same(J, S)
      BY <3>2, <3>3, <3>4, SameTrans
    <3>6. Same(S, [S EXCEPT !.dropping = FALSE])
      BY <3>5, FieldSet DEF Same
    <3>7. Same(J, [S EXCEPT !.dropping = FALSE])
      BY <3>5, <3>6, SameTrans
    <3> QED
      BY <2>1, <3>1, <3>4, <3>7
  <2>3. R \in JbType /\ Latches(R) = Latches(J)
    BY <2>2 DEF Same
  <2>4. PICK J0 : J0 = IF J.recoverRun = f
                       THEN [J EXCEPT !.recoverRun = NoSlot, !.recover = FALSE] ELSE J
    OBVIOUS
  <2>5. PICK R0 : R0 = IF R.recoverRun = f
                       THEN [R EXCEPT !.recoverRun = NoSlot, !.recover = FALSE] ELSE R
    OBVIOUS
  <2>6. J.jobs = [jb.jobs EXCEPT ![f] = j]
    BY <1>1, <1>6, WithFields
  <2>7. /\ J0 \in JbType /\ J0.jobs = J.jobs /\ J0.dropRun = J.dropRun
        /\ J0.hydrating = J.hydrating /\ J0.depth = J.depth /\ J0.counted = J.counted
        /\ J0.fullRun = J.fullRun
        /\ J0.recoverRun = IF J.recoverRun = f THEN NoSlot ELSE J.recoverRun
    BY <1>7, <2>4 DEF JbType
  <2>8. /\ R0 \in JbType /\ R0.jobs = R.jobs /\ R0.dropRun = R.dropRun
        /\ R0.hydrating = R.hydrating /\ R0.depth = R.depth /\ R0.counted = R.counted
        /\ R0.fullRun = R.fullRun
        /\ R0.recoverRun = IF R.recoverRun = f THEN NoSlot ELSE R.recoverRun
    BY <2>3, <2>5 DEF JbType
  <2>9. /\ J.dropRun = jb.dropRun /\ J.hydrating = jb.hydrating /\ J.depth = jb.depth
        /\ J.counted = jb.counted
    BY <1>7, LatchFields
  <2>10. JInv(J0) /\ J0.fullRun # f /\ J0.recoverRun # f
    BY <1>1, <1>2, <1>6, <1>8, <1>14, <2>6, <2>7, <2>9, RecoverOver
  <2>11. Latches(R0) = Latches(J0)
    BY <2>3, <2>7, <2>8, LatchFields DEF Latches
  <2>12. Same(J0, R0)
    BY <2>2, <2>7, <2>8, <2>11 DEF Same
  <2>13. J0.jobs[f] = j
    BY <1>7, <2>7
  <2>14. JInv(R0) /\ SameJob(J0.jobs[f], R0.jobs[f])
    BY <1>6, <2>10, <2>12, <2>13, SameIsKept DEF Kept
  <2>15. R0.fullRun # f /\ R0.recoverRun # f
    BY <2>10, <2>11, LatchFields
  <2>16. jb' = End(R0, f)
    BY <2>1, <2>5
  <2> QED
    BY <1>6, <2>13, <2>14, <2>15, <2>16, EndKeeps DEF SameJob, Restoring
<1>15. CASE nest # <<>> /\ Head(nest) = "stall"
  <2>1. jb' = Goto([J EXCEPT !.stalling = FALSE], f, "return")
    BY <1>2, <1>3, <1>5, <1>15 DEF Returns
  <2>2. PICK S : S = [J EXCEPT !.stalling = FALSE]
    OBVIOUS
  <2>3. JInv(J)
    BY <1>9, <1>15
  <2>4. Same(J, S)
    BY <1>7, <2>2, FieldSet
  <2>5. JInv(S) /\ SameJob(J.jobs[f], S.jobs[f])
    BY <1>6, <1>7, <2>3, <2>4, SameIsKept DEF Kept
  <2> QED
    BY <1>6, <1>7, <2>1, <2>2, <2>5, ReturnKeeps DEF SameJob, Restoring
<1>16. CASE nest # <<>> /\ Head(nest) = "unwedge"
  <2>1. jb' = Goto(J, f, "return")
    BY <1>2, <1>3, <1>5, <1>16 DEF Returns
  <2>2. JInv(J)
    BY <1>9, <1>16
  <2> QED
    BY <1>6, <1>7, <2>1, <2>2, ReturnKeeps DEF Restoring
<1>17. nest = <<>> \/ Head(nest) \in Callers
  BY <1>1, <1>2
<1> QED
  BY <1>10, <1>11, <1>12, <1>13, <1>14, <1>15, <1>16, <1>17 DEF Callers

-----------------------------------------------------------------------------
\* What starts a job.
LEMMA ClickKeeps ==
  ASSUME JInv(jb), Click
  PROVE  JInv(jb')
<1>1. ASSUME NewJob("full", "full_prior")  PROVE JInv(jb')
  <2>1. PICK f \in Slots : /\ ~Busy(jb, f)
                           /\ jb' = StartFull([jb EXCEPT !.jobs[f] = Job("full", "full_prior")], f)
    BY <1>1 DEF NewJob
  <2>2. PICK J : J = [jb EXCEPT !.jobs[f] = Job("full", "full_prior")]
    OBVIOUS
  <2>3. "full" \in Kinds /\ "full_prior" \in Ats \ (Restoring \cup {"idle"})
    BY DEF Kinds, Ats, Restoring
  <2>4. JInv(J) /\ J.jobs[f].at = "full_prior" /\ J.jobs[f].on = NoSlot
    BY <2>1, <2>2, <2>3, NewKeeps
  <2> QED
    BY <2>1, <2>2, <2>4, StartFullKeeps
<1>2. ASSUME NEW kind \in {"recover", "reset"}, NewJob(kind, "quiesce")  PROVE JInv(jb')
  <2>1. PICK f \in Slots : /\ ~Busy(jb, f)
                           /\ jb' = StartRecover([jb EXCEPT !.jobs[f] = Job(kind, "quiesce")], f)
    BY <1>2 DEF NewJob
  <2>2. PICK J : J = [jb EXCEPT !.jobs[f] = Job(kind, "quiesce")]
    OBVIOUS
  <2>3. kind \in Kinds /\ "quiesce" \in Ats \ (Restoring \cup {"idle"})
    BY DEF Kinds, Ats, Restoring
  <2>4. JInv(J) /\ J.jobs[f].at = "quiesce"
    BY <2>1, <2>2, <2>3, NewKeeps
  <2> QED
    BY <2>1, <2>2, <2>4, RecoverStarts
<1> QED
  BY <1>1, <1>2 DEF Click

LEMMA StallKeeps ==
  ASSUME JInv(jb), Stall
  PROVE  JInv(jb')
<1>1. PICK f \in Slots :
        /\ ~Busy(jb, f)
        /\ jb' = Abort([[jb EXCEPT !.jobs[f] = Job("stall", "stall")] EXCEPT !.stalling = TRUE],
                       FALSE, TRUE)
  BY Zenon DEF Stall, NewJob
<1>2. PICK J : J = [jb EXCEPT !.jobs[f] = Job("stall", "stall")]
  OBVIOUS
<1>3. "stall" \in Kinds /\ "stall" \in Ats \ (Restoring \cup {"idle"})
  BY DEF Kinds, Ats, Restoring
<1>4. JInv(J)
  BY <1>1, <1>2, <1>3, NewKeeps
<1>5. PICK S : S = [J EXCEPT !.stalling = TRUE]
  OBVIOUS
<1>6. Same(J, S)
  BY <1>4, <1>5, FieldSet DEF JInv
<1>7. JInv(S)
  BY <1>4, <1>6, SameKeeps
<1>8. JInv(Abort(S, FALSE, TRUE))
  BY <1>7, AbortKeeps
<1> QED
  BY <1>1, <1>2, <1>5, <1>8

LEMMA WatchdogKeeps ==
  ASSUME JInv(jb), Watchdog
  PROVE  JInv(jb')
<1>1. PICK S : S = [jb EXCEPT !.stuck = TRUE]
  OBVIOUS
<1>2. PICK W : W = [S EXCEPT !.wedged = TRUE]
  OBVIOUS
<1>3. Same(jb, S)
  BY <1>1, FieldSet DEF JInv
<1>4. Same(S, W)
  BY <1>2, <1>3, FieldSet DEF Same
<1>5. Same(jb, W)
  BY <1>3, <1>4, SameTrans
<1>6. jb' = S \/ jb' = W
  BY <1>1, <1>2 DEF Watchdog
<1> QED
  BY <1>3, <1>5, <1>6, SameKeeps

LEMMA PollKeeps ==
  ASSUME JInv(jb), Poll
  PROVE  JInv(jb')
<1>1. PICK f \in Slots :
        /\ ~Busy(jb, f)
        /\ jb' = Attached(HydrateBegins([jb EXCEPT !.jobs[f] = Job("poll", "boot")], f), f)
  BY DEF Poll, NewJob
<1>2. PICK J : J = [jb EXCEPT !.jobs[f] = Job("poll", "boot")]
  OBVIOUS
<1>3. "poll" \in Kinds /\ "boot" \in Ats \ (Restoring \cup {"idle"})
  BY DEF Kinds, Ats, Restoring
<1>4. JInv(J) /\ J.jobs[f].at = "boot" /\ J.jobs[f].hyd = "none" /\ J.jobs[f].on = NoSlot
      /\ J.jobs[f].nest = <<>>
  BY <1>1, <1>2, <1>3, NewKeeps
<1>5. PICK j \in JobType : /\ jb' = Hydrates(J, f, j) /\ j.at = "boot" /\ j.hyd = "own"
                           /\ j.on = NoSlot /\ j.nest = <<>>
  <2>1. J \in JbType
    BY <1>4 DEF JInv
  <2>2. PICK j \in JobType : /\ Attached(HydrateBegins(J, f), f) = Hydrates(J, f, j)
                             /\ j.at = J.jobs[f].at /\ j.hyd = "own"
                             /\ j.on = J.jobs[f].on /\ j.nest = J.jobs[f].nest
    BY <2>1, HydratesIs
  <2> QED
    BY <1>1, <1>2, <1>4, <2>2
<1>6. JobInv(j) /\ Fair(J.jobs[f], j) /\ WaitsWell(J, j.at, j.on)
  BY <1>4, <1>5 DEF JobInv, HydAts, Asking, Fair, Calm, CanWait, FullAt, RecoverAt, WaitsWell
<1> QED
  BY <1>4, <1>5, <1>6, HydratesKeep

-----------------------------------------------------------------------------
\* The boot is the only job at first: nothing is latched, no one waits.
LEMMA JobsStart ==
  ASSUME JbInit
  PROVE  JInv(jb)
<1>0. PICK c \in Index, boots \in Slots :
        jb = [open |-> FALSE, content |-> c, inv |-> "unknown",
              full |-> FALSE, fullRun |-> NoSlot,
              recover |-> FALSE, recoverRun |-> NoSlot,
              pending |-> FALSE, running |-> FALSE,
              dropping |-> FALSE, dropRun |-> FALSE,
              hydrating |-> FALSE, depth |-> 0, counted |-> FALSE,
              cold |-> FALSE, waiting |-> FALSE, boot |-> FALSE, good |-> FALSE,
              stuck |-> FALSE, wedged |-> FALSE, stalling |-> FALSE, over |-> FALSE,
              jobs |-> [f \in Slots |->
                IF f = boots THEN [Job("boot", "open") EXCEPT !.nest = <<"booted">>]
                             ELSE NoJob]]
  BY DEF JbInit
<1>1. /\ jb.jobs = [f \in Slots |->
             IF f = boots THEN [Job("boot", "open") EXCEPT !.nest = <<"booted">>] ELSE NoJob]
      /\ ~jb.dropRun /\ ~jb.hydrating /\ jb.depth = 0 /\ ~jb.counted
      /\ jb.hydrating = FALSE /\ jb.fullRun = NoSlot /\ jb.recoverRun = NoSlot
  BY <1>0
<1>2. /\ NoJob \in JobType /\ NoJob.at = "idle" /\ NoJob.hyd = "none" /\ NoJob.on = NoSlot
  <2>1. -1 \in Int /\ <<>> \in Seq(Callers)
    OBVIOUS
  <2> QED
    BY <2>1 DEF NoJob, JobType, Ats, Kinds
<1>3. PICK b : b = [Job("boot", "open") EXCEPT !.nest = <<"booted">>]
  OBVIOUS
<1>4. b \in JobType /\ b.at = "open" /\ b.hyd = "none" /\ b.on = NoSlot
  <2>1. ASSUME NEW k \in JobType
        PROVE  LET j == [[k EXCEPT !.at = "open", !.kind = "boot", !.mine = TRUE]
                           EXCEPT !.nest = <<"booted">>]
               IN  j \in JobType /\ j.at = "open" /\ j.hyd = k.hyd /\ j.on = k.on
    <3>1. "open" \in Ats /\ "boot" \in Kinds /\ "booted" \in Callers
      BY DEF Ats, Kinds, Callers
    <3>2. <<"booted">> \in Seq(Callers)
      BY <3>1
    <3> QED
      BY <3>1, <3>2 DEF JobType
  <2> QED
    BY <1>2, <1>3, <2>1, Zenon DEF Job
<1>5. \A g \in Slots : /\ jb.jobs[g] \in JobType /\ jb.jobs[g].at \in {"open", "idle"}
                       /\ jb.jobs[g].hyd = "none" /\ jb.jobs[g].on = NoSlot
  BY <1>1, <1>2, <1>3, <1>4
<1>6. jb.jobs \in [Slots -> JobType]
  BY <1>1, <1>5
<1>7. jb \in JbType
  <2>1. PICK jobs : jobs = jb.jobs
    OBVIOUS
  <2>2. jb = [open |-> FALSE, content |-> c, inv |-> "unknown",
              full |-> FALSE, fullRun |-> NoSlot,
              recover |-> FALSE, recoverRun |-> NoSlot,
              pending |-> FALSE, running |-> FALSE,
              dropping |-> FALSE, dropRun |-> FALSE,
              hydrating |-> FALSE, depth |-> 0, counted |-> FALSE,
              cold |-> FALSE, waiting |-> FALSE, boot |-> FALSE, good |-> FALSE,
              stuck |-> FALSE, wedged |-> FALSE, stalling |-> FALSE, over |-> FALSE,
              jobs |-> jobs]
    BY <1>0, <1>1, <2>1
  <2> QED
    BY <1>6, <2>1, <2>2 DEF JbType
<1>8. \A g \in Slots : JobInv(jb.jobs[g])
  BY <1>5 DEF JobInv, Asking
<1>9. DropInv(jb)
  BY <1>1, <1>5 DEF DropInv, Restoring
<1>10. HydInv(jb)
  <2>1. Own(jb) = {}
    BY <1>5 DEF Own
  <2> QED
    BY <1>1, <2>1 DEF HydInv
<1>11. WaitInv(jb)
  BY <1>1, <1>5 DEF WaitInv, WaitsWell
<1> QED
  BY <1>7, <1>8, <1>9, <1>10, <1>11 DEF JInv

\* Every step keeps the invariant.
LEMMA JobsStep ==
  ASSUME JInv(jb), [JbNext]_jbVars
  PROVE  JInv(jb')
<1>1. CASE UNCHANGED jbVars
  BY <1>1 DEF jbVars
<1>2. ASSUME NEW f \in Slots, JobStep(f)  PROVE JInv(jb')
  BY <1>2, RestoreStepKeeps, BootStepKeeps, CatchUpStepKeeps, FullStepKeeps, ColdStepKeeps,
     RecoverStepKeeps, StallStepKeeps, ReturnsKeeps DEF JobStep
<1> QED
  BY <1>1, <1>2, ClickKeeps, StallKeeps, WatchdogKeeps, PollKeeps DEF JbNext

LEMMA JobsAlways == JbSpec => []JInv(jb)
<1>1. JbInit => JInv(jb)
  BY JobsStart
<1>2. JInv(jb) /\ [JbNext]_jbVars => JInv(jb)'
  BY JobsStep
<1> QED
  BY <1>1, <1>2, PTL DEF JbSpec

\* The restore latch (recoverAfterFailedDrop) is up exactly while one restore
\* is between its start and its finally.
THEOREM DropLatchHolds == JbSpec => []JbDropLatch
<1>1. ASSUME JInv(jb)  PROVE JbDropLatch
  <2>1. DropInv(jb) /\ jb.dropRun \in BOOLEAN
    BY <1>1 DEF JInv, JbType
  <2>2. CASE ~jb.dropRun
    <3>1. Running(Restoring) = {}
      BY <2>1, <2>2 DEF DropInv, Running
    <3> QED
      BY <2>2, <3>1, FS_EmptySet DEF JbDropLatch
  <2>3. CASE jb.dropRun
    <3>1. PICK g \in Slots : jb.jobs[g].at \in Restoring
      BY <2>1, <2>3 DEF DropInv
    <3>2. Running(Restoring) = {g}
      BY <2>1, <3>1 DEF DropInv, Running
    <3> QED
      BY <2>3, <3>2, FS_Singleton DEF JbDropLatch
  <2> QED
    BY <2>2, <2>3
<1> QED
  BY <1>1, JobsAlways, PTL

\* The hydrating flag of the session (withSidecarHydrate) is up exactly while
\* a hydrate of that session runs, and the depth counts those hydrates.
THEOREM HydratingIsTrue == JbSpec => []JbHydrating
<1>1. ASSUME JInv(jb)  PROVE JbHydrating
  <2>1. {f \in Slots : Busy(jb, f) /\ jb.jobs[f].hyd = "own"} = Own(jb)
    <3>1. \A f \in Slots : jb.jobs[f].hyd = "own" => jb.jobs[f].at # "idle"
      BY <1>1 DEF JInv, JobInv, HydAts
    <3> QED
      BY <3>1 DEF Own, Busy
  <2>2. HydInv(jb)
    BY <1>1 DEF JInv
  <2>3. jb.hydrating => jb.depth = Cardinality(Own(jb))
    BY <2>2 DEF HydInv
  <2> QED
    BY <2>1, <2>2, <2>3 DEF JbHydrating, HydInv
<1> QED
  BY <1>1, JobsAlways, PTL

\* The jobs wait for each other without a cycle: the one waited for is at
\* work, or asks to recover and will wait only for one that is at work.
THEOREM NoWaitCycle == JbSpec => []JbNoWaitCycle
<1>1. ASSUME JInv(jb)  PROVE JbNoWaitCycle
  <2>1. SUFFICES ASSUME NEW S \in SUBSET Slots, S # {},
                        \A f \in S : jb.jobs[f].on # NoSlot, \A f \in S : jb.jobs[f].on \in S
                 PROVE  FALSE
    BY DEF JbNoWaitCycle
  <2>2. PICK f \in S : TRUE
    BY <2>1
  <2>3. ASSUME NEW e \in S
        PROVE  /\ jb.jobs[e].on \in S /\ ~Calm(jb.jobs[e])
               /\ WaitsWell(jb, jb.jobs[e].at, jb.jobs[e].on)
    BY <1>1, <2>1 DEF JInv, JobInv, WaitInv, OnAts, Calm, CanWait
  <2>4. PICK g \in S : g = jb.jobs[f].on
    BY <2>3
  <2>5. jb.jobs[g].at = "prior"
    <3>1. jb.jobs[g].at \in Asking
      BY <2>1, <2>3, <2>4 DEF WaitsWell
    <3>2. jb.jobs[g].at \in OnAts
      BY <1>1, <2>1 DEF JInv, JobInv
    <3> QED
      BY <3>1, <3>2 DEF Asking, OnAts
  <2> QED
    BY <2>1, <2>3, <2>5 DEF WaitsWell
<1> QED
  BY <1>1, JobsAlways, PTL
=============================================================================
