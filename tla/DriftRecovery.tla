---------------------------- MODULE DriftRecovery ----------------------------
(***************************************************************************)
(* DriftRecoveryCoordinator (src/src/app/drift-recovery-coordinator.ts)    *)
(* with its trigger, onCoherenceDrift of src/src/search/search.ts, and     *)
(* what src/src/main.ts does around it: the wake-ups (a search settles,    *)
(* the window is shown) and abortInflightSessionWork, which ends the       *)
(* session while a recovery pass may be at one of its awaits.              *)
(*                                                                         *)
(* A search that finds the frame and BM25 misjoined drops the caches.  A   *)
(* second one within the cooldown calls for a recovery pass, embed-free:   *)
(* hydrate from the sidecar, warm, verify, and a verdict on the health.    *)
(* attachOrchestrator makes a new orchestrator (with a generation counter  *)
(* of its own) and a new coordinator; a pass belongs to the pair that      *)
(* started it and goes on when they are replaced.                          *)
(***************************************************************************)
EXTENDS Integers, FiniteSets

CONSTANTS
    MaxGen,      \* bound: generations of one orchestrator
    MaxPasses,   \* bound: recovery passes started
    MaxSession   \* bound: sessions; 0 when no session is ever aborted

ASSUME DriftConstants ==
    MaxGen \in Nat /\ MaxPasses \in Nat /\ MaxSession \in Nat

VARIABLES
    session,          \* loadGeneration
    orch,             \* which orchestrator and coordinator are attached
    gens,             \* the generation of each orchestrator
    cooling,          \* the last drift re-warm is younger than the cooldown
    running, pending, lastRecoveryGen,      \* of the attached coordinator
    health,           \* indexHealth
    hidden,           \* the window is in the background
    blocked,          \* indexingBlocked: a search is typed or in flight
    passes,           \* the bodies of runDriftRecovery in flight
    started,          \* how many have been started
    lapsed,           \* history: typing went stale by age, and nothing woke up since
    escalated         \* history: passes called for since the index last changed

drVars == <<session, orch, gens, cooling, running, pending, lastRecoveryGen, health,
          hidden, blocked, passes, started, lapsed, escalated>>

coordinator == <<running, pending, lastRecoveryGen>>

Never == -1

Pass == [id : 1..MaxPasses, orch : 0..MaxSession, session : 0..MaxSession,
         pc : {"hydrate", "warm", "verify"}, verified : {Never} \cup 0..MaxGen]

DrTypeOK ==
    /\ session \in 0..MaxSession
    /\ orch \in 0..session
    /\ gens \in [0..MaxSession -> 0..MaxGen]
    /\ cooling \in BOOLEAN
    /\ running \in BOOLEAN /\ pending \in BOOLEAN
    /\ lastRecoveryGen \in {Never} \cup 0..MaxGen
    /\ health \in {"healthy", "recovering", "degraded"}
    /\ hidden \in BOOLEAN /\ blocked \in BOOLEAN
    /\ passes \subseteq Pass
    /\ started \in 0..MaxPasses
    /\ lapsed \in BOOLEAN
    /\ escalated \in Nat

DrInit ==
    /\ session = 0 /\ orch = 0
    /\ gens = [o \in 0..MaxSession |-> 0]
    /\ cooling = FALSE
    /\ running = FALSE /\ pending = FALSE /\ lastRecoveryGen = Never
    /\ health = "healthy"
    /\ hidden = FALSE /\ blocked = FALSE
    /\ passes = {}
    /\ started = 0
    /\ lapsed = FALSE
    /\ escalated = 0

-----------------------------------------------------------------------------

Bumped(o) == [gens EXCEPT ![o] = @ + 1]

(* A mutated form: the flag that one pass is under way is not looked at. *)
RunAlways(due, isHidden, isBlocked) ==
    IF due /\ ~isHidden /\ ~isBlocked
    THEN /\ started < MaxPasses
         /\ running' = TRUE
         /\ health' = "recovering"
         /\ started' = started + 1
         /\ passes' = passes \cup {[id |-> started + 1, orch |-> orch, session |-> session,
                                    pc |-> "hydrate", verified |-> Never]}
    ELSE UNCHANGED <<running, health, started, passes>>

(* runDriftRecovery up to its first await; a call that finds nothing       *)
(* pending, a pass under way or the user busy does nothing.                *)
runDriftRecovery(due, isHidden, isBlocked) ==
    IF due /\ ~running /\ ~isHidden /\ ~isBlocked
    THEN /\ started < MaxPasses
         /\ running' = TRUE
         /\ health' = "recovering"
         /\ started' = started + 1
         /\ passes' = passes \cup {[id |-> started + 1, orch |-> orch, session |-> session,
                                    pc |-> "hydrate", verified |-> Never]}
    ELSE UNCHANGED <<running, health, started, passes>>

(* A mutated form: the handler marks the pass due and leaves it to a        *)
(* wake-up to start it.                                                    *)
PersistentDriftOnlyMarks(g) ==
    IF ~running /\ lastRecoveryGen # g
    THEN /\ lastRecoveryGen' = g
         /\ pending' = TRUE
         /\ escalated' = escalated + 1
         /\ UNCHANGED <<running, health, started, passes>>
    ELSE UNCHANGED <<coordinator, health, started, passes, escalated>>

(* onPersistentDrift at the generation g. *)
onPersistentDrift(g) ==
    IF ~running /\ lastRecoveryGen # g
    THEN /\ lastRecoveryGen' = g
         /\ pending' = TRUE
         /\ escalated' = escalated + 1
         /\ runDriftRecovery(TRUE, hidden, blocked)
    ELSE UNCHANGED <<coordinator, health, started, passes, escalated>>

(* onCoherenceDrift: a search found the row spaces apart.  The caches are   *)
(* dropped, which bumps the generation; then a re-warm, or within the      *)
(* cooldown of the last one the call for a recovery.                       *)
Drift ==
    /\ gens[orch] < MaxGen
    /\ gens' = Bumped(orch)
    /\ cooling' = TRUE
    /\ IF cooling THEN onPersistentDrift(gens[orch] + 1)
       ELSE UNCHANGED <<coordinator, health, started, passes, escalated>>
    /\ UNCHANGED <<session, orch, hidden, blocked, lapsed>>

CooldownOver ==
    /\ cooling
    /\ cooling' = FALSE
    /\ UNCHANGED <<session, orch, gens, coordinator, health, hidden, blocked, passes,
                   started, lapsed, escalated>>

(* A delta, a reindex or a hydrate of its own completes. *)
Mutation(o) ==
    /\ gens[o] < MaxGen
    /\ gens' = Bumped(o)
    /\ escalated' = 0
    /\ UNCHANGED <<session, orch, cooling, coordinator, health, hidden, blocked, passes,
                   started, lapsed>>

-----------------------------------------------------------------------------
(* What holds a pass back, and the wake-ups.                               *)

SearchBegins ==
    /\ ~blocked
    /\ blocked' = TRUE
    /\ lapsed' = FALSE
    /\ UNCHANGED <<session, orch, gens, cooling, coordinator, health, hidden, passes,
                   started, escalated>>

(* onSearchActivity(false), or the last onQueryInFlight(false). *)
SearchSettles ==
    /\ blocked
    /\ blocked' = FALSE
    /\ lapsed' = FALSE
    /\ runDriftRecovery(pending, hidden, FALSE)
    /\ UNCHANGED <<session, orch, gens, cooling, pending, lastRecoveryGen, hidden,
                   escalated>>

(* The typing flag goes stale by its age: nothing is called. *)
SearchExpires ==
    /\ blocked
    /\ blocked' = FALSE
    /\ lapsed' = TRUE
    /\ UNCHANGED <<session, orch, gens, cooling, coordinator, health, hidden, passes,
                   started, escalated>>

WindowHides ==
    /\ ~hidden
    /\ hidden' = TRUE
    /\ UNCHANGED <<session, orch, gens, cooling, coordinator, health, blocked, passes,
                   started, lapsed, escalated>>

WindowShows ==
    /\ hidden
    /\ hidden' = FALSE
    /\ lapsed' = FALSE
    /\ runDriftRecovery(pending, FALSE, blocked)
    /\ UNCHANGED <<session, orch, gens, cooling, pending, lastRecoveryGen, blocked,
                   escalated>>

-----------------------------------------------------------------------------
(* The body of a pass.                                                     *)

Becomes(p, q) == passes' = (passes \ {p}) \cup {q}

(* hydrateSidecar resolved; when it restored something, the index changed. *)
PassHydrated(p) ==
    /\ p.pc = "hydrate"
    /\ \/ UNCHANGED <<gens, escalated>>
       \/ gens[p.orch] < MaxGen /\ gens' = Bumped(p.orch) /\ escalated' = 0
    /\ Becomes(p, [p EXCEPT !.pc = "warm"])
    /\ UNCHANGED <<session, orch, cooling, coordinator, health, hidden, blocked, started,
                   lapsed>>

(* warmCaches resolved: verifiedGen is taken, verifyCoherent begins. *)
PassWarmed(p) ==
    /\ p.pc = "warm"
    /\ Becomes(p, [p EXCEPT !.pc = "verify", !.verified = gens[p.orch]])
    /\ UNCHANGED <<session, orch, gens, cooling, coordinator, health, hidden, blocked,
                   started, lapsed, escalated>>

(* commitDriftHealth, or nothing; then the finally block.  The flags are   *)
(* those of the coordinator the pass belongs to.                           *)
Finish(p, commits, verdict, g) ==
    /\ passes' = passes \ {p}
    /\ health' = IF commits THEN verdict ELSE health
    /\ IF p.orch = orch
       THEN /\ running' = FALSE
            /\ pending' = (pending /\ p.session # session)
            /\ lastRecoveryGen' = IF commits THEN g ELSE lastRecoveryGen
       ELSE UNCHANGED coordinator
    /\ UNCHANGED <<session, orch, gens, cooling, hidden, blocked, started, lapsed,
                   escalated>>

(* A mutated form: the verdict is committed at whatever generation it is. *)
PassVerifiedAnyway(p, ok) ==
    /\ p.pc = "verify"
    /\ Finish(p, TRUE, IF ok THEN "healthy" ELSE "degraded", p.verified)

(* A mutated form: the reason is committed in place of the health. *)
PassVerifiedSwaps(p, ok) ==
    /\ p.pc = "verify"
    /\ Finish(p, gens[p.orch] = p.verified, IF ok THEN "healthy" ELSE "drift", p.verified)

(* verifyCoherent resolved with ok: a verdict, if the generation stood. *)
PassVerified(p, ok) ==
    /\ p.pc = "verify"
    /\ Finish(p, gens[p.orch] = p.verified, IF ok THEN "healthy" ELSE "degraded",
              p.verified)

(* A mutated form: no finally block on the way of an exception. *)
PassThrowsKeepsFlag(p) ==
    /\ passes' = passes \ {p}
    /\ health' = "degraded"
    /\ UNCHANGED <<session, orch, gens, cooling, coordinator, hidden, blocked, started,
                   lapsed, escalated>>

(* One of the three awaits rejected. *)
PassThrows(p) ==
    Finish(p, p.session = session /\ p.verified \in {Never, gens[p.orch]},
           "degraded", gens[p.orch])

-----------------------------------------------------------------------------

(* abortInflightSessionWork: the session ends, the flag is reset by hand,  *)
(* and with a hung writer the orchestrator is replaced.                    *)
Abort ==
    /\ session < MaxSession
    /\ session' = session + 1
    /\ running' = FALSE
    /\ \/ UNCHANGED <<orch, pending, lastRecoveryGen, cooling>>
       \/ /\ orch' = orch + 1
          /\ pending' = FALSE
          /\ lastRecoveryGen' = Never
          /\ cooling' = FALSE
    /\ UNCHANGED <<gens, health, hidden, blocked, passes, started, lapsed, escalated>>

PassStep ==
    \E p \in passes :
       \/ PassHydrated(p) \/ PassWarmed(p) \/ PassThrows(p)
       \/ \E ok \in BOOLEAN : PassVerified(p, ok)

DrNext ==
    \/ Drift \/ CooldownOver
    \/ \E o \in 0..orch : Mutation(o)
    \/ SearchBegins \/ SearchSettles \/ SearchExpires \/ WindowHides \/ WindowShows
    \/ PassStep
    \/ Abort

(* The awaits of a pass settle. *)
DrFairness == WF_drVars(PassStep)

DrSpec == DrInit /\ [][DrNext]_drVars /\ DrFairness

-----------------------------------------------------------------------------

(* "running and pending coalesce multiple rapid drift triggers into a      *)
(* single recovery pass": until a session is aborted under a pass, no two  *)
(* passes run at a time.                                                   *)
SingleFlight == session = 0 => \A p, q \in passes : p = q

(* The flag stands for the pass, until a session is aborted: it is set     *)
(* just while one is in flight.                                            *)
FlagIsPass == session = 0 => (running <=> passes # {})

(* A pass that is due and not under way is held back by the user (typing,  *)
(* a query in flight, a hidden window), or by typing that went stale with  *)
(* no wake-up since; no trigger and no wake-up drops it.                   *)
DueIsHeld == session = 0 /\ pending /\ ~running => hidden \/ blocked \/ lapsed

(* A verdict on the health is of the generation that was verified: when    *)
(* the index moved during the verify, the pass passes none.                *)
VerdictIsCurrent ==
    [][health' # health /\ health' # "recovering" =>
         \E p \in passes \ passes' : p.verified \in {Never, gens[p.orch]}]_drVars

(* A pass under way comes to its end and frees the flag.                   *)
PassEnds == running ~> ~running

-----------------------------------------------------------------------------
(* What the comments say, and the code does not keep.                      *)

(* coherence.ts: the generation "only advances on a real index mutation,   *)
(* so once we've escalated for a generation we don't escalate again until  *)
(* something actually changes".                                            *)
EscalatesOnce == escalated <= 1

(* drift-recovery-coordinator.ts: health goes from recovering to healthy   *)
(* or degraded; it is not left at recovering with no pass due.             *)
HealthSettles == health = "recovering" => running \/ pending

=============================================================================
