---------------------------- MODULE EmbedWorker ----------------------------
(***************************************************************************)
(* The long-lived worker of the iframe's production route: the promise     *)
(* that it is up, the calls that wait for its answer, and its death by a   *)
(* kill or by an error of its own.                                         *)
(***************************************************************************)
EXTENDS Naturals, FiniteSets

CONSTANTS WkCalls,      \* identities of calls
          MaxWorkers    \* bound: workers spawned

ASSUME EmbedWorkerAssumption == IsFiniteSet(WkCalls) /\ MaxWorkers \in Nat \ {0}

VARIABLES
  workers,             \* [1..MaxWorkers -> "unborn" | "starting" | "up" | "dead"]
  embedWorker,         \* the current one, 0 for null
  embedWorkerReady,    \* its promise: the worker, 0 for null
  embedWorkerPending,  \* calls posted to a worker and not settled
  wk                   \* [WkCalls -> [step, worker]]

wkVars == <<workers, embedWorker, embedWorkerReady, embedWorkerPending, wk>>

WkInit ==
  /\ workers = [w \in 1..MaxWorkers |-> "unborn"]
  /\ embedWorker = 0 /\ embedWorkerReady = 0
  /\ embedWorkerPending = {}
  /\ wk = [c \in WkCalls |-> [step |-> "idle", worker |-> 0]]

Fail(c) == [wk EXCEPT ![c] = [step |-> "idle", worker |-> 0]]

\* getEmbedWorker, and the wait of embedWorkerRpc for the promise.  With a
\* worker and no promise the call fails on the null.
EmbedWorkerRpc(c) ==
  /\ wk[c].step = "idle"
  /\ IF embedWorker # 0
     THEN /\ wk' = IF embedWorkerReady = 0 THEN Fail(c)
                   ELSE [wk EXCEPT ![c] = [step |-> "ready", worker |-> embedWorkerReady]]
          /\ UNCHANGED <<workers, embedWorker, embedWorkerReady>>
     ELSE \E w \in 1..MaxWorkers :
          /\ workers[w] = "unborn" /\ \A v \in 1..(w - 1) : workers[v] # "unborn"
          /\ workers' = [workers EXCEPT ![w] = "starting"]
          /\ embedWorker' = w /\ embedWorkerReady' = w
          /\ wk' = [wk EXCEPT ![c] = [step |-> "ready", worker |-> w]]
  /\ UNCHANGED embedWorkerPending

WorkerReady(w) ==
  /\ workers[w] = "starting"
  /\ workers' = [workers EXCEPT ![w] = "up"]
  /\ UNCHANGED <<embedWorker, embedWorkerReady, embedWorkerPending, wk>>

\* The promise resolves with its worker, which may be dead by now.
PostToWorker(c) ==
  /\ wk[c].step = "ready" /\ workers[wk[c].worker] \in {"up", "dead"}
  /\ embedWorkerPending' = embedWorkerPending \cup {c}
  /\ wk' = [wk EXCEPT ![c].step = "posted"]
  /\ UNCHANGED <<workers, embedWorker, embedWorkerReady>>

\* The worker answers, or the timer of the call ends it.
WorkerCallEnds(c, answered) ==
  /\ wk[c].step = "posted" /\ c \in embedWorkerPending
  /\ answered => workers[wk[c].worker] = "up"
  /\ embedWorkerPending' = embedWorkerPending \ {c}
  /\ wk' = Fail(c)
  /\ UNCHANGED <<workers, embedWorker, embedWorkerReady>>

\* A mutated form: the references are dropped and the worker is not terminated.
DropEmbedWorker ==
  /\ embedWorker' = 0 /\ embedWorkerReady' = 0
  /\ embedWorkerPending' = {}
  /\ wk' = [c \in WkCalls |-> IF c \in embedWorkerPending THEN [step |-> "idle", worker |-> 0]
                                                         ELSE wk[c]]
  /\ UNCHANGED workers

\* killEmbedWorker.  With a promise there is, it calls the promise: a TypeError,
\* and nothing after the promise is reset.
KillEmbedWorker ==
  IF embedWorkerReady # 0
  THEN /\ embedWorkerReady' = 0
       /\ UNCHANGED <<workers, embedWorker, embedWorkerPending, wk>>
  ELSE /\ embedWorker' = 0
       /\ embedWorkerPending' = {}
       /\ wk' = [c \in WkCalls |-> IF c \in embedWorkerPending THEN [step |-> "idle", worker |-> 0]
                                                              ELSE wk[c]]
       /\ workers' = [w \in 1..MaxWorkers |-> IF w = embedWorker THEN "dead" ELSE workers[w]]
       /\ UNCHANGED embedWorkerReady

\* onerror kills, and the worker's own promise stays as it is.
WorkerError(w) ==
  /\ workers[w] \in {"starting", "up"}
  /\ KillEmbedWorker

WkNext ==
  \/ KillEmbedWorker
  \/ \E w \in 1..MaxWorkers : WorkerReady(w) \/ WorkerError(w)
  \/ \E c \in WkCalls :
       \/ EmbedWorkerRpc(c) \/ PostToWorker(c)
       \/ \E answered \in BOOLEAN : WorkerCallEnds(c, answered)

WkSpec == WkInit /\ [][WkNext]_wkVars

-----------------------------------------------------------------------------
Alive == {w \in 1..MaxWorkers : workers[w] \in {"starting", "up"}}

(***************************************************************************)
(* There is one worker at most, the one that is known; a promise is of a   *)
(* worker that lives; and every call that waits for an answer is one that  *)
(* the table can settle.                                                   *)
(***************************************************************************)
WorkerKnown ==
  /\ embedWorkerPending \subseteq WkCalls
  /\ \A w \in Alive : w = embedWorker
  /\ embedWorkerReady # 0 => embedWorkerReady = embedWorker
  /\ \A c \in WkCalls : wk[c].step = "posted" <=> c \in embedWorkerPending

(***************************************************************************)
(* A kill that the parent was told of leaves no worker behind: the next    *)
(* call starts a fresh one.                                                *)
(***************************************************************************)
WorkerKilled == [][embedWorkerReady # 0 /\ embedWorkerReady' = 0 => Alive' = {}]_wkVars
=============================================================================
