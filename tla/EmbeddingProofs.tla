-------------------------- MODULE EmbeddingProofs --------------------------
(***************************************************************************)
(* The embedding layer for every number of calls, workers, runners, loads  *)
(* and devices: no second worker and no second iframe lives beside the     *)
(* one that is known, a model load falls back to the right device, and no  *)
(* two batches are in the model of the iframe together.                    *)
(***************************************************************************)
EXTENDS Embedder, ModelLoad, EmbedWorker, IframeRpc,
        SequenceTheorems, FiniteSetTheorems, TLAPS

-----------------------------------------------------------------------------
(* The worker of the WASM path (EmbedWorker).                              *)

WkTypes ==
  /\ workers \in [1..MaxWorkers -> {"unborn", "starting", "up", "dead"}]
  /\ embedWorker \in 0..MaxWorkers /\ embedWorkerReady \in 0..MaxWorkers
  /\ wk \in [WkCalls -> [step : {"idle", "ready", "posted"}, worker : 0..MaxWorkers]]
  /\ \A c \in WkCalls : wk[c].step # "idle" => wk[c].worker \in 1..MaxWorkers

WkInv == WkTypes /\ WorkerKnown

LEMMA WkInitInv == WkInit => WkInv
  BY EmbedWorkerAssumption DEF WkInit, WkInv, WkTypes, WorkerKnown, Alive

(* A kill ends the only worker that lives, or only the promise. *)
LEMMA KillKeeps ==
  ASSUME WkInv, KillEmbedWorker
  PROVE  WkInv'
  <1>1. CASE embedWorkerReady # 0
    <2>1. embedWorkerReady' = 0 /\ UNCHANGED <<workers, embedWorker, embedWorkerPending, wk>>
      BY <1>1 DEF KillEmbedWorker
    <2>2. WkTypes'
      BY <2>1, EmbedWorkerAssumption DEF WkInv, WkTypes
    <2>3. WorkerKnown'
      BY <2>1 DEF WkInv, WorkerKnown, Alive
    <2> QED
      BY <2>2, <2>3 DEF WkInv
  <1>2. CASE embedWorkerReady = 0
    <2>1. WkTypes'
      BY <1>2 DEF KillEmbedWorker, WkInv, WkTypes, WorkerKnown
    <2>2. Alive' = {}
      BY <1>2 DEF KillEmbedWorker, WkInv, WkTypes, WorkerKnown, Alive
    <2>3. \A c \in WkCalls : wk'[c].step = "posted" <=> c \in embedWorkerPending'
      BY <1>2 DEF KillEmbedWorker, WkInv, WkTypes, WorkerKnown
    <2> QED
      BY <1>2, <2>1, <2>2, <2>3 DEF KillEmbedWorker, WkInv, WorkerKnown
  <1> QED
    BY <1>1, <1>2

(* A worker is spawned when none is known, so when none lives. *)
LEMMA RpcKeeps ==
  ASSUME WkInv, NEW c \in WkCalls, EmbedWorkerRpc(c)
  PROVE  WkInv'
  <1>1. CASE embedWorker # 0
    BY <1>1 DEF EmbedWorkerRpc, Fail, WkInv, WkTypes, WorkerKnown, Alive
  <1>2. CASE embedWorker = 0
    <2>1. Alive = {}
      BY <1>2 DEF WkInv, WorkerKnown, Alive
    <2>2. PICK w \in 1..MaxWorkers :
             /\ workers[w] = "unborn"
             /\ workers' = [workers EXCEPT ![w] = "starting"]
             /\ embedWorker' = w /\ embedWorkerReady' = w
             /\ wk' = [wk EXCEPT ![c] = [step |-> "ready", worker |-> w]]
      BY <1>2 DEF EmbedWorkerRpc
    <2>3. wk[c].step = "idle" /\ embedWorkerPending' = embedWorkerPending
      BY DEF EmbedWorkerRpc
    <2>4. WkTypes'
      BY <2>2 DEF WkInv, WkTypes
    <2>5. Alive' = {w}
      BY <2>1, <2>2 DEF Alive, WkInv, WkTypes
    <2> QED
      BY <2>2, <2>3, <2>4, <2>5 DEF WkInv, WkTypes, WorkerKnown
  <1> QED
    BY <1>1, <1>2

LEMMA WkNextKeeps == WkInv /\ [WkNext]_wkVars => WkInv'
  <1> SUFFICES ASSUME WkInv, [WkNext]_wkVars PROVE WkInv'
    OBVIOUS
  <1>1. CASE KillEmbedWorker
    BY <1>1, KillKeeps
  <1>2. ASSUME NEW w \in 1..MaxWorkers, WorkerReady(w) PROVE WkInv'
    BY <1>2 DEF WorkerReady, WkInv, WkTypes, WorkerKnown, Alive
  <1>3. ASSUME NEW w \in 1..MaxWorkers, WorkerError(w) PROVE WkInv'
    BY <1>3, KillKeeps DEF WorkerError
  <1>4. ASSUME NEW c \in WkCalls, EmbedWorkerRpc(c) PROVE WkInv'
    BY <1>4, RpcKeeps
  <1>5. ASSUME NEW c \in WkCalls, PostToWorker(c) PROVE WkInv'
    BY <1>5 DEF PostToWorker, WkInv, WkTypes, WorkerKnown, Alive
  <1>6. ASSUME NEW c \in WkCalls, NEW answered \in BOOLEAN, WorkerCallEnds(c, answered)
        PROVE  WkInv'
    BY <1>6, EmbedWorkerAssumption DEF WorkerCallEnds, Fail, WkInv, WkTypes, WorkerKnown, Alive
  <1>7. CASE UNCHANGED wkVars
    <2>1. UNCHANGED <<workers, embedWorker, embedWorkerReady, embedWorkerPending, wk>>
      BY <1>7 DEF wkVars
    <2>2. WkTypes'
      BY <2>1 DEF WkInv, WkTypes
    <2>3. WorkerKnown'
      BY <2>1 DEF WkInv, WorkerKnown, Alive
    <2> QED
      BY <2>2, <2>3 DEF WkInv
  <1> QED
    BY <1>1, <1>2, <1>3, <1>4, <1>5, <1>6, <1>7 DEF WkNext

(* WorkerKnown: for any number of calls and of workers spawned, kills and  *)
(* errors included, no worker lives but the one embedder.ts holds, and the *)
(* table of pending calls is the calls that were posted.                   *)
THEOREM OneWorkerLives == WkSpec => []WorkerKnown
  <1>1. WkSpec => []WkInv
    BY WkInitInv, WkNextKeeps, PTL DEF WkSpec
  <1>2. WkInv => WorkerKnown
    BY DEF WkInv
  <1> QED
    BY <1>1, <1>2, PTL

-----------------------------------------------------------------------------
(* The model load inside the iframe (ModelLoad).                           *)

Devices   == {"none", "webgpu", "wasm"}
WasmSteps == {"proxy", "page", "nosimd"}
Opened    == {"warmup", "returned", "done"}

MlCall ==
  [step : {"idle", "webgpu", "failed"} \cup WasmSteps \cup Opened,
   req : {"webgpu", "wasm", "auto"}, gpuTried : BOOLEAN, rung : 0..2, gen : Nat,
   device : Devices]

Instance == [glue : {"plain", "asyncify", "jspi"}, poisoned : BOOLEAN]

MlTypes ==
  /\ wasmWorks \in BOOLEAN
  /\ ml \in [MlLoads -> MlCall]
  /\ instances \in Seq(Instance)
  /\ pipeline.device \in Devices
  /\ currentDevice \in Devices

(* What a call knows of itself: where it may be with the device it asked   *)
(* for, and that the ladder of dtypes is behind a call that left WebGPU.   *)
LadderDone(m) == m.gpuTried /\ GpuApi => m.rung = 2

Sound(m) ==
  /\ m.step = "idle" => ~m.gpuTried
  /\ m.step \in {"webgpu", "warmup"} => m.req # "wasm"
  /\ m.step \in WasmSteps => m.req # "webgpu" /\ LadderDone(m)
  /\ m.step \in Opened => m.device # "none" /\ m.req \in {m.device, "auto"}
  /\ m.step = "warmup" => m.device = "webgpu"
  /\ m.step \in Opened /\ m.device = "wasm" => LadderDone(m)
  /\ m.step = "failed" => m.req = "webgpu" \/ ~wasmWorks

(* The instance of an attempt is its own, has not failed, and has the      *)
(* kernels that a WASM session needs.                                      *)
OnItsOwn(c) ==
  /\ ml[c].gen \in 0..Len(instances)
  /\ \A d \in MlLoads \ {c} : ml[c].gen # 0 => ml[d].gen # ml[c].gen
  /\ ml[c].step \in {"webgpu"} \cup WasmSteps =>
       ml[c].gen # 0 /\ ~instances[ml[c].gen].poisoned
  /\ ml[c].step \in WasmSteps => instances[ml[c].gen].glue = "plain"

(* A load that overlapped no other.                                        *)
Alone(c) == \A d \in MlLoads \ {c} : ml[d].step = "idle"

AloneOK(c) ==
  Alone(c) =>
    /\ ml[c].step \in Opened => pipeline.device = ml[c].device /\ pipeline.by = c
    /\ ml[c].step = "done" => currentDevice = ml[c].device

MlInv ==
  /\ MlTypes
  /\ \A c \in MlLoads : Sound(ml[c]) /\ OnItsOwn(c) /\ AloneOK(c)

LEMMA MlInvImplies == MlInv => ModelFallsBack
  BY DEF MlInv, MlTypes, MlCall, Sound, LadderDone, AloneOK, Alone, Opened, Devices, WasmSteps,
         ModelFallsBack, WEBGPU_DTYPE_LADDER

LEMMA MlInitInv == MlInit => MlInv
  <1> SUFFICES ASSUME MlInit PROVE MlInv
    OBVIOUS
  <1>1. MlTypes
    BY DEF MlInit, MlTypes, MlCall, Devices, NoPipeline
  <1>2. \A c \in MlLoads : Sound(ml[c]) /\ OnItsOwn(c) /\ AloneOK(c)
    BY DEF MlInit, Sound, OnItsOwn, AloneOK, WasmSteps, Opened
  <1> QED
    BY <1>1, <1>2 DEF MlInv

(* What an attempt does to the instances: one more, unspoilt, and at most  *)
(* the last one of the same call, old, spoilt.                             *)
Grown(old, glue) ==
  /\ instances' \in Seq(Instance) /\ Len(instances') = Len(instances) + 1
  /\ instances'[Len(instances) + 1] = [glue |-> glue, poisoned |-> FALSE]
  /\ \A g \in 1..Len(instances) : g # old => instances'[g] = instances[g]

LEMMA Attempted ==
  ASSUME MlInv, NEW c \in MlLoads, NEW m \in MlCall, m.gen = ml[c].gen,
         NEW step \in {"webgpu"} \cup WasmSteps,
         NEW glue \in {"plain", "asyncify", "jspi"}, Attempt(c, m, step, glue)
  PROVE  Grown(m.gen, glue)
  <1> DEFINE spoilt == IF m.gen = 0 THEN instances
                       ELSE [instances EXCEPT ![m.gen].poisoned = TRUE]
             n == Len(instances)
  <1>1. instances \in Seq(Instance) /\ n \in Nat
    BY DEF MlInv, MlTypes
  <1>2. m.gen \in 0..n
    BY DEF MlInv, OnItsOwn
  <1>3. spoilt \in Seq(Instance) /\ Len(spoilt) = n
        /\ \A g \in 1..n : g # m.gen => spoilt[g] = instances[g]
    <2>1. CASE m.gen = 0
      BY <1>1, <2>1
    <2>2. CASE m.gen # 0
      <3>1. m.gen \in 1..n /\ instances[m.gen] \in Instance
        BY <1>1, <1>2, <2>2
      <3>2. [instances[m.gen] EXCEPT !.poisoned = TRUE] \in Instance
        BY <3>1 DEF Instance
      <3>3. spoilt = [instances EXCEPT ![m.gen] = [instances[m.gen] EXCEPT !.poisoned = TRUE]]
        BY <2>2
      <3> QED
        BY <1>1, <3>1, <3>2, <3>3
    <2> QED
      BY <2>1, <2>2
  <1>4. /\ ml' = [ml EXCEPT ![c] = [m EXCEPT !.step = step, !.gen = n + 1]]
        /\ instances' = Append(spoilt, [glue |-> glue, poisoned |-> FALSE])
    BY <1>1 DEF Attempt, FreshTransformers
  <1>5. [glue |-> glue, poisoned |-> FALSE] \in Instance
    BY DEF Instance
  <1> HIDE DEF spoilt
  <1> QED
    BY <1>1, <1>3, <1>4, <1>5 DEF Grown

(* So an attempt keeps the invariant when the call it is made for stays    *)
(* sound.                                                                  *)
LEMMA AttemptKeeps ==
  ASSUME MlInv, NEW c \in MlLoads, NEW m \in MlCall, m.gen = ml[c].gen,
         NEW step \in {"webgpu"} \cup WasmSteps, NEW glue \in {"plain", "asyncify", "jspi"},
         step \in WasmSteps => glue = "plain",
         Sound([m EXCEPT !.step = step]),
         Attempt(c, m, step, glue), UNCHANGED <<wasmWorks, pipeline, currentDevice>>
  PROVE  MlInv'
  <1> DEFINE n == Len(instances)
  <1>1. /\ ml' = [ml EXCEPT ![c] = [m EXCEPT !.step = step, !.gen = n + 1]]
        /\ instances' \in Seq(Instance) /\ Len(instances') = n + 1
        /\ instances'[n + 1] = [glue |-> glue, poisoned |-> FALSE]
        /\ \A g \in 1..n : g # m.gen => instances'[g] = instances[g]
    <2>1. Grown(m.gen, glue)
      BY Attempted
    <2> QED
      BY <2>1 DEF Grown, Attempt, FreshTransformers
  <1>2. n \in Nat /\ ml \in [MlLoads -> MlCall]
    BY DEF MlInv, MlTypes
  <1>3. ml'[c] \in MlCall
    <2>1. step \in {"idle", "webgpu", "failed"} \cup WasmSteps \cup Opened /\ n + 1 \in Nat
      BY <1>2
    <2>2. [m EXCEPT !.step = step, !.gen = n + 1] \in MlCall
      BY <2>1 DEF MlCall
    <2> QED
      BY <1>1, <1>2, <2>2
  <1>4. MlTypes'
    BY <1>1, <1>2, <1>3 DEF MlInv, MlTypes
  <1>5. ASSUME NEW d \in MlLoads PROVE Sound(ml[d])'
    <2>1. CASE d = c
      BY <1>1, <1>2, <2>1 DEF Sound, LadderDone, MlCall, WasmSteps
    <2>2. CASE d # c
      <3>1. Sound(ml[d])
        BY DEF MlInv
      <3>2. ml'[d] = ml[d]
        BY <1>1, <1>2, <2>2
      <3> QED
        BY <3>1, <3>2 DEF Sound, LadderDone
    <2> QED
      BY <2>1, <2>2
  <1>6. ASSUME NEW d \in MlLoads PROVE OnItsOwn(d)'
    <2>1. \A e \in MlLoads : ml[e].gen \in 0..n
      BY DEF MlInv, OnItsOwn
    <2>2. CASE d = c
      <3>1. ml'[d].gen = n + 1 /\ ml'[d].step = step
        BY <1>1, <1>2, <2>2 DEF MlCall
      <3>2. \A e \in MlLoads \ {d} : ml'[e].gen # n + 1
        BY <1>1, <1>2, <2>1, <2>2
      <3> QED
        BY <1>1, <1>2, <3>1, <3>2 DEF OnItsOwn
    <2>3. CASE d # c
      <3>1. ml'[d] = ml[d]
        BY <1>1, <1>2, <2>3
      <3>2. ml'[c].gen = n + 1
        BY <1>1, <1>2 DEF MlCall
      <3>3. \A e \in MlLoads \ {d} : ml'[d].gen # 0 => ml'[e].gen # ml'[d].gen
        BY <1>1, <1>2, <2>1, <2>3, <3>1, <3>2 DEF MlInv, OnItsOwn
      <3>4. ml[d].gen # 0 => ml[d].gen # m.gen
        BY <2>3 DEF MlInv, OnItsOwn
      <3>5. ml[d].gen # 0 => instances'[ml[d].gen] = instances[ml[d].gen]
        BY <1>1, <2>1, <3>4
      <3> QED
        BY <1>1, <1>2, <2>1, <3>1, <3>3, <3>5 DEF MlInv, OnItsOwn, WasmSteps
    <2> QED
      BY <2>2, <2>3
  <1>7. ASSUME NEW d \in MlLoads PROVE AloneOK(d)'
    <2>1. ml'[c].step = step /\ step # "idle" /\ step \notin Opened
      BY <1>1, <1>2 DEF MlCall, WasmSteps, Opened
    <2>2. CASE d = c
      BY <2>1, <2>2 DEF AloneOK, Opened
    <2>3. CASE d # c
      BY <2>1, <2>3 DEF AloneOK, Alone
    <2> QED
      BY <2>2, <2>3
  <1> QED
    BY <1>4, <1>5, <1>6, <1>7 DEF MlInv

(* The WASM leg begins sound: the call may use WASM, and its ladder is     *)
(* behind it.                                                              *)
LEMMA BeginWasmKeeps ==
  ASSUME MlInv, NEW c \in MlLoads, NEW m \in MlCall, m.gen = ml[c].gen,
         m.req # "webgpu", LadderDone(m),
         BeginWasm(c, m), UNCHANGED <<wasmWorks, pipeline, currentDevice>>
  PROVE  MlInv'
  <1>1. OverrideGlueForWasm(PinnedGlue) = "plain"
    BY DEF OverrideGlueForWasm, PinnedGlue
  <1>2. Attempt(c, m, "proxy", "plain")
    BY <1>1 DEF BeginWasm
  <1>3. Sound([m EXCEPT !.step = "proxy"])
    BY DEF Sound, LadderDone, MlCall, WasmSteps, Opened
  <1>4. "proxy" \in {"webgpu"} \cup WasmSteps
    BY DEF WasmSteps
  <1> QED
    BY <1>2, <1>3, <1>4, AttemptKeeps

(* A call that leaves its attempts behind: only what it knows of itself,   *)
(* and what it may say of the pipeline when it is alone, is to be shown.   *)
LEMMA SettleKeeps ==
  ASSUME MlInv, NEW c \in MlLoads, NEW m \in MlCall, m.gen = ml[c].gen, Sound(m),
         m.step \in {"failed"} \cup Opened, ml' = [ml EXCEPT ![c] = m],
         UNCHANGED <<instances, wasmWorks>>,
         pipeline'.device \in Devices, currentDevice' \in Devices, AloneOK(c)'
  PROVE  MlInv'
  <1>1. MlTypes'
    BY DEF MlInv, MlTypes
  <1>2. ml'[c] = m /\ \A d \in MlLoads \ {c} : ml'[d] = ml[d]
    BY DEF MlInv, MlTypes
  <1>3. \A d \in MlLoads : Sound(ml[d])'
    BY <1>2 DEF MlInv, Sound, LadderDone
  <1>4. \A d \in MlLoads : OnItsOwn(d)'
    BY <1>2 DEF MlInv, OnItsOwn, WasmSteps, Opened
  <1>5. ASSUME NEW d \in MlLoads \ {c} PROVE AloneOK(d)'
    BY <1>2 DEF AloneOK, Alone, Opened
  <1> QED
    BY <1>1, <1>3, <1>4, <1>5 DEF MlInv

(* The WebGPU leg is over: a forced device fails, and that is no fault.    *)
LEMMA WebgpuFailedKeeps ==
  ASSUME MlInv, NEW c \in MlLoads, NEW m \in MlCall, m.gen = ml[c].gen,
         LadderDone(m),
         WebgpuFailed(c, m), UNCHANGED <<wasmWorks, pipeline, currentDevice>>
  PROVE  MlInv'
  <1>1. CASE m.req # "webgpu"
    BY <1>1, BeginWasmKeeps DEF WebgpuFailed
  <1>2. CASE m.req = "webgpu"
    <2> DEFINE f == [m EXCEPT !.step = "failed"]
    <2>1. ml' = [ml EXCEPT ![c] = f] /\ UNCHANGED <<instances, wasmWorks, pipeline, currentDevice>>
      BY <1>2 DEF WebgpuFailed
    <2>2. f \in MlCall /\ f.step = "failed" /\ f.gen = ml[c].gen /\ f.req = "webgpu"
      BY <1>2 DEF MlCall
    <2>3. Sound(f)
      BY <2>2 DEF Sound, WasmSteps, Opened
    <2> HIDE DEF f
    <2>4. AloneOK(c)'
      BY <2>1, <2>2 DEF MlInv, MlTypes, AloneOK, Opened
    <2>5. pipeline'.device \in Devices /\ currentDevice' \in Devices
      BY <2>1 DEF MlInv, MlTypes
    <2> QED
      BY <2>1, <2>2, <2>3, <2>4, <2>5, SettleKeeps
  <1> QED
    BY <1>1, <1>2

LEMMA TryWebgpuKeeps ==
  ASSUME MlInv, NEW c \in MlLoads, NEW m \in MlCall, m.gen = ml[c].gen,
         m.req # "wasm", NEW rung \in 1..2,
         TryWebgpu(c, m, rung), UNCHANGED <<wasmWorks, pipeline, currentDevice>>
  PROVE  MlInv'
  <1> DEFINE n == [m EXCEPT !.rung = rung]
  <1>1. OverrideWebkitGlueForWebgpu(PinnedGlue) \in {"plain", "asyncify", "jspi"}
    BY DEF OverrideWebkitGlueForWebgpu, PinnedGlue
  <1>2. n \in MlCall /\ n.gen = m.gen /\ n.req = m.req
    BY DEF MlCall
  <1>3. Sound([n EXCEPT !.step = "webgpu"])
    BY <1>2 DEF Sound, MlCall, WasmSteps, Opened
  <1>4. "webgpu" \in {"webgpu"} \cup WasmSteps /\ "webgpu" \notin WasmSteps
    BY DEF WasmSteps
  <1>5. Attempt(c, n, "webgpu", OverrideWebkitGlueForWebgpu(PinnedGlue))
    BY DEF TryWebgpu
  <1> HIDE DEF n
  <1> QED
    BY <1>1, <1>2, <1>3, <1>4, <1>5, AttemptKeeps

LEMMA LoadModelKeeps ==
  ASSUME MlInv, NEW c \in MlLoads, NEW req \in {"webgpu", "wasm", "auto"}, LoadModel(c, req)
  PROVE  MlInv'
  <1> DEFINE m == [ml[c] EXCEPT !.req = req]
             t == [m EXCEPT !.gpuTried = TRUE]
  <1>1. ml[c] \in MlCall
    BY DEF MlInv, MlTypes
  <1>2. m \in MlCall /\ m.gen = ml[c].gen /\ m.req = req
    BY <1>1 DEF MlCall
  <1>3. t \in MlCall /\ t.gen = ml[c].gen /\ t.req = req
    BY <1>2 DEF MlCall
  <1>4. \/ req # "wasm" /\ GpuApi /\ TryWebgpu(c, t, 1)
        \/ req # "wasm" /\ ~GpuApi /\ WebgpuFailed(c, t)
        \/ req = "wasm" /\ BeginWasm(c, m)
    BY DEF LoadModel
  <1>5. UNCHANGED <<wasmWorks, pipeline, currentDevice>>
    BY DEF LoadModel
  <1>6. ~ml[c].gpuTried
    BY DEF LoadModel, MlInv, Sound
  <1>7. LadderDone(m)
    BY <1>1, <1>6 DEF LadderDone, MlCall
  <1>8. ~GpuApi => LadderDone(t)
    BY DEF LadderDone
  <1> HIDE DEF m, t
  <1> QED
    BY <1>2, <1>3, <1>4, <1>5, <1>7, <1>8, TryWebgpuKeeps, WebgpuFailedKeeps, BeginWasmKeeps

LEMMA RungFailsKeeps ==
  ASSUME MlInv, NEW c \in MlLoads, WebgpuRungFails(c)
  PROVE  MlInv'
  <1>1. ml[c] \in MlCall /\ ml[c].rung \in 0..2 /\ Sound(ml[c])
    BY DEF MlInv, MlTypes, MlCall
  <1>2. UNCHANGED <<wasmWorks, pipeline, currentDevice>> /\ ml[c].req # "wasm"
    BY <1>1 DEF WebgpuRungFails, Sound
  <1>3. CASE ml[c].rung = 2
    <2>1. WebgpuFailed(c, ml[c])
      BY <1>3 DEF WebgpuRungFails, WEBGPU_DTYPE_LADDER
    <2>2. LadderDone(ml[c])
      BY <1>3 DEF LadderDone
    <2> QED
      BY <1>1, <1>2, <2>1, <2>2, WebgpuFailedKeeps
  <1>4. CASE ml[c].rung # 2
    <2>1. TryWebgpu(c, ml[c], ml[c].rung + 1)
      BY <1>4 DEF WebgpuRungFails, WEBGPU_DTYPE_LADDER
    <2>2. ml[c].rung + 1 \in 1..2
      BY <1>1, <1>4
    <2> QED
      BY <1>1, <1>2, <2>1, <2>2, TryWebgpuKeeps
  <1> QED
    BY <1>3, <1>4

LEMMA WebgpuOpensKeeps ==
  ASSUME MlInv, NEW c \in MlLoads, WebgpuOpens(c)
  PROVE  MlInv'
  <1> DEFINE m == [ml[c] EXCEPT !.step = "warmup", !.device = "webgpu"]
  <1>1. ml[c] \in MlCall /\ Sound(ml[c]) /\ ml[c].step = "webgpu"
    BY DEF MlInv, MlTypes, WebgpuOpens
  <1>2. ml' = [ml EXCEPT ![c] = m] /\ UNCHANGED <<instances, wasmWorks, currentDevice>>
        /\ pipeline' = [device |-> "webgpu", by |-> c]
    BY DEF WebgpuOpens
  <1>3. m \in MlCall /\ m.gen = ml[c].gen /\ m.step = "warmup" /\ m.device = "webgpu"
        /\ m.req = ml[c].req
    BY <1>1 DEF MlCall, Opened, Devices
  <1>4. Sound(m)
    BY <1>1, <1>3 DEF Sound, WasmSteps, Opened, MlCall
  <1> HIDE DEF m
  <1>5. AloneOK(c)'
    BY <1>2, <1>3 DEF MlInv, MlTypes, AloneOK
  <1>6. pipeline'.device \in Devices /\ currentDevice' \in Devices
    BY <1>2 DEF MlInv, MlTypes, Devices
  <1> QED
    BY <1>2, <1>3, <1>4, <1>5, <1>6, SettleKeeps DEF Opened

(* WASM opens only where the call may use it. *)
LEMMA WasmOpensKeeps ==
  ASSUME MlInv, NEW c \in MlLoads, WasmOpens(c)
  PROVE  MlInv'
  <1> DEFINE m == [ml[c] EXCEPT !.step = "returned", !.device = "wasm"]
  <1>1. ml[c] \in MlCall /\ Sound(ml[c]) /\ ml[c].step \in WasmSteps
    BY DEF MlInv, MlTypes, WasmOpens, WasmSteps
  <1>2. ml' = [ml EXCEPT ![c] = m] /\ UNCHANGED <<instances, wasmWorks, currentDevice>>
        /\ pipeline' = [device |-> "wasm", by |-> c]
    BY DEF WasmOpens
  <1>3. m \in MlCall /\ m.gen = ml[c].gen /\ m.step = "returned" /\ m.device = "wasm"
        /\ m.req = ml[c].req /\ m.gpuTried = ml[c].gpuTried /\ m.rung = ml[c].rung
    BY <1>1 DEF MlCall, Opened, Devices
  <1>4. Sound(m)
    BY <1>1, <1>3 DEF Sound, LadderDone, WasmSteps, Opened, MlCall
  <1> HIDE DEF m
  <1>5. AloneOK(c)'
    BY <1>2, <1>3 DEF MlInv, MlTypes, AloneOK
  <1>6. pipeline'.device \in Devices /\ currentDevice' \in Devices
    BY <1>2 DEF MlInv, MlTypes, Devices
  <1> QED
    BY <1>2, <1>3, <1>4, <1>5, <1>6, SettleKeeps DEF Opened

LEMMA WarmupEndsKeeps ==
  ASSUME MlInv, NEW c \in MlLoads, WarmupEnds(c)
  PROVE  MlInv'
  <1> DEFINE m == [ml[c] EXCEPT !.step = "returned"]
  <1>1. ml[c] \in MlCall /\ Sound(ml[c]) /\ ml[c].step = "warmup"
    BY DEF MlInv, MlTypes, WarmupEnds
  <1>2. ml' = [ml EXCEPT ![c] = m] /\ UNCHANGED <<instances, wasmWorks, pipeline, currentDevice>>
    BY DEF WarmupEnds
  <1>3. m \in MlCall /\ m.gen = ml[c].gen /\ m.step = "returned" /\ m.device = ml[c].device
        /\ m.req = ml[c].req
    BY <1>1 DEF MlCall, Opened
  <1>4. Sound(m)
    BY <1>1, <1>3 DEF Sound, WasmSteps, Opened
  <1> HIDE DEF m
  <1>5. AloneOK(c)'
    BY <1>1, <1>2, <1>3 DEF MlInv, MlTypes, AloneOK, Alone, Opened
  <1>6. pipeline'.device \in Devices /\ currentDevice' \in Devices
    BY <1>2 DEF MlInv, MlTypes
  <1> QED
    BY <1>2, <1>3, <1>4, <1>5, <1>6, SettleKeeps DEF Opened

LEMMA AnsweredKeeps ==
  ASSUME MlInv, NEW c \in MlLoads, Answered(c)
  PROVE  MlInv'
  <1> DEFINE m == [ml[c] EXCEPT !.step = "done"]
  <1>1. ml[c] \in MlCall /\ Sound(ml[c]) /\ ml[c].step = "returned"
    BY DEF MlInv, MlTypes, Answered
  <1>2. /\ ml' = [ml EXCEPT ![c] = m] /\ UNCHANGED <<instances, wasmWorks, pipeline>>
        /\ currentDevice' = ml[c].device
    BY DEF Answered
  <1>3. m \in MlCall /\ m.gen = ml[c].gen /\ m.step = "done" /\ m.device = ml[c].device
        /\ m.req = ml[c].req /\ m.gpuTried = ml[c].gpuTried /\ m.rung = ml[c].rung
    BY <1>1 DEF MlCall, Opened
  <1>4. Sound(m)
    BY <1>1, <1>3 DEF Sound, LadderDone, WasmSteps, Opened
  <1> HIDE DEF m
  <1>5. AloneOK(c)'
    BY <1>1, <1>2, <1>3 DEF MlInv, MlTypes, AloneOK, Alone, Opened
  <1>6. pipeline'.device \in Devices /\ currentDevice' \in Devices
    BY <1>1, <1>2 DEF MlInv, MlTypes, MlCall
  <1> QED
    BY <1>2, <1>3, <1>4, <1>5, <1>6, SettleKeeps DEF Opened

(* A session that could open on the instance at hand fails only where WASM *)
(* does not work: the instance is unspoilt and its glue is plain.          *)
LEMMA LastFailure ==
  ASSUME MlInv, NEW c \in MlLoads, ml[c].step \in WasmSteps,
         ~(wasmWorks /\ Chance(ml[c].gen, "wasm")),
         ml' = [ml EXCEPT ![c] = [ml[c] EXCEPT !.step = "failed"]],
         UNCHANGED <<wasmWorks, instances, pipeline, currentDevice>>
  PROVE  MlInv'
  <1> DEFINE m == [ml[c] EXCEPT !.step = "failed"]
  <1>1. ~wasmWorks
    BY DEF MlInv, OnItsOwn, WasmSteps, Chance
  <1>2. m \in MlCall /\ m.gen = ml[c].gen /\ m.step = "failed"
    BY DEF MlInv, MlTypes, MlCall
  <1>3. Sound(m)
    BY <1>1, <1>2 DEF Sound, WasmSteps, Opened
  <1>4. ml' = [ml EXCEPT ![c] = m]
    OBVIOUS
  <1> HIDE DEF m
  <1>5. AloneOK(c)'
    BY <1>2, <1>4 DEF MlInv, MlTypes, AloneOK, Opened
  <1>6. pipeline'.device \in Devices /\ currentDevice' \in Devices
    BY DEF MlInv, MlTypes
  <1> QED
    BY <1>2, <1>3, <1>4, <1>5, <1>6, SettleKeeps

(* From one WASM attempt to the next.                                      *)
LEMMA NextWasmKeeps ==
  ASSUME MlInv, NEW c \in MlLoads, ml[c].step \in WasmSteps, NEW step \in WasmSteps,
         Attempt(c, ml[c], step, OverrideGlueForWasm(PinnedGlue)),
         UNCHANGED <<wasmWorks, pipeline, currentDevice>>
  PROVE  MlInv'
  <1>1. ml[c] \in MlCall /\ Sound(ml[c])
    BY DEF MlInv, MlTypes
  <1>2. OverrideGlueForWasm(PinnedGlue) = "plain"
    BY DEF OverrideGlueForWasm, PinnedGlue
  <1>3. Attempt(c, ml[c], step, "plain")
    BY <1>2
  <1>4. Sound([ml[c] EXCEPT !.step = step])
    BY <1>1 DEF Sound, LadderDone, WasmSteps, Opened, MlCall
  <1>5. step \in {"webgpu"} \cup WasmSteps
    OBVIOUS
  <1> QED
    BY <1>1, <1>3, <1>4, <1>5, AttemptKeeps

LEMMA MlNextKeeps == MlInv /\ [MlNext]_mlVars => MlInv'
  <1> SUFFICES ASSUME MlInv, [MlNext]_mlVars PROVE MlInv'
    OBVIOUS
  <1>1. ASSUME NEW c \in MlLoads, NEW req \in {"webgpu", "wasm", "auto"}, LoadModel(c, req)
        PROVE  MlInv'
    BY <1>1, LoadModelKeeps
  <1>2. ASSUME NEW c \in MlLoads, WebgpuRungFails(c) PROVE MlInv'
    BY <1>2, RungFailsKeeps
  <1>3. ASSUME NEW c \in MlLoads, WebgpuOpens(c) PROVE MlInv'
    BY <1>3, WebgpuOpensKeeps
  <1>4. ASSUME NEW c \in MlLoads, WarmupEnds(c) PROVE MlInv'
    BY <1>4, WarmupEndsKeeps
  <1>5. ASSUME NEW c \in MlLoads, WasmOpens(c) PROVE MlInv'
    BY <1>5, WasmOpensKeeps
  <1>6. ASSUME NEW c \in MlLoads, ProxyFails(c) PROVE MlInv'
    BY <1>6, NextWasmKeeps DEF ProxyFails, WasmSteps
  <1>7. ASSUME NEW c \in MlLoads, NEW noBackend \in BOOLEAN, PageFails(c, noBackend)
        PROVE  MlInv'
    <2>1. CASE noBackend
      BY <1>7, <2>1, NextWasmKeeps DEF PageFails, WasmSteps
    <2>2. CASE ~noBackend
      BY <1>7, <2>2, LastFailure DEF PageFails, WasmSteps
    <2> QED
      BY <2>1, <2>2
  <1>8. ASSUME NEW c \in MlLoads, NoSimdFails(c) PROVE MlInv'
    BY <1>8, LastFailure DEF NoSimdFails, WasmSteps
  <1>9. ASSUME NEW c \in MlLoads, Answered(c) PROVE MlInv'
    BY <1>9, AnsweredKeeps
  <1>10. CASE UNCHANGED mlVars
    <2>1. UNCHANGED <<wasmWorks, ml, instances, pipeline, currentDevice>>
      BY <1>10 DEF mlVars
    <2>2. MlTypes'
      BY <2>1 DEF MlInv, MlTypes
    <2>3. \A c \in MlLoads : Sound(ml[c])' /\ OnItsOwn(c)'
      BY <2>1 DEF MlInv, Sound, LadderDone, OnItsOwn
    <2>4. \A c \in MlLoads : AloneOK(c)'
      BY <2>1 DEF MlInv, AloneOK, Alone
    <2> QED
      BY <2>2, <2>3, <2>4 DEF MlInv
  <1> QED
    BY <1>1, <1>2, <1>3, <1>4, <1>5, <1>6, <1>7, <1>8, <1>9, <1>10 DEF MlNext

(* ModelFallsBack: for any number of loads that overlap, on WebKit or not, *)
(* with a GPU or without, loadModel of the iframe fails only where WASM    *)
(* does not work or a device was forced, never replaces a forced device,   *)
(* and comes to WASM only past every dtype of WebGPU.                      *)
THEOREM LoadFallsBack == MlSpec => []ModelFallsBack
  <1>1. MlSpec => []MlInv
    BY MlInitInv, MlNextKeeps, PTL DEF MlSpec
  <1> QED
    BY <1>1, MlInvImplies, PTL

-----------------------------------------------------------------------------
(* The embedder's runners (Embedder).                                      *)

EmbTypes ==
  /\ runner \in Runners
  /\ element \in [Runners -> {"none", "building", "ready"}]

EmbInv == EmbTypes /\ EmbNoZombie

(* An iframe is only ever built for the current runner.                    *)
LEMMA BuildKeeps ==
  ASSUME EmbInv, NEW rebuild, RunnerInit(runner, rebuild), UNCHANGED runner
  PROVE  EmbInv'
  BY DEF RunnerInit, EmbInv, EmbTypes, EmbNoZombie

LEMMA SameElements ==
  ASSUME EmbInv, UNCHANGED <<runner, element>>
  PROVE  EmbInv'
  BY DEF EmbInv, EmbTypes, EmbNoZombie

LEMMA LoadStepKeeps ==
  ASSUME EmbInv, NEW k, LoadStep(k)
  PROVE  EmbInv'
  <1>1. CASE InitAwaited(k)
    BY <1>1, BuildKeeps, SameElements DEF InitAwaited, AwaitInit
  <1>2. CASE Rebuild(k)
    BY <1>2, BuildKeeps, SameElements DEF Rebuild
  <1>3. CASE PostLoad(k) \/ LoadSucceeds(k) \/ LoadRejected(k) \/ \E ok \in BOOLEAN : LoadAnswered(k, ok)
    BY <1>3, SameElements DEF PostLoad, LoadSucceeds, LoadRejected, LoadAnswered
  <1> QED
    BY <1>1, <1>2, <1>3 DEF LoadStep

LEMMA EmbNextKeeps == EmbInv /\ [EmbNext]_embVars => EmbInv'
  <1> SUFFICES ASSUME EmbInv, [EmbNext]_embVars PROVE EmbInv'
    OBVIOUS
  <1>1. CASE Load
    BY <1>1, BuildKeeps, SameElements DEF Load
  <1>2. CASE Recycle
    BY <1>2 DEF Recycle, DisposeOf, EmbInv, EmbTypes, EmbNoZombie
  <1>3. CASE Teardown
    BY <1>3, EmbAssumption DEF Teardown, DisposeOf, EmbInv, EmbTypes, EmbNoZombie, Runners
  <1>4. ASSUME NEW r \in Runners, BuildReady(r) \/ BuildFails(r) PROVE EmbInv'
    BY <1>4 DEF BuildReady, BuildFails, EmbInv, EmbTypes, EmbNoZombie
  <1>5. ASSUME NEW k \in DOMAIN loads, LoadStep(k) PROVE EmbInv'
    BY <1>5, LoadStepKeeps
  <1>6. CASE UNCHANGED embVars
    BY <1>6, SameElements DEF embVars
  <1> QED
    BY <1>1, <1>2, <1>3, <1>4, <1>5, <1>6 DEF EmbNext

(* EmbNoZombie: whatever loads, recycles and teardowns of LocalEmbedder    *)
(* overlap, only the current runner has an iframe.                         *)
THEOREM NoZombieIframe == EmbSpec => []EmbNoZombie
  <1>1. EmbInit => EmbInv
    BY EmbAssumption DEF EmbInit, EmbInv, EmbTypes, EmbNoZombie, Runners
  <1>2. EmbInv => EmbNoZombie
    BY DEF EmbInv
  <1> QED
    BY <1>1, <1>2, EmbNextKeeps, PTL DEF EmbSpec

-----------------------------------------------------------------------------
(* The RPC with the iframe (IframeRpc).                                     *)

\* A set of naturals that is not empty has a least element: what is used in
\* the place of an induction.
LEMMA LeastNat ==
  ASSUME NEW T \in SUBSET Nat, T # {}
  PROVE  \E m \in T : \A k \in T : m <= k
<1> DEFINE F == {1 .. m : m \in T}
<1>1. \A m \in T : IsFiniteSet(1 .. m) /\ 1 .. m \in SUBSET Nat
  BY FS_Interval
<1>2. F \subseteq FiniteSubsetsOf(Nat) /\ F # {}
  BY <1>1 DEF FiniteSubsetsOf
<1>3. PICK x \in F : \A y \in F : ~ (<<y, x>> \in StrictSubsetOrdering(Nat))
  BY <1>2, WFMin, FS_StrictSubsetOrderingWellFounded
<1>4. PICK m \in T : x = 1 .. m
  OBVIOUS
<1>5. ASSUME NEW k \in T, k < m  PROVE FALSE
  <2>1. 1 .. k \subseteq 1 .. m /\ m \in 1 .. m /\ m \notin 1 .. k
    BY <1>5
  <2>2. <<1 .. k, x>> \in StrictSubsetOrdering(Nat)
    BY <1>1, <1>4, <2>1 DEF StrictSubsetOrdering
  <2> QED
    BY <1>3, <2>2
<1> QED
  BY <1>5

LEMMA RemoveAtIs ==
  ASSUME NEW S, NEW s \in Seq(S), NEW k \in DOMAIN s
  PROVE  /\ RemoveAt(s, k) \in Seq(S)
         /\ Len(RemoveAt(s, k)) = Len(s) - 1
         /\ \A j \in 1 .. Len(s) - 1 : RemoveAt(s, k)[j] = IF j < k THEN s[j] ELSE s[j + 1]
<1> DEFINE a == SubSeq(s, 1, k - 1)
<1> DEFINE b == SubSeq(s, k + 1, Len(s))
<1>1. /\ a \in Seq(S)
      /\ Len(a) = k - 1
      /\ \A j \in 1 .. k - 1 : a[j] = s[j]
  BY SubSeqProperties
<1>2. /\ b \in Seq(S)
      /\ Len(b) = Len(s) - k
      /\ \A j \in 1 .. Len(s) - k : b[j] = s[k + j]
  BY SubSeqProperties
<1>3. RemoveAt(s, k) = a \o b
  BY DEF RemoveAt
<1> HIDE DEF a, b
<1>4. /\ a \o b \in Seq(S)
      /\ Len(a \o b) = Len(s) - 1
      /\ \A j \in 1 .. Len(s) - 1 : (a \o b)[j] = IF j <= k - 1 THEN a[j] ELSE b[j - (k - 1)]
  BY <1>1, <1>2, ConcatProperties
<1>5. ASSUME NEW j \in 1 .. Len(s) - 1
      PROVE  (a \o b)[j] = IF j < k THEN s[j] ELSE s[j + 1]
  <2>1. j \in Nat /\ k \in Nat
    OBVIOUS
  <2>2. CASE j < k
    <3>1. j \in 1 .. k - 1
      BY <2>1, <2>2
    <3>2. a[j] = s[j]
      BY <3>1, <1>1
    <3> QED
      BY <2>1, <2>2, <3>1, <3>2, <1>4
  <2>3. CASE ~ (j < k)
    <3> DEFINE d == j - (k - 1)
    <3>1. d \in 1 .. Len(s) - k /\ k + d = j + 1 /\ ~ (j <= k - 1)
      BY <2>1, <2>3
    <3>2. b[d] = s[k + d]
      BY <3>1, <1>2
    <3>3. (a \o b)[j] = b[d]
      BY <3>1, <1>4
    <3> HIDE DEF d
    <3> QED
      BY <2>3, <3>1, <3>2, <3>3
  <2> QED
    BY <2>2, <2>3
<1> QED
  BY <1>3, <1>4, <1>5

OnLane(p, lane) == {c \in p : Lane(c) = lane}
LanesOf(p) == [gpuCount |-> Cardinality(OnLane(p, "gpu")),
               tokBusy |-> OnLane(p, "tok") # {},
               exclusiveBusy |-> OnLane(p, "exclusive") # {}]

\* What may be posted together: one exclusive call, or batches up to their
\* limit and one call of the tokenizer.
Together(p) ==
  /\ \A c, d \in p : c # d => Lane(c) # "exclusive" /\ ~(Lane(c) = "tok" /\ Lane(d) = "tok")
  /\ Cardinality(OnLane(p, "gpu")) <= GpuPostMax

\* A queue of calls that are not posted, each once.
Queued(q, p, query) ==
  /\ q \in Seq(Calls)
  /\ \A k \in DOMAIN q : q[k] \notin p /\ (IsQuery(q[k]) <=> query)
  /\ \A j, k \in DOMAIN q : q[j] = q[k] => j = k

\* The parent between two of its steps, its pump included.
ParentOk(s) ==
  /\ Queued(s.q, s.p, TRUE) /\ Queued(s.i, s.p, FALSE)
  /\ s.p \subseteq Calls /\ s.m \in Seq(Calls)
  /\ s.l = LanesOf(s.p) /\ Together(s.p)

\* The pump has nothing left to do.
Idle(s) ==
  /\ \A k \in DOMAIN s.q : ~CanStartLane(s, s.q[k])
  /\ \A k \in DOMAIN s.i : ~CanStartLane(s, s.i[k])

Fed(s) == s.p = {} => s.q = <<>> /\ s.i = <<>>

LEMMA LaneIs ==
  ASSUME NEW c \in Calls
  PROVE  /\ Lane(c) \in {"tok", "gpu", "exclusive"}
         /\ Lane(c) = "gpu" <=> CallType[c] = "embed-batch"
         /\ IsQuery(c) => Lane(c) = "exclusive"
  BY DEF Lane, IsQuery

LEMMA LaneFinite ==
  ASSUME NEW p \in SUBSET Calls, NEW lane
  PROVE  /\ IsFiniteSet(OnLane(p, lane)) /\ Cardinality(OnLane(p, lane)) \in Nat
         /\ Cardinality(OnLane(p, lane)) = 0 <=> OnLane(p, lane) = {}
<1>1. OnLane(p, lane) \in SUBSET Calls
  BY DEF OnLane
<1>2. IsFiniteSet(OnLane(p, lane))
  BY <1>1, FS_Subset, RpcAssumption
<1> QED
  BY <1>2, FS_CardinalityType, FS_EmptySet

LEMMA NoLanesIs == LanesOf({}) = NoLanes /\ Together({})
<1>1. OnLane({}, "gpu") = {} /\ OnLane({}, "tok") = {} /\ OnLane({}, "exclusive") = {}
  BY DEF OnLane
<1>2. Cardinality({}) = 0
  BY FS_EmptySet
<1>3. LanesOf({}) = NoLanes
  BY <1>1, <1>2 DEF LanesOf, NoLanes
<1>4. Cardinality(OnLane({}, "gpu")) <= GpuPostMax
  BY <1>1, <1>2, RpcAssumption
<1> QED
  BY <1>3, <1>4 DEF Together

LEMMA LanesFields ==
  ASSUME NEW p
  PROVE  /\ LanesOf(p).gpuCount = Cardinality(OnLane(p, "gpu"))
         /\ LanesOf(p).tokBusy <=> OnLane(p, "tok") # {}
         /\ LanesOf(p).exclusiveBusy <=> OnLane(p, "exclusive") # {}
  BY DEF LanesOf

LEMMA LanePlus ==
  ASSUME NEW p \in SUBSET Calls, NEW c \in Calls, c \notin p
  PROVE  Busy(LanesOf(p), c) = LanesOf(p \cup {c})
<1>1. /\ \A lane : lane # Lane(c) => OnLane(p \cup {c}, lane) = OnLane(p, lane)
      /\ OnLane(p \cup {c}, Lane(c)) = OnLane(p, Lane(c)) \cup {c}
      /\ c \notin OnLane(p, Lane(c))
  BY DEF OnLane
<1>2. Cardinality(OnLane(p, Lane(c)) \cup {c}) = Cardinality(OnLane(p, Lane(c))) + 1
  BY <1>1, LaneFinite, FS_AddElement
<1>3. CASE Lane(c) = "gpu"
  BY <1>1, <1>2, <1>3 DEF Busy, LanesOf
<1>4. CASE Lane(c) = "tok"
  BY <1>1, <1>4 DEF Busy, LanesOf
<1>5. CASE Lane(c) = "exclusive"
  BY <1>1, <1>5 DEF Busy, LanesOf
<1> QED
  BY <1>3, <1>4, <1>5, LaneIs

Counters == [gpuCount : Nat, tokBusy : BOOLEAN, exclusiveBusy : BOOLEAN]

LEMMA SameCounters ==
  ASSUME NEW l \in Counters, NEW m \in Counters, l.gpuCount = m.gpuCount,
         l.tokBusy <=> m.tokBusy, l.exclusiveBusy <=> m.exclusiveBusy
  PROVE  l = m
  BY DEF Counters

LEMMA FreeIs ==
  ASSUME NEW l \in Counters, NEW c
  PROVE  /\ Free(l, c) \in Counters
         /\ Lane(c) = "gpu" /\ l.gpuCount # 0 =>
              /\ Free(l, c).gpuCount = l.gpuCount - 1
              /\ Free(l, c).tokBusy = l.tokBusy
              /\ Free(l, c).exclusiveBusy = l.exclusiveBusy
         /\ Lane(c) = "tok" =>
              /\ Free(l, c).gpuCount = l.gpuCount
              /\ Free(l, c).tokBusy = FALSE
              /\ Free(l, c).exclusiveBusy = l.exclusiveBusy
         /\ Lane(c) \notin {"gpu", "tok"} =>
              /\ Free(l, c).gpuCount = l.gpuCount
              /\ Free(l, c).tokBusy = l.tokBusy
              /\ Free(l, c).exclusiveBusy = FALSE
<1>1. CASE Lane(c) = "gpu"
  BY <1>1 DEF Free, Counters
<1>2. CASE Lane(c) = "tok"
  BY <1>2 DEF Free, Counters
<1>3. CASE Lane(c) \notin {"gpu", "tok"}
  BY <1>3 DEF Free, Counters
<1> QED
  BY <1>1, <1>2, <1>3

LEMMA LaneMinus ==
  ASSUME NEW p \in SUBSET Calls, NEW c \in p, Together(p)
  PROVE  Free(LanesOf(p), c) = LanesOf(p \ {c}) /\ Together(p \ {c})
<1>1. /\ \A lane : lane # Lane(c) => OnLane(p \ {c}, lane) = OnLane(p, lane)
      /\ OnLane(p \ {c}, Lane(c)) = OnLane(p, Lane(c)) \ {c}
      /\ c \in OnLane(p, Lane(c))
  BY DEF OnLane
<1>2. /\ IsFiniteSet(OnLane(p, Lane(c)))
      /\ Cardinality(OnLane(p, Lane(c))) \in Nat /\ Cardinality(OnLane(p, "gpu")) \in Nat
      /\ Cardinality(OnLane(p \ {c}, "gpu")) \in Nat
      /\ Cardinality(OnLane(p, Lane(c))) # 0
  BY <1>1, LaneFinite
<1>3. Cardinality(OnLane(p, Lane(c)) \ {c}) = Cardinality(OnLane(p, Lane(c))) - 1
  BY <1>1, <1>2, FS_RemoveElement
<1>4. LanesOf(p) \in Counters /\ LanesOf(p \ {c}) \in Counters
  BY <1>2 DEF LanesOf, Counters
<1> DEFINE f == Free(LanesOf(p), c)
<1>5. CASE Lane(c) = "gpu"
  <2>1. /\ Cardinality(OnLane(p \ {c}, "gpu")) = Cardinality(OnLane(p, "gpu")) - 1
        /\ Cardinality(OnLane(p, "gpu")) # 0
        /\ OnLane(p \ {c}, "tok") = OnLane(p, "tok")
        /\ OnLane(p \ {c}, "exclusive") = OnLane(p, "exclusive")
    BY <1>1, <1>2, <1>3, <1>5
  <2>2. f = LanesOf(p \ {c})
    <3>1. /\ f \in Counters /\ f.gpuCount = LanesOf(p).gpuCount - 1
          /\ f.tokBusy <=> LanesOf(p).tokBusy
          /\ f.exclusiveBusy <=> LanesOf(p).exclusiveBusy
      BY <2>1, <1>4, <1>5, FreeIs, LanesFields
    <3>2. /\ f.gpuCount = LanesOf(p \ {c}).gpuCount
          /\ f.tokBusy <=> LanesOf(p \ {c}).tokBusy
          /\ f.exclusiveBusy <=> LanesOf(p \ {c}).exclusiveBusy
      BY <2>1, <3>1, LanesFields
    <3> HIDE DEF f
    <3> QED
      BY <3>1, <3>2, <1>4, SameCounters
  <2>3. Cardinality(OnLane(p \ {c}, "gpu")) <= GpuPostMax
    BY <2>1, <1>2, RpcAssumption DEF Together
  <2> QED
    BY <2>2, <2>3 DEF Together
<1>6. CASE Lane(c) = "tok"
  <2>1. /\ OnLane(p \ {c}, "gpu") = OnLane(p, "gpu")
        /\ OnLane(p \ {c}, "exclusive") = OnLane(p, "exclusive")
    BY <1>1, <1>6
  <2>2. OnLane(p \ {c}, "tok") = {}
    BY <1>6 DEF OnLane, Together
  <2>3. f = LanesOf(p \ {c})
    <3>1. /\ f \in Counters /\ f.gpuCount = LanesOf(p).gpuCount
          /\ f.tokBusy <=> FALSE
          /\ f.exclusiveBusy <=> LanesOf(p).exclusiveBusy
      BY <1>4, <1>6, FreeIs, LanesFields
    <3>2. /\ f.gpuCount = LanesOf(p \ {c}).gpuCount
          /\ f.tokBusy <=> LanesOf(p \ {c}).tokBusy
          /\ f.exclusiveBusy <=> LanesOf(p \ {c}).exclusiveBusy
      BY <2>1, <2>2, <3>1, LanesFields
    <3> HIDE DEF f
    <3> QED
      BY <3>1, <3>2, <1>4, SameCounters
  <2> QED
    BY <2>1, <2>3 DEF Together
<1>7. CASE Lane(c) = "exclusive"
  <2>1. /\ OnLane(p \ {c}, "gpu") = OnLane(p, "gpu")
        /\ OnLane(p \ {c}, "tok") = OnLane(p, "tok")
    BY <1>1, <1>7
  <2>2. OnLane(p \ {c}, "exclusive") = {}
    BY <1>7 DEF OnLane, Together
  <2>3. f = LanesOf(p \ {c})
    <3>1. /\ f \in Counters /\ f.gpuCount = LanesOf(p).gpuCount
          /\ f.tokBusy <=> LanesOf(p).tokBusy
          /\ f.exclusiveBusy <=> FALSE
      BY <1>4, <1>7, FreeIs, LanesFields
    <3>2. /\ f.gpuCount = LanesOf(p \ {c}).gpuCount
          /\ f.tokBusy <=> LanesOf(p \ {c}).tokBusy
          /\ f.exclusiveBusy <=> LanesOf(p \ {c}).exclusiveBusy
      BY <2>1, <2>2, <3>1, LanesFields
    <3> HIDE DEF f
    <3> QED
      BY <3>1, <3>2, <1>4, SameCounters
  <2> QED
    BY <2>1, <2>3 DEF Together
<1> QED
  BY <1>5, <1>6, <1>7, LaneIs

LEMMA StartKeeps ==
  ASSUME NEW s, NEW c \in Calls, c \notin s.p, CanStartLane(s, c),
         s.p \subseteq Calls, s.l = LanesOf(s.p), Together(s.p)
  PROVE  Busy(s.l, c) = LanesOf(s.p \cup {c}) /\ Together(s.p \cup {c})
<1>0. /\ s.l.gpuCount = Cardinality(OnLane(s.p, "gpu"))
      /\ s.l.tokBusy <=> OnLane(s.p, "tok") # {}
      /\ s.l.exclusiveBusy <=> OnLane(s.p, "exclusive") # {}
  BY LanesFields
<1>1. OnLane(s.p, "exclusive") = {}
  BY <1>0 DEF CanStartLane
<1>2. \A d \in s.p : Lane(d) # "exclusive"
  BY <1>1 DEF OnLane
<1>3. Lane(c) = "exclusive" => s.p = {}
  <2>1. ASSUME Lane(c) = "exclusive"  PROVE OnLane(s.p, "gpu") = {} /\ OnLane(s.p, "tok") = {}
    <3>1. Cardinality(OnLane(s.p, "gpu")) = 0 /\ OnLane(s.p, "tok") = {}
      BY <2>1, <1>0 DEF CanStartLane
    <3> QED
      BY <3>1, LaneFinite
  <2>2. \A d \in s.p : Lane(d) \in {"tok", "gpu", "exclusive"}
    BY LaneIs
  <2> QED
    BY <2>1, <2>2, <1>1 DEF OnLane
<1>4. Lane(c) = "tok" => \A d \in s.p : Lane(d) # "tok"
  BY <1>0 DEF CanStartLane, OnLane
<1>5. Cardinality(OnLane(s.p \cup {c}, "gpu")) <= GpuPostMax
  <2>1. CASE Lane(c) = "gpu"
    <3> DEFINE g == OnLane(s.p, "gpu")
    <3>1. OnLane(s.p \cup {c}, "gpu") = g \cup {c} /\ c \notin g
      BY <2>1 DEF OnLane
    <3>2. Cardinality(g) < GpuPostMax
      BY <2>1, <1>0 DEF CanStartLane
    <3>3. IsFiniteSet(g) /\ Cardinality(g) \in Nat
      BY LaneFinite
    <3> HIDE DEF g
    <3>4. Cardinality(g \cup {c}) = Cardinality(g) + 1
      BY <3>1, <3>3, FS_AddElement
    <3> QED
      BY <3>1, <3>2, <3>3, <3>4, RpcAssumption
  <2>2. CASE Lane(c) # "gpu"
    <3>1. OnLane(s.p \cup {c}, "gpu") = OnLane(s.p, "gpu")
      BY <2>2 DEF OnLane
    <3> QED
      BY <3>1 DEF Together
  <2> QED
    BY <2>1, <2>2
<1>6. Together(s.p \cup {c})
  BY <1>2, <1>3, <1>4, <1>5 DEF Together
<1> QED
  BY <1>6, LanePlus


\* One turn of the pump posts a call that may start, or finds none.
Posts(s, r, q, i, c) ==
  /\ CanStartLane(s, c)
  /\ r = Parent(q, i, s.p \cup {c}, Busy(s.l, c), Post(s, c))

LEMMA PumpOnceIs ==
  ASSUME NEW s, s.q \in Seq(Calls), s.i \in Seq(Calls)
  PROVE  \/ \E k \in DOMAIN s.q : Posts(s, PumpOnce(s), RemoveAt(s.q, k), s.i, s.q[k])
         \/ \E k \in DOMAIN s.i : Posts(s, PumpOnce(s), s.q, RemoveAt(s.i, k), s.i[k])
         \/ Idle(s) /\ PumpOnce(s) = s
<1> DEFINE startable(q) == {k \in DOMAIN q : CanStartLane(s, q[k])}
           first(q)     == CHOOSE k \in startable(q) : \A j \in startable(q) : k <= j
<1>1. ASSUME NEW q \in Seq(Calls), startable(q) # {}  PROVE first(q) \in startable(q)
  <2>1. startable(q) \in SUBSET Nat
    OBVIOUS
  <2>2. \E k \in startable(q) : \A j \in startable(q) : k <= j
    BY <1>1, <2>1, LeastNat
  <2> QED
    BY <2>2
<1>2. CASE startable(s.q) # {}
  <2>1. first(s.q) \in DOMAIN s.q /\ CanStartLane(s, s.q[first(s.q)])
    BY <1>1, <1>2
  <2>2. PumpOnce(s) = Parent(RemoveAt(s.q, first(s.q)), s.i, s.p \cup {s.q[first(s.q)]},
                             Busy(s.l, s.q[first(s.q)]), Post(s, s.q[first(s.q)]))
    BY <1>2 DEF PumpOnce
  <2> HIDE DEF first
  <2> QED
    BY <2>1, <2>2 DEF Posts
<1>3. CASE startable(s.q) = {} /\ startable(s.i) # {}
  <2>1. first(s.i) \in DOMAIN s.i /\ CanStartLane(s, s.i[first(s.i)])
    BY <1>1, <1>3
  <2>2. PumpOnce(s) = Parent(s.q, RemoveAt(s.i, first(s.i)), s.p \cup {s.i[first(s.i)]},
                             Busy(s.l, s.i[first(s.i)]), Post(s, s.i[first(s.i)]))
    BY <1>3 DEF PumpOnce
  <2> HIDE DEF first
  <2> QED
    BY <2>1, <2>2 DEF Posts
<1>4. CASE startable(s.q) = {} /\ startable(s.i) = {}
  BY <1>4 DEF PumpOnce, Idle
<1> QED
  BY <1>2, <1>3, <1>4

\* What leaves a queue leaves the rest of it.
LEMMA QueuedRest ==
  ASSUME NEW q, NEW p, NEW query, Queued(q, p, query), NEW k \in DOMAIN q
  PROVE  Queued(RemoveAt(q, k), p \cup {q[k]}, query) /\ Queued(RemoveAt(q, k), p, query)
<1> DEFINE r == RemoveAt(q, k)
<1>1. q \in Seq(Calls) /\ Len(q) \in Nat /\ DOMAIN q = 1 .. Len(q)
  BY DEF Queued
<1>2. /\ r \in Seq(Calls) /\ Len(r) = Len(q) - 1
      /\ \A j \in 1 .. Len(q) - 1 : r[j] = IF j < k THEN q[j] ELSE q[j + 1]
  BY <1>1, RemoveAtIs
<1> HIDE DEF r
<1>3. DOMAIN r = 1 .. Len(q) - 1
  BY <1>1, <1>2
<1> DEFINE at(j) == IF j < k THEN j ELSE j + 1
<1>4. \A j \in DOMAIN r : at(j) \in DOMAIN q /\ at(j) # k /\ r[j] = q[at(j)]
  BY <1>1, <1>2, <1>3
<1>5. \A i, j \in DOMAIN r : at(i) = at(j) => i = j
  BY <1>1, <1>3
<1> HIDE DEF at
<1>6. \A j \in DOMAIN r : r[j] \notin p /\ r[j] # q[k] /\ (IsQuery(r[j]) <=> query)
  BY <1>4 DEF Queued
<1>7. \A i, j \in DOMAIN r : r[i] = r[j] => i = j
  BY <1>4, <1>5 DEF Queued
<1> QED
  BY <1>2, <1>6, <1>7 DEF Queued, r

\* A call of one queue is in no other.
LEMMA QueuedOther ==
  ASSUME NEW q, NEW p, NEW query, Queued(q, p, query), NEW c, ~ (IsQuery(c) <=> query)
  PROVE  Queued(q, p \cup {c}, query)
  BY DEF Queued

Waits(s) == Len(s.q) + Len(s.i)

LEMMA ParentSeqs ==
  ASSUME NEW s, ParentOk(s)
  PROVE  /\ s.q \in Seq(Calls) /\ s.i \in Seq(Calls) /\ s.m \in Seq(Calls)
         /\ Len(s.q) \in Nat /\ Len(s.i) \in Nat /\ Waits(s) \in Nat
         /\ Queued(s.q, s.p, TRUE) /\ Queued(s.i, s.p, FALSE)
<1>1. s.q \in Seq(Calls) /\ s.i \in Seq(Calls) /\ s.m \in Seq(Calls)
  BY DEF ParentOk, Queued
<1>2. Len(s.q) \in Nat /\ Len(s.i) \in Nat
  BY <1>1, LenProperties
<1>3. PICK a, b \in Nat : a = Len(s.q) /\ b = Len(s.i)
  BY <1>2
<1>4. Waits(s) = a + b
  BY <1>3 DEF Waits
<1>5. Waits(s) \in Nat
  BY <1>4
<1> QED
  BY <1>1, <1>2, <1>5 DEF ParentOk

LEMMA PumpOnceKeeps ==
  ASSUME NEW s, ParentOk(s)
  PROVE  /\ ParentOk(PumpOnce(s))
         /\ \/ Waits(PumpOnce(s)) = Waits(s) - 1
            \/ Idle(s) /\ PumpOnce(s) = s
<1> DEFINE r == PumpOnce(s)
<1>1. /\ s.q \in Seq(Calls) /\ s.i \in Seq(Calls) /\ s.m \in Seq(Calls)
      /\ Len(s.q) \in Nat /\ Len(s.i) \in Nat
      /\ Queued(s.q, s.p, TRUE) /\ Queued(s.i, s.p, FALSE)
  BY ParentSeqs
<1>2. ASSUME NEW k \in DOMAIN s.q, Posts(s, r, RemoveAt(s.q, k), s.i, s.q[k])
      PROVE  ParentOk(r) /\ Waits(r) = Waits(s) - 1
  <2>1. /\ r.q = RemoveAt(s.q, k) /\ r.i = s.i /\ r.p = s.p \cup {s.q[k]}
        /\ r.l = Busy(s.l, s.q[k]) /\ r.m = Post(s, s.q[k]) /\ CanStartLane(s, s.q[k])
    BY <1>2 DEF Posts, Parent
  <2>2. s.q[k] \in Calls /\ s.q[k] \notin s.p /\ IsQuery(s.q[k])
    BY <1>1 DEF ParentOk, Queued
  <2>3. Queued(r.q, r.p, TRUE)
    <3>1. Queued(RemoveAt(s.q, k), s.p \cup {s.q[k]}, TRUE)
      BY <1>1, QueuedRest
    <3> QED
      BY <2>1, <3>1
  <2>4. Queued(r.i, r.p, FALSE)
    <3>1. Queued(s.i, s.p \cup {s.q[k]}, FALSE)
      BY <1>1, <2>2, QueuedOther
    <3> QED
      BY <2>1, <3>1
  <2>5. r.l = LanesOf(r.p) /\ Together(r.p)
    BY <2>1, <2>2, StartKeeps DEF ParentOk
  <2>6. r.m \in Seq(Calls)
    BY <2>1, <2>2, <1>1, AppendProperties DEF Post
  <2>7. Waits(r) = Waits(s) - 1
    <3>1. Len(RemoveAt(s.q, k)) = Len(s.q) - 1
      BY <1>1, RemoveAtIs
    <3> QED
      BY <2>1, <3>1, <1>1 DEF Waits
  <2> HIDE DEF r
  <2> QED
    BY <2>1, <2>2, <2>3, <2>4, <2>5, <2>6, <2>7 DEF ParentOk
<1>3. ASSUME NEW k \in DOMAIN s.i, Posts(s, r, s.q, RemoveAt(s.i, k), s.i[k])
      PROVE  ParentOk(r) /\ Waits(r) = Waits(s) - 1
  <2>1. /\ r.q = s.q /\ r.i = RemoveAt(s.i, k) /\ r.p = s.p \cup {s.i[k]}
        /\ r.l = Busy(s.l, s.i[k]) /\ r.m = Post(s, s.i[k]) /\ CanStartLane(s, s.i[k])
    BY <1>3 DEF Posts, Parent
  <2>2. s.i[k] \in Calls /\ s.i[k] \notin s.p /\ ~IsQuery(s.i[k])
    BY <1>1 DEF ParentOk, Queued
  <2>3. Queued(r.i, r.p, FALSE)
    <3>1. Queued(RemoveAt(s.i, k), s.p \cup {s.i[k]}, FALSE)
      BY <1>1, QueuedRest
    <3> QED
      BY <2>1, <3>1
  <2>4. Queued(r.q, r.p, TRUE)
    <3>1. Queued(s.q, s.p \cup {s.i[k]}, TRUE)
      BY <1>1, <2>2, QueuedOther
    <3> QED
      BY <2>1, <3>1
  <2>5. r.l = LanesOf(r.p) /\ Together(r.p)
    BY <2>1, <2>2, StartKeeps DEF ParentOk
  <2>6. r.m \in Seq(Calls)
    BY <2>1, <2>2, <1>1, AppendProperties DEF Post
  <2>7. Waits(r) = Waits(s) - 1
    <3>1. Len(RemoveAt(s.i, k)) = Len(s.i) - 1
      BY <1>1, RemoveAtIs
    <3> QED
      BY <2>1, <3>1, <1>1 DEF Waits
  <2> HIDE DEF r
  <2> QED
    BY <2>1, <2>2, <2>3, <2>4, <2>5, <2>6, <2>7 DEF ParentOk
<1> HIDE DEF r
<1> QED
  BY <1>1, <1>2, <1>3, PumpOnceIs DEF r

LEMMA IdleStays ==
  ASSUME NEW s, ParentOk(s), Idle(s)
  PROVE  PumpOnce(s) = s
<1>1. s.q \in Seq(Calls) /\ s.i \in Seq(Calls)
  BY ParentSeqs
<1> QED
  BY <1>1, PumpOnceIs DEF Idle, Posts

\* The turns of the pump, one after the other.
Turns(s, g, n) ==
  g = [k \in 0 .. n |-> IF k = 0 THEN s
                        ELSE CHOOSE r \in {PumpOnce(p) : p \in {g[k - 1]}} : TRUE]

LEMMA TurnsExist ==
  ASSUME NEW s, NEW n \in Nat
  PROVE  \E g : Turns(s, g, n)
<1> DEFINE T == {m \in Nat : ~ \E g : Turns(s, g, m)}
<1>1. SUFFICES T = {}
  OBVIOUS
<1>2. SUFFICES ASSUME T # {}  PROVE FALSE
  OBVIOUS
<1>3. PICK m \in T : \A k \in T : m <= k
  BY <1>2, LeastNat
<1>4. m # 0
  <2>1. Turns(s, [k \in 0 .. 0 |-> s], 0)
    BY DEF Turns
  <2> QED
    BY <1>3, <2>1
<1>5. m - 1 \in Nat /\ m - 1 \notin T
  BY <1>3, <1>4
<1>6. PICK g : Turns(s, g, m - 1)
  BY <1>5
<1> DEFINE next == CHOOSE r \in {PumpOnce(p) : p \in {g[m - 1]}} : TRUE
           h == [k \in 0 .. m |-> IF k = m THEN next ELSE g[k]]
<1>7. \A k \in 0 .. m - 1 : h[k] = g[k]
  BY <1>5
<1>8. \A k \in 0 .. m - 1 : g[k] = IF k = 0 THEN s
                        ELSE CHOOSE r \in {PumpOnce(p) : p \in {g[k - 1]}} : TRUE
  BY <1>6 DEF Turns
<1>9. ASSUME NEW k \in 0 .. m
      PROVE  h[k] = IF k = 0 THEN s
                    ELSE CHOOSE r \in {PumpOnce(p) : p \in {h[k - 1]}} : TRUE
  <2>1. CASE k = m
    <3>1. h[k] = next /\ h[k - 1] = g[m - 1]
      BY <2>1, <1>4, <1>5, <1>7
    <3> HIDE DEF h
    <3> QED
      BY <2>1, <3>1, <1>4
  <2>2. CASE k # m
    <3>1. k \in 0 .. m - 1 /\ h[k] = g[k] /\ (k # 0 => h[k - 1] = g[k - 1])
      BY <2>2, <1>5, <1>7
    <3> HIDE DEF h
    <3> QED
      BY <3>1, <1>8
  <2> QED
    BY <2>1, <2>2
<1>10. Turns(s, h, m)
  BY <1>9 DEF Turns
<1> QED
  BY <1>3, <1>10

LEMMA PumpKeeps ==
  ASSUME NEW s, ParentOk(s)
  PROVE  ParentOk(PumpRpc(s)) /\ Idle(PumpRpc(s))
<1> DEFINE n == Waits(s)
           g == CHOOSE f : Turns(s, f, n)
<1>1. n \in Nat
  BY ParentSeqs
<1>2. Turns(s, g, n)
  BY <1>1, TurnsExist
<1>3. PumpRpc(s) = g[n]
  BY DEF PumpRpc, Turns, Waits
<1> HIDE DEF g, n
<1>4. g[0] = s
  BY <1>1, <1>2 DEF Turns
<1>5. ASSUME NEW k \in 1 .. n  PROVE g[k] = PumpOnce(g[k - 1])
  <2>1. g[k] = CHOOSE r \in {PumpOnce(p) : p \in {g[k - 1]}} : TRUE
    BY <1>1, <1>2 DEF Turns
  <2> QED
    BY <2>1
<1> DEFINE Good(k) == ParentOk(g[k]) /\ (Idle(g[k]) \/ Waits(g[k]) <= n - k)
           T == {k \in 0 .. n : ~Good(k)}
<1>6. Good(0)
  <2>1. Waits(g[0]) <= n - 0
    BY <1>1, <1>4 DEF n
  <2> QED
    BY <2>1, <1>4
<1>7. ASSUME NEW k \in 1 .. n, Good(k - 1)  PROVE Good(k)
  <2>1. g[k] = PumpOnce(g[k - 1])
    BY <1>5
  <2>2. /\ ParentOk(g[k])
        /\ \/ Waits(g[k]) = Waits(g[k - 1]) - 1
           \/ Idle(g[k - 1]) /\ g[k] = g[k - 1]
    <3> DEFINE p == g[k - 1]
    <3>1. ParentOk(p)
      BY <1>7
    <3> HIDE DEF Good, p
    <3>2. /\ ParentOk(PumpOnce(p))
          /\ \/ Waits(PumpOnce(p)) = Waits(p) - 1
             \/ Idle(p) /\ PumpOnce(p) = p
      BY <3>1, PumpOnceKeeps
    <3>3. g[k] = PumpOnce(p)
      BY <2>1 DEF p
    <3>4. /\ ParentOk(g[k])
          /\ \/ Waits(g[k]) = Waits(p) - 1
             \/ Idle(p) /\ g[k] = p
      BY <3>2, <3>3
    <3> QED
      BY <3>4 DEF p
  <2>3. Waits(g[k - 1]) \in Nat /\ Waits(g[k]) \in Nat
    BY <1>7, <2>2, ParentSeqs
  <2>4. CASE Idle(g[k - 1])
    <3>1. g[k] = g[k - 1]
      BY <2>1, <2>4, <1>7, IdleStays
    <3> QED
      BY <2>2, <2>4, <3>1
  <2>5. CASE ~Idle(g[k - 1])
    <3>1. Waits(g[k]) = Waits(g[k - 1]) - 1 /\ Waits(g[k - 1]) <= n - (k - 1)
      BY <2>2, <2>5, <1>7
    <3>2. Waits(g[k]) <= n - k
      BY <3>1, <2>3, <1>1
    <3> QED
      BY <3>2, <2>2
  <2> QED
    BY <2>4, <2>5
<1> HIDE DEF Good
<1>8. T = {}
  <2>1. SUFFICES ASSUME T # {}  PROVE FALSE
    OBVIOUS
  <2>2. T \in SUBSET Nat
    BY <1>1
  <2>3. PICK m \in T : \A k \in T : m <= k
    BY <2>1, <2>2, LeastNat
  <2>4. m \in 1 .. n
    BY <2>3, <1>6, <1>1
  <2>5. m - 1 \in 0 .. n /\ ~ (m <= m - 1)
    BY <2>4, <1>1
  <2>6. Good(m - 1)
    BY <2>3, <2>5
  <2> QED
    BY <2>3, <2>4, <2>6, <1>7
<1>9. ParentOk(g[n]) /\ (Idle(g[n]) \/ Waits(g[n]) <= n - n)
  <2>1. Good(n)
    BY <1>8, <1>1
  <2> QED
    BY <2>1 DEF Good
<1>10. ASSUME Waits(g[n]) <= n - n  PROVE Idle(g[n])
  <2>1. Len(g[n].q) = 0 /\ Len(g[n].i) = 0
    <3>1. PICK a, b \in Nat : a = Len(g[n].q) /\ b = Len(g[n].i)
      BY <1>9, ParentSeqs
    <3>2. Waits(g[n]) = a + b
      BY <3>1 DEF Waits
    <3>3. n - n = 0
      BY <1>1
    <3>4. a + b <= 0
      BY <1>10, <3>2, <3>3
    <3>5. a = 0 /\ b = 0
      BY <3>4
    <3> QED
      BY <3>1, <3>5
  <2>2. DOMAIN g[n].q = {} /\ DOMAIN g[n].i = {}
    BY <2>1, <1>9, ParentSeqs
  <2> QED
    BY <2>2 DEF Idle
<1> QED
  BY <1>3, <1>9, <1>10

LEMMA IdleFed ==
  ASSUME NEW s, ParentOk(s), Idle(s)
  PROVE  Fed(s)
<1>1. SUFFICES ASSUME s.p = {}  PROVE s.q = <<>> /\ s.i = <<>>
  BY DEF Fed
<1>2. s.q \in Seq(Calls) /\ s.i \in Seq(Calls)
  BY ParentSeqs
<1>3. s.l = NoLanes
  BY <1>1, NoLanesIs DEF ParentOk
<1>4. ~s.l.exclusiveBusy /\ ~s.l.tokBusy /\ s.l.gpuCount = 0 /\ s.l.gpuCount < GpuPostMax
  BY <1>3, RpcAssumption DEF NoLanes
<1>5. s.q = <<>>
  <2>1. SUFFICES ASSUME s.q # <<>>  PROVE FALSE
    OBVIOUS
  <2>2. 1 \in DOMAIN s.q /\ s.q[1] \in Calls
    BY <2>1, <1>2
  <2>3. Lane(s.q[1]) = "exclusive"
    BY <2>2, LaneIs DEF ParentOk, Queued
  <2>4. CanStartLane(s, s.q[1])
    BY <2>3, <1>4 DEF CanStartLane
  <2> QED
    BY <2>2, <2>4 DEF Idle
<1>6. s.i = <<>>
  <2>1. SUFFICES ASSUME s.i # <<>>  PROVE FALSE
    OBVIOUS
  <2>2. 1 \in DOMAIN s.i
    BY <2>1, <1>2
  <2>3. CanStartLane(s, s.i[1])
    BY <1>4, <1>5 DEF CanStartLane
  <2> QED
    BY <2>2, <2>3 DEF Idle
<1> QED
  BY <1>5, <1>6

-----------------------------------------------------------------------------
\* The parent as it is, and what the child does for each call: a batch at its
\* forward has the turn of the GPU lock.
Now == Parent(queryRpcQueue, indexRpcQueue, posted, lanes, inbox)

JobsOk ==
  /\ job \in [Calls -> Jobs]
  /\ gpuChain \in Seq(Calls) /\ tokChain \in Seq(Calls) /\ outbox \in Seq(Calls \X BOOLEAN)
  /\ \A k \in DOMAIN tokChain : CallType[tokChain[k]] \in {"token-counts", "embed-batch"}
  /\ \A c \in Calls :
       /\ job[c] = "session" => CallType[c] = "load"
       /\ job[c] = "tokenized" => CallType[c] = "embed-batch"
       /\ job[c] = "forward" => \/ CallType[c] = "embed"
                                \/ CallType[c] = "embed-batch" /\ GpuTurn(c)

RpcInv ==
  /\ frame \in {"none", "building", "live"}
  /\ ParentOk(Now) /\ Fed(Now)
  /\ JobsOk

LEMMA NowFields ==
  /\ Now.q = queryRpcQueue /\ Now.i = indexRpcQueue /\ Now.p = posted
  /\ Now.l = lanes /\ Now.m = inbox
  BY DEF Now, Parent

LEMMA RpcInvInit == RpcInit => RpcInv
<1> SUFFICES ASSUME RpcInit  PROVE RpcInv
  OBVIOUS
<1> USE DEF RpcInit
<1>1. ParentOk(Now) /\ Fed(Now)
  BY NowFields, NoLanesIs DEF ParentOk, Fed, Queued
<1>2. JobsOk
  BY DEF JobsOk, Jobs
<1> QED
  BY <1>1, <1>2 DEF RpcInv

\* The parent becomes what its pump makes of a good state.
LEMMA Becomes ==
  ASSUME NEW s, ParentOk(s), BecomeParent(PumpRpc(s))
  PROVE  ParentOk(Now)' /\ Fed(Now)'
<1> DEFINE r == PumpRpc(s)
<1>1. ParentOk(r) /\ Fed(r)
  BY PumpKeeps, IdleFed
<1>2. /\ Now'.q = r.q /\ Now'.i = r.i /\ Now'.p = r.p /\ Now'.l = r.l /\ Now'.m = r.m
  BY DEF BecomeParent, Now, Parent
<1> HIDE DEF r
<1>3. ParentOk(Now') /\ Fed(Now')
  BY <1>1, <1>2 DEF ParentOk, Fed
<1> QED
  BY <1>3 DEF ParentOk, Fed, Queued, LanesOf, OnLane, Together, Lane, IsQuery

LEMMA SettledKeeps ==
  ASSUME ParentOk(Now), NEW c \in posted, Settle(c)
  PROVE  ParentOk(Now)' /\ Fed(Now)'
<1> DEFINE s == Parent(queryRpcQueue, indexRpcQueue, posted \ {c}, Free(lanes, c), inbox)
<1>1. /\ s.q = queryRpcQueue /\ s.i = indexRpcQueue /\ s.p = posted \ {c}
      /\ s.l = Free(lanes, c) /\ s.m = inbox
  BY DEF Parent
<1>2. /\ posted \subseteq Calls /\ lanes = LanesOf(posted) /\ Together(posted)
      /\ Queued(queryRpcQueue, posted, TRUE) /\ Queued(indexRpcQueue, posted, FALSE)
      /\ inbox \in Seq(Calls)
  BY NowFields DEF ParentOk
<1>3. Free(lanes, c) = LanesOf(posted \ {c}) /\ Together(posted \ {c})
  BY <1>2, LaneMinus
<1>4. Queued(queryRpcQueue, posted \ {c}, TRUE) /\ Queued(indexRpcQueue, posted \ {c}, FALSE)
  BY <1>2 DEF Queued
<1>5. BecomeParent(PumpRpc(s))
  BY DEF Settle
<1> HIDE DEF s
<1>6. ParentOk(s)
  BY <1>1, <1>2, <1>3, <1>4 DEF ParentOk
<1> QED
  BY <1>5, <1>6, Becomes

LEMMA SendKeeps ==
  ASSUME RpcInv, NEW c \in Calls, Send(c)
  PROVE  ParentOk(Now)' /\ Fed(Now)'
<1> DEFINE q == IF IsQuery(c) THEN Append(queryRpcQueue, c) ELSE queryRpcQueue
           i == IF IsQuery(c) THEN indexRpcQueue ELSE Append(indexRpcQueue, c)
           s == Parent(q, i, posted, lanes, inbox)
<1>1. /\ s.q = q /\ s.i = i /\ s.p = posted /\ s.l = lanes /\ s.m = inbox
  BY DEF Parent
<1>2. /\ posted \subseteq Calls /\ lanes = LanesOf(posted) /\ Together(posted)
      /\ Queued(queryRpcQueue, posted, TRUE) /\ Queued(indexRpcQueue, posted, FALSE)
      /\ inbox \in Seq(Calls)
  BY NowFields DEF ParentOk, RpcInv
<1>3. c \notin posted /\ c \notin Range(queryRpcQueue) /\ c \notin Range(indexRpcQueue)
  BY DEF Send, Unused, Waiting
<1>4. ASSUME NEW w, NEW query, Queued(w, posted, query), c \notin Range(w), IsQuery(c) <=> query
      PROVE  Queued(Append(w, c), posted, query)
  <2>1. w \in Seq(Calls) /\ Len(w) \in Nat /\ DOMAIN w = 1 .. Len(w)
    BY <1>4 DEF Queued
  <2>2. /\ Append(w, c) \in Seq(Calls) /\ DOMAIN Append(w, c) = 1 .. Len(w) + 1
        /\ \A k \in DOMAIN w : Append(w, c)[k] = w[k]
        /\ Append(w, c)[Len(w) + 1] = c
    BY <2>1, AppendProperties
  <2> DEFINE x == Append(w, c)
  <2>3. \A k \in DOMAIN x : (k \in DOMAIN w /\ x[k] = w[k]) \/ (k = Len(w) + 1 /\ x[k] = c)
    <3> SUFFICES ASSUME NEW k \in 1 .. Len(w) + 1
                 PROVE  (k \in DOMAIN w /\ x[k] = w[k]) \/ (k = Len(w) + 1 /\ x[k] = c)
      BY <2>2
    <3>1. k \in DOMAIN w \/ k = Len(w) + 1
      BY <2>1
    <3> QED
      BY <3>1, <2>2
  <2>4. \A k \in DOMAIN w : w[k] # c
    BY <1>4 DEF Range
  <2> QED
    BY <1>3, <1>4, <2>2, <2>3, <2>4 DEF Queued
<1>5. Queued(q, posted, TRUE) /\ Queued(i, posted, FALSE)
  BY <1>2, <1>3, <1>4
<1>6. BecomeParent(PumpRpc(s))
  BY DEF Send
<1> HIDE DEF q, i, s
<1>7. ParentOk(s)
  BY <1>1, <1>2, <1>5 DEF ParentOk
<1> QED
  BY <1>6, <1>7, Becomes
-----------------------------------------------------------------------------
\* A step of the child that posts nothing and takes nothing from the inbox.
LEMMA ParentStays ==
  ASSUME RpcInv, UNCHANGED parentVars, UNCHANGED inbox
  PROVE  frame' \in {"none", "building", "live"} /\ ParentOk(Now)' /\ Fed(Now)'
<1>1. Now' = Now
  BY DEF Now, parentVars
<1>2. ParentOk(Now') /\ Fed(Now')
  BY <1>1 DEF RpcInv
<1> QED
  BY <1>2 DEF RpcInv, parentVars, ParentOk, Fed, Queued, LanesOf, OnLane, Together, Lane, IsQuery

LEMMA ChildStays ==
  ASSUME JobsOk, UNCHANGED childVars, outbox' \in Seq(Calls \X BOOLEAN)
  PROVE  JobsOk'
  BY DEF JobsOk, childVars, GpuTurn

LEMMA AnswerKeeps ==
  ASSUME JobsOk, NEW c \in Calls, NEW ok \in BOOLEAN, Answer(c, ok),
         tokChain' \in Seq(Calls), gpuChain' = gpuChain,
         \A k \in DOMAIN tokChain' : CallType[tokChain'[k]] \in {"token-counts", "embed-batch"}
  PROVE  JobsOk'
<1>1. outbox' \in Seq(Calls \X BOOLEAN)
  BY AppendProperties DEF JobsOk, Answer
<1>2. /\ job \in [Calls -> Jobs] /\ job' \in [Calls -> Jobs] /\ gpuChain' \in Seq(Calls)
      /\ \A d \in Calls : job'[d] = IF d = c THEN "none" ELSE job[d]
  BY DEF JobsOk, Answer, Jobs
<1> QED
  BY <1>1, <1>2 DEF JobsOk, GpuTurn

LEMMA AnswerStays ==
  ASSUME JobsOk, NEW c \in Calls, NEW ok \in BOOLEAN, Answer(c, ok), UNCHANGED <<tokChain, gpuChain>>
  PROVE  JobsOk'
<1>1. /\ tokChain' \in Seq(Calls) /\ gpuChain' = gpuChain
      /\ \A k \in DOMAIN tokChain' : CallType[tokChain'[k]] \in {"token-counts", "embed-batch"}
  BY DEF JobsOk
<1> QED
  BY <1>1, AnswerKeeps

LEMMA BuildIframeKeeps ==
  ASSUME RpcInv, BuildIframe \/ ChildReady  PROVE RpcInv'
<1>1. Now' = Now
  BY DEF Now, BuildIframe, ChildReady
<1>2. ParentOk(Now') /\ Fed(Now')
  BY <1>1 DEF RpcInv
<1>3. ParentOk(Now)' /\ Fed(Now)'
  BY <1>2 DEF ParentOk, Fed, Queued, LanesOf, OnLane, Together, Lane, IsQuery
<1>4. JobsOk'
  BY ChildStays DEF RpcInv, JobsOk, BuildIframe, ChildReady
<1> QED
  BY <1>3, <1>4 DEF RpcInv, BuildIframe, ChildReady

\* What rejects every call leaves a parent with nothing to do.
LEMMA RejectAllKeeps ==
  ASSUME RejectAll, inbox' \in Seq(Calls)
  PROVE  ParentOk(Now)' /\ Fed(Now)'
<1>1. /\ Now'.q = <<>> /\ Now'.i = <<>> /\ Now'.p = {}
      /\ Now'.l = NoLanes /\ Now'.m = inbox'
  BY DEF RejectAll, Now, Parent
<1>2. ParentOk(Now') /\ Fed(Now')
  BY <1>1, NoLanesIs DEF ParentOk, Fed, Queued
<1> QED
  BY <1>2 DEF ParentOk, Fed, Queued, LanesOf, OnLane, Together, Lane, IsQuery

LEMMA DisposeKeeps ==
  ASSUME RpcInv, Dispose  PROVE RpcInv'
<1>1. ParentOk(Now)' /\ Fed(Now)'
  BY RejectAllKeeps DEF Dispose
<1>2. JobsOk'
  BY DEF Dispose, JobsOk, Jobs
<1> QED
  BY <1>1, <1>2 DEF RpcInv, Dispose

LEMMA FailInflightKeeps ==
  ASSUME RpcInv, FailInflight  PROVE RpcInv'
<1>1. inbox' \in Seq(Calls)
  BY NowFields DEF FailInflight, RpcInv, ParentOk
<1>2. ParentOk(Now)' /\ Fed(Now)'
  BY <1>1, RejectAllKeeps DEF FailInflight
<1>3. JobsOk'
  BY ChildStays DEF FailInflight, RpcInv, JobsOk
<1> QED
  BY <1>2, <1>3 DEF RpcInv, FailInflight

LEMMA OnMessageKeeps ==
  ASSUME RpcInv, OnMessage  PROVE RpcInv'
<1> DEFINE c == Head(outbox)[1]
<1>1. outbox' \in Seq(Calls \X BOOLEAN)
  BY DEF OnMessage, RpcInv, JobsOk
<1>2. JobsOk'
  BY <1>1, ChildStays DEF OnMessage, RpcInv
<1>3. CASE c \in posted
  <2>1. Settle(c)
    BY <1>3 DEF OnMessage
  <2> HIDE DEF c
  <2>2. ParentOk(Now)' /\ Fed(Now)'
    BY <1>3, <2>1, SettledKeeps DEF RpcInv
  <2> QED
    BY <1>2, <2>2 DEF RpcInv, OnMessage
<1>4. CASE c \notin posted
  <2>1. UNCHANGED parentVars /\ UNCHANGED inbox
    BY <1>4 DEF OnMessage, parentVars
  <2> QED
    BY <1>2, <2>1, ParentStays DEF RpcInv
<1> QED
  BY <1>3, <1>4

LEMMA TimeoutKeeps ==
  ASSUME RpcInv, NEW c \in Calls, Timeout(c)  PROVE RpcInv'
<1>1. JobsOk'
  BY ChildStays DEF Timeout, RpcInv, JobsOk
<1>2. ParentOk(Now)' /\ Fed(Now)'
  BY SettledKeeps DEF RpcInv, Timeout
<1> QED
  BY <1>1, <1>2 DEF RpcInv, Timeout

LEMMA SendInv ==
  ASSUME RpcInv, NEW c \in Calls, Send(c)  PROVE RpcInv'
<1>1. JobsOk'
  BY ChildStays DEF Send, RpcInv, JobsOk
<1> QED
  BY <1>1, SendKeeps DEF RpcInv, Send

LEMMA AbortKeeps ==
  ASSUME RpcInv, NEW c \in Calls, Abort(c)  PROVE RpcInv'
<1>1. JobsOk'
  BY ChildStays DEF Abort, RpcInv, JobsOk
<1>2. /\ queryRpcQueue \in Seq(Calls) /\ inbox \in Seq(Calls) /\ posted \subseteq Calls
      /\ Queued(queryRpcQueue, posted, TRUE) /\ Queued(indexRpcQueue, posted, FALSE)
      /\ lanes = LanesOf(posted) /\ Together(posted)
      /\ (posted = {} => queryRpcQueue = <<>> /\ indexRpcQueue = <<>>)
  BY NowFields DEF RpcInv, ParentOk, Fed, Queued
<1>3. /\ Queued(queryRpcQueue', posted, TRUE)
      /\ posted = {} => queryRpcQueue' = <<>>
  <2>1. CASE queryRpcQueue' = queryRpcQueue
    BY <2>1, <1>2
  <2>2. CASE \E k \in DOMAIN queryRpcQueue : queryRpcQueue' = RemoveAt(queryRpcQueue, k)
    <3>1. PICK k \in DOMAIN queryRpcQueue : queryRpcQueue' = RemoveAt(queryRpcQueue, k)
      BY <2>2
    <3>2. Queued(RemoveAt(queryRpcQueue, k), posted, TRUE)
      BY <1>2, QueuedRest
    <3>3. posted # {}
      BY <1>2
    <3> QED
      BY <3>1, <3>2, <3>3
  <2>3. \/ queryRpcQueue' = queryRpcQueue
        \/ \E k \in DOMAIN queryRpcQueue : queryRpcQueue' = RemoveAt(queryRpcQueue, k)
    <3>1. \/ \E k \in DOMAIN queryRpcQueue :
                /\ queryRpcQueue[k] = c
                /\ queryRpcQueue' = RemoveAt(queryRpcQueue, k)
          \/ UNCHANGED queryRpcQueue
      BY Zenon DEF Abort
    <3> QED
      BY <3>1
  <2> QED
    BY <2>1, <2>2, <2>3
<1>4. /\ Now'.q = queryRpcQueue' /\ Now'.i = indexRpcQueue /\ Now'.p = posted
      /\ Now'.l = lanes /\ Now'.m = inbox
  BY DEF Now, Parent, Abort
<1>5. ParentOk(Now') /\ Fed(Now')
  BY <1>2, <1>3, <1>4 DEF ParentOk, Fed
<1>6. ParentOk(Now)' /\ Fed(Now)'
  BY <1>5 DEF ParentOk, Fed, Queued, LanesOf, OnLane, Together, Lane, IsQuery
<1> QED
  BY <1>1, <1>6 DEF RpcInv, Abort
LEMMA ChildReceivesKeeps ==
  ASSUME RpcInv, ChildReceives  PROVE RpcInv'
<1> DEFINE c == Head(inbox)
<1>1. /\ inbox \in Seq(Calls) /\ inbox # <<>> /\ c \in Calls /\ Tail(inbox) \in Seq(Calls)
      /\ inbox' = Tail(inbox) /\ UNCHANGED parentVars
  <2>1. inbox \in Seq(Calls) /\ inbox # <<>>
    BY NowFields DEF RpcInv, ParentOk, ChildReceives
  <2> QED
    BY <2>1, HeadTailProperties DEF ChildReceives
<1>2. /\ Now'.q = queryRpcQueue /\ Now'.i = indexRpcQueue /\ Now'.p = posted
      /\ Now'.l = lanes /\ Now'.m = Tail(inbox)
  BY <1>1 DEF Now, Parent, parentVars
<1>3. ParentOk(Now') /\ Fed(Now')
  BY <1>1, <1>2, NowFields DEF RpcInv, ParentOk, Fed
<1>4. ParentOk(Now)' /\ Fed(Now)'
  BY <1>3 DEF ParentOk, Fed, Queued, LanesOf, OnLane, Together, Lane, IsQuery
<1>5. CallType[c] \in CallTypes
  BY <1>1, RpcAssumption
<1> HIDE DEF c
<1>6. JobsOk'
  <2>1. /\ job \in [Calls -> Jobs] /\ gpuChain \in Seq(Calls) /\ tokChain \in Seq(Calls)
        /\ outbox \in Seq(Calls \X BOOLEAN)
    BY DEF RpcInv, JobsOk
  <2>2. CASE CallType[c] = "embed-batch"
    <3>1. /\ job' = [job EXCEPT ![c] = "tokenizing"] /\ tokChain' = Append(tokChain, c)
          /\ gpuChain' = Append(gpuChain, c) /\ UNCHANGED outbox
      BY <2>2 DEF ChildReceives, c
    <3>2. /\ tokChain' \in Seq(Calls) /\ gpuChain' \in Seq(Calls)
          /\ \A d : GpuTurn(d) => GpuTurn(d)'
          /\ \A k \in DOMAIN tokChain' : tokChain'[k] = c \/ \E j \in DOMAIN tokChain : tokChain'[k] = tokChain[j]
      BY <1>1, <2>1, <3>1, AppendProperties DEF GpuTurn
    <3> QED
      BY <1>1, <2>1, <2>2, <3>1, <3>2 DEF RpcInv, JobsOk, Jobs
  <2>3. CASE CallType[c] = "token-counts" /\ hasModel
    <3>1. /\ job' = [job EXCEPT ![c] = "counting"] /\ tokChain' = Append(tokChain, c)
          /\ UNCHANGED <<gpuChain, outbox>>
      BY <2>3 DEF ChildReceives, c
    <3>2. /\ tokChain' \in Seq(Calls)
          /\ \A k \in DOMAIN tokChain' : tokChain'[k] = c \/ \E j \in DOMAIN tokChain : tokChain'[k] = tokChain[j]
      BY <1>1, <2>1, <3>1, AppendProperties
    <3> QED
      BY <1>1, <2>1, <2>3, <3>1, <3>2 DEF RpcInv, JobsOk, Jobs, GpuTurn
  <2>4. CASE CallType[c] = "token-counts" /\ ~hasModel
    <3>1. Answer(c, FALSE) /\ UNCHANGED <<tokChain, gpuChain>>
      BY <2>4 DEF ChildReceives, c
    <3> QED
      BY <1>1, <3>1, AnswerStays DEF RpcInv
  <2>5. CASE CallType[c] = "embed" /\ hasModel
    <3>1. job' = [job EXCEPT ![c] = "forward"] /\ UNCHANGED <<outbox, tokChain, gpuChain>>
      BY <2>5 DEF ChildReceives, c
    <3> QED
      BY <1>1, <2>1, <2>5, <3>1 DEF RpcInv, JobsOk, Jobs, GpuTurn
  <2>6. CASE CallType[c] = "embed" /\ ~hasModel
    <3>1. Answer(c, FALSE) /\ UNCHANGED <<tokChain, gpuChain>>
      BY <2>6 DEF ChildReceives, c
    <3> QED
      BY <1>1, <3>1, AnswerStays DEF RpcInv
  <2>7. CASE CallType[c] = "load"
    <3>1. job' = [job EXCEPT ![c] = "session"] /\ UNCHANGED <<outbox, tokChain, gpuChain>>
      BY <2>7 DEF ChildReceives, c
    <3> QED
      BY <1>1, <2>1, <2>7, <3>1 DEF RpcInv, JobsOk, Jobs, GpuTurn
  <2>8. CASE CallType[c] = "embed-worker-embed"
    <3>1. job' = [job EXCEPT ![c] = "nested"] /\ UNCHANGED <<outbox, tokChain, gpuChain>>
      BY <2>8 DEF ChildReceives, c
    <3> QED
      BY <1>1, <2>1, <2>8, <3>1 DEF RpcInv, JobsOk, Jobs, GpuTurn
  <2> QED
    BY <1>5, <2>2, <2>3, <2>4, <2>5, <2>6, <2>7, <2>8 DEF CallTypes
<1> QED
  BY <1>1, <1>4, <1>6 DEF RpcInv, parentVars

LEMMA TokenizerDoneKeeps ==
  ASSUME RpcInv, NEW ok \in BOOLEAN, TokenizerDone(ok)  PROVE RpcInv'
<1> DEFINE c == Head(tokChain)
<1>0. UNCHANGED parentVars /\ UNCHANGED inbox /\ UNCHANGED gpuChain /\ tokChain' = Tail(tokChain)
  BY DEF TokenizerDone
<1>1. /\ job \in [Calls -> Jobs] /\ gpuChain \in Seq(Calls) /\ tokChain \in Seq(Calls)
      /\ tokChain # <<>> /\ outbox \in Seq(Calls \X BOOLEAN)
  BY DEF RpcInv, JobsOk, TokenizerDone
<1>2. /\ c \in Calls /\ CallType[c] \in {"token-counts", "embed-batch"}
      /\ Tail(tokChain) \in Seq(Calls)
      /\ \A k \in DOMAIN Tail(tokChain) : Tail(tokChain)[k] = tokChain[k + 1] /\ k + 1 \in DOMAIN tokChain
  <2>1. 1 \in DOMAIN tokChain /\ c = tokChain[1]
    BY <1>1
  <2>2. /\ Tail(tokChain) \in Seq(Calls)
        /\ \A k \in DOMAIN Tail(tokChain) : Tail(tokChain)[k] = tokChain[k + 1] /\ k + 1 \in DOMAIN tokChain
    BY <1>1, HeadTailProperties
  <2> QED
    BY <1>1, <2>1, <2>2 DEF RpcInv, JobsOk
<1>3. \A k \in DOMAIN tokChain' : CallType[tokChain'[k]] \in {"token-counts", "embed-batch"}
  BY <1>0, <1>2 DEF RpcInv, JobsOk
<1> HIDE DEF c
<1>4. JobsOk'
  <2>1. CASE CallType[c] = "token-counts"
    <3>1. Answer(c, TRUE)
      BY <2>1 DEF TokenizerDone, c
    <3> QED
      BY <1>0, <1>2, <1>3, <3>1, AnswerKeeps DEF RpcInv
  <2>2. CASE CallType[c] # "token-counts"
    <3>1. job' = [job EXCEPT ![c] = IF ok THEN "tokenized" ELSE "rejected"] /\ UNCHANGED outbox
      BY <2>2 DEF TokenizerDone, c
    <3>2. CallType[c] = "embed-batch"
      BY <1>2, <2>2
    <3> QED
      BY <1>0, <1>1, <1>2, <1>3, <3>1, <3>2 DEF RpcInv, JobsOk, Jobs, GpuTurn
  <2> QED
    BY <2>1, <2>2
<1> QED
  BY <1>0, <1>4, ParentStays DEF RpcInv

\* The steps of a call that is in the child.
LEMMA JobStepKeeps ==
  ASSUME RpcInv, NEW c \in Calls, NEW ok \in BOOLEAN,
         \/ ForwardStarts(c) \/ RejectedBatch(c) \/ PoolingEnds(c)
         \/ LoadEnds(c, ok) \/ NestedEnds(c, ok)
  PROVE  RpcInv'
<1>1. UNCHANGED parentVars /\ UNCHANGED inbox /\ UNCHANGED <<tokChain, gpuChain>>
  BY DEF ForwardStarts, RejectedBatch, PoolingEnds, LoadEnds, NestedEnds
<1>2. JobsOk'
  <2>1. CASE ForwardStarts(c)
    BY <2>1 DEF ForwardStarts, RpcInv, JobsOk, Jobs, GpuTurn
  <2>2. CASE Answer(c, FALSE) \/ Answer(c, TRUE)
    BY <1>1, <2>2, AnswerStays DEF RpcInv
  <2> QED
    BY <2>1, <2>2 DEF RejectedBatch, PoolingEnds, LoadEnds, NestedEnds
<1> QED
  BY <1>1, <1>2, ParentStays DEF RpcInv

LEMMA ForwardEndsKeeps ==
  ASSUME RpcInv, NEW c \in Calls, NEW ok \in BOOLEAN, ForwardEnds(c, ok)
  PROVE  RpcInv'
<1>1. UNCHANGED parentVars /\ UNCHANGED inbox /\ UNCHANGED tokChain /\ job[c] = "forward"
  BY DEF ForwardEnds
<1>2. JobsOk'
  <2>1. CASE CallType[c] = "embed-batch"
    <3>1. GpuTurn(c) /\ gpuChain' = Tail(gpuChain) /\ gpuChain \in Seq(Calls)
      BY <1>1, <2>1 DEF ForwardEnds, RpcInv, JobsOk
    <3>2. gpuChain' \in Seq(Calls)
      BY <3>1, HeadTailProperties DEF GpuTurn
    <3>3. \A d \in Calls : d # c /\ job[d] = "forward" => CallType[d] = "embed"
      BY <3>1 DEF RpcInv, JobsOk, GpuTurn
    <3>4. CASE ok
      <4>1. job' = [job EXCEPT ![c] = "pooling"] /\ UNCHANGED outbox
        BY <2>1, <3>4 DEF ForwardEnds
      <4> QED
        BY <1>1, <3>2, <3>3, <4>1 DEF RpcInv, JobsOk, Jobs
    <3>5. CASE ~ok
      <4>1. Answer(c, FALSE)
        BY <2>1, <3>5 DEF ForwardEnds
      <4>2. outbox' \in Seq(Calls \X BOOLEAN)
        BY <4>1, AppendProperties DEF Answer, RpcInv, JobsOk
      <4> QED
        BY <1>1, <3>2, <3>3, <4>1, <4>2 DEF Answer, RpcInv, JobsOk, Jobs
    <3> QED
      BY <3>4, <3>5
  <2>2. CASE CallType[c] # "embed-batch"
    <3>1. Answer(c, ok) /\ UNCHANGED gpuChain
      BY <2>2 DEF ForwardEnds
    <3> QED
      BY <1>1, <3>1, AnswerStays DEF RpcInv
  <2> QED
    BY <2>1, <2>2
<1> QED
  BY <1>1, <1>2, ParentStays DEF RpcInv

LEMMA RpcInvNext ==
  ASSUME RpcInv, [RpcNext]_rpcVars  PROVE RpcInv'
<1>1. CASE UNCHANGED rpcVars
  <2>1. UNCHANGED parentVars /\ UNCHANGED inbox /\ UNCHANGED childVars /\ UNCHANGED outbox
    BY <1>1 DEF rpcVars
  <2>2. JobsOk'
    BY <2>1, ChildStays DEF RpcInv, JobsOk
  <2> QED
    BY <2>1, <2>2, ParentStays DEF RpcInv
<1>2. CASE RpcNext
  <2>1. CASE BuildIframe \/ ChildReady
    BY <2>1, BuildIframeKeeps
  <2>2. CASE Dispose
    BY <2>2, DisposeKeeps
  <2>3. CASE FailInflight
    BY <2>3, FailInflightKeeps
  <2>4. CASE OnMessage
    BY <2>4, OnMessageKeeps
  <2>5. CASE \E c \in Calls : Send(c) \/ Abort(c) \/ Timeout(c)
    BY <2>5, SendInv, AbortKeeps, TimeoutKeeps
  <2>6. CASE ChildStep
    BY <2>6, ChildReceivesKeeps, TokenizerDoneKeeps, JobStepKeeps, ForwardEndsKeeps DEF ChildStep
  <2> QED
    BY <1>2, <2>1, <2>2, <2>3, <2>4, <2>5, <2>6 DEF RpcNext
<1> QED
  BY <1>1, <1>2

LEMMA ForwardAloneFromInv == RpcInv => RpcForwardAlone
<1> SUFFICES ASSUME RpcInv, NEW c \in Calls, NEW d \in Calls, c # d,
                    job[c] \in {"forward", "session"}, job[d] \in {"forward", "session"}
             PROVE  /\ ~(Lane(c) = "gpu" /\ Lane(d) = "gpu")
                    /\ c \notin posted \/ d \notin posted
  BY DEF RpcForwardAlone
<1>1. \A e \in Calls : job[e] \in {"forward", "session"} =>
        IF CallType[e] = "embed-batch" THEN GpuTurn(e) ELSE CallType[e] \in {"embed", "load"}
  BY DEF RpcInv, JobsOk
<1>2. ~(Lane(c) = "gpu" /\ Lane(d) = "gpu")
  BY <1>1, LaneIs DEF GpuTurn
<1>3. Lane(c) = "exclusive" \/ Lane(d) = "exclusive"
  <2>1. \A e \in Calls : CallType[e] \in {"embed", "load"} => Lane(e) = "exclusive"
    BY DEF Lane
  <2> QED
    BY <1>1, <1>2, <2>1, LaneIs
<1>4. Together(posted)
  BY NowFields DEF RpcInv, ParentOk
<1>5. c \notin posted \/ d \notin posted
  BY <1>3, <1>4 DEF Together
<1> QED
  BY <1>2, <1>5

LEMMA LanesFromInv == RpcInv => RpcLanes
<1> SUFFICES ASSUME RpcInv  PROVE RpcLanes
  OBVIOUS
<1>1. /\ posted \subseteq Calls /\ lanes = LanesOf(posted) /\ Together(posted)
      /\ Queued(queryRpcQueue, posted, TRUE) /\ Queued(indexRpcQueue, posted, FALSE)
      /\ posted = {} => queryRpcQueue = <<>> /\ indexRpcQueue = <<>>
      /\ frame \in {"none", "building", "live"} /\ job \in [Calls -> Jobs]
  BY NowFields DEF RpcInv, ParentOk, Fed, JobsOk
<1>2. \A lane : PostedOn(lane) = OnLane(posted, lane)
  BY DEF PostedOn, OnLane
<1>3. posted \cap Waiting = {}
  BY <1>1 DEF Waiting, Range, Queued
<1>4. PostedOn("exclusive") # {} => Cardinality(posted) = 1
  <2>1. ASSUME NEW c \in PostedOn("exclusive")  PROVE posted = {c}
    BY <1>1 DEF PostedOn, Together
  <2> QED
    BY <2>1, FS_Singleton
<1>5. Cardinality(PostedOn("tok")) <= 1
  <2>1. CASE PostedOn("tok") = {}
    BY <2>1, FS_EmptySet
  <2>2. ASSUME NEW c \in PostedOn("tok")  PROVE PostedOn("tok") = {c}
    BY <1>1 DEF PostedOn, Together
  <2> QED
    BY <2>1, <2>2, FS_Singleton
<1>6. /\ lanes = [gpuCount |-> Cardinality(PostedOn("gpu")),
                  tokBusy |-> PostedOn("tok") # {},
                  exclusiveBusy |-> PostedOn("exclusive") # {}]
      /\ lanes.gpuCount <= GpuPostMax
  BY <1>1, <1>2 DEF LanesOf, Together
<1>7. Waiting # {} => posted # {}
  BY <1>1 DEF Waiting, Range
<1> QED
  BY <1>1, <1>3, <1>4, <1>5, <1>6, <1>7 DEF RpcLanes

LEMMA RpcInvHolds == RpcSpec => []RpcInv
<1>1. RpcInit => RpcInv
  BY RpcInvInit
<1>2. RpcInv /\ [RpcNext]_rpcVars => RpcInv'
  BY RpcInvNext
<1> QED
  BY <1>1, <1>2, PTL DEF RpcSpec

\* The lanes that the pump decides by are those of the posted calls, whatever
\* was answered, aborted, timed out or failed at once; an exclusive call is
\* posted alone; and no call waits when nothing is posted (pumpRpc, settle).
THEOREM LanesAreOfThePosted == RpcSpec => []RpcLanes
  BY RpcInvHolds, LanesFromInv, PTL

\* The model of the child is not reentrant: two batches are never in it
\* together, and a query or a load whose answer is awaited shares it only with
\* work that the parent has given up (the lanes, embedBatchTail).
THEOREM ForwardRunsAlone == RpcSpec => []RpcForwardAlone
  BY RpcInvHolds, ForwardAloneFromInv, PTL
=============================================================================
