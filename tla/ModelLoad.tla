----------------------------- MODULE ModelLoad -----------------------------
(***************************************************************************)
(* The model load inside the iframe: loadModel walks from WebGPU over its  *)
(* dtypes to the WASM proxy worker, the WASM session of the page and the   *)
(* same without SIMD, each attempt on a module instance of its own.        *)
(*                                                                         *)
(* transformers.js and the engine are external: an attempt ends well or    *)
(* badly, and some attempts have no chance (the glue lacks the kernels, or *)
(* the instance has failed before and only repeats its first error).       *)
(***************************************************************************)
EXTENDS Naturals, Sequences, FiniteSets

CONSTANTS MlLoads,   \* load calls; a second one overlaps a first that the parent gave up
          WebKit,    \* isWebKit
          GpuApi     \* navigator.gpu, with an adapter

ASSUME ModelLoadAssumption == IsFiniteSet(MlLoads) /\ {WebKit, GpuApi} \subseteq BOOLEAN

VARIABLES
  wasmWorks,     \* a WASM session of the page opens, at least without SIMD
  ml,            \* [MlLoads -> the call]
  instances,     \* <<[glue, poisoned]>>, by importGen
  pipeline,      \* null, or the [device, by] of the session
  currentDevice

mlVars == <<wasmWorks, ml, instances, pipeline, currentDevice>>

WEBGPU_DTYPE_LADDER == <<"q4", "fp32">>
NoPipeline == [device |-> "none", by |-> "none"]

\* What transformers.js pins for this engine before any override.
PinnedGlue == IF WebKit THEN "plain" ELSE "asyncify"

\* A mutated form: every attempt of a call imports the same instance.
SameTransformers(m) == IF m.gen = 0 THEN Len(instances) + 1 ELSE m.gen

\* An attempt of call m: an import under a fragment of its own, so the instance
\* is not the one that the last attempt of the call has spoilt.
FreshTransformers(m) == Len(instances) + 1

Attempt(c, m, step, glue) ==
  LET gen == FreshTransformers(m)
      spoilt == IF m.gen = 0 THEN instances ELSE [instances EXCEPT ![m.gen].poisoned = TRUE]
  IN /\ ml' = [ml EXCEPT ![c] = [m EXCEPT !.step = step, !.gen = gen]]
     /\ instances' = IF gen > Len(instances)
                     THEN Append(spoilt, [glue |-> glue, poisoned |-> FALSE]) ELSE spoilt

OverrideWebkitGlueForWebgpu(glue) == IF glue = "plain" THEN "jspi" ELSE glue
OverrideGlueForWasm(glue) == IF glue = "asyncify" THEN "plain" ELSE glue

\* Can a session of the device open on the instance at all?
Chance(g, device) ==
  /\ ~instances[g].poisoned
  /\ IF device = "webgpu" THEN instances[g].glue # "plain" ELSE instances[g].glue = "plain"

MlInit ==
  /\ wasmWorks \in BOOLEAN
  /\ ml = [c \in MlLoads |-> [step |-> "idle", req |-> "auto", gpuTried |-> FALSE,
                              rung |-> 0, gen |-> 0, device |-> "none"]]
  /\ instances = <<>>
  /\ pipeline = NoPipeline
  /\ currentDevice = "none"

-----------------------------------------------------------------------------
\* The WASM leg begins: the proxy worker first.
BeginWasm(c, m) == Attempt(c, m, "proxy", OverrideGlueForWasm(PinnedGlue))

\* The WebGPU leg fails: a forced device throws, auto goes on.
WebgpuFailed(c, m) ==
  IF m.req = "webgpu"
  THEN ml' = [ml EXCEPT ![c] = [m EXCEPT !.step = "failed"]] /\ UNCHANGED instances
  ELSE BeginWasm(c, m)

TryWebgpu(c, m, rung) ==
  Attempt(c, [m EXCEPT !.rung = rung], "webgpu", OverrideWebkitGlueForWebgpu(PinnedGlue))

LoadModel(c, req) ==
  /\ ml[c].step = "idle"
  /\ LET m == [ml[c] EXCEPT !.req = req]
     IN IF req \in {"webgpu", "auto"}
        THEN IF GpuApi THEN TryWebgpu(c, [m EXCEPT !.gpuTried = TRUE], 1)
                       ELSE WebgpuFailed(c, [m EXCEPT !.gpuTried = TRUE])
        ELSE BeginWasm(c, m)
  /\ UNCHANGED <<wasmWorks, pipeline, currentDevice>>

WebgpuRungFails(c) ==
  /\ ml[c].step = "webgpu"
  /\ IF ml[c].rung = Len(WEBGPU_DTYPE_LADDER)
     THEN WebgpuFailed(c, ml[c])
     ELSE TryWebgpu(c, ml[c], ml[c].rung + 1)
  /\ UNCHANGED <<wasmWorks, pipeline, currentDevice>>

\* The session is the pipeline at once; the answer comes after the warmup.
WebgpuOpens(c) ==
  /\ ml[c].step = "webgpu" /\ Chance(ml[c].gen, "webgpu")
  /\ pipeline' = [device |-> "webgpu", by |-> c]
  /\ ml' = [ml EXCEPT ![c].step = "warmup", ![c].device = "webgpu"]
  /\ UNCHANGED <<wasmWorks, instances, currentDevice>>

\* Warmed up, or the warmup was skipped; a dispatch of it that fails does no harm.
WarmupEnds(c) ==
  /\ ml[c].step = "warmup"
  /\ ml' = [ml EXCEPT ![c].step = "returned"]
  /\ UNCHANGED <<wasmWorks, instances, pipeline, currentDevice>>

WasmOpens(c) ==
  /\ ml[c].step \in {"proxy", "page", "nosimd"} /\ Chance(ml[c].gen, "wasm")
  /\ pipeline' = [device |-> "wasm", by |-> c]
  /\ ml' = [ml EXCEPT ![c].step = "returned", ![c].device = "wasm"]
  /\ UNCHANGED <<wasmWorks, instances, currentDevice>>

\* The proxy worker fails, or says nothing for 45 s: the page's session is next.
ProxyFails(c) ==
  /\ ml[c].step = "proxy"
  /\ Attempt(c, ml[c], "page", OverrideGlueForWasm(PinnedGlue))
  /\ UNCHANGED <<wasmWorks, pipeline, currentDevice>>

\* The page's session fails: one without SIMD when no backend was found.
PageFails(c, noBackend) ==
  /\ ml[c].step = "page"
  /\ wasmWorks /\ Chance(ml[c].gen, "wasm") => noBackend
  /\ IF noBackend
     THEN Attempt(c, ml[c], "nosimd", OverrideGlueForWasm(PinnedGlue))
     ELSE ml' = [ml EXCEPT ![c].step = "failed"] /\ UNCHANGED instances
  /\ UNCHANGED <<wasmWorks, pipeline, currentDevice>>

NoSimdFails(c) ==
  /\ ml[c].step = "nosimd"
  /\ ~(wasmWorks /\ Chance(ml[c].gen, "wasm"))
  /\ ml' = [ml EXCEPT ![c].step = "failed"]
  /\ UNCHANGED <<wasmWorks, instances, pipeline, currentDevice>>

\* The message handler goes on after its await.
Answered(c) ==
  /\ ml[c].step = "returned"
  /\ ml' = [ml EXCEPT ![c].step = "done"]
  /\ currentDevice' = ml[c].device
  /\ UNCHANGED <<wasmWorks, instances, pipeline>>

-----------------------------------------------------------------------------
MlNext ==
  \E c \in MlLoads :
    \/ \E req \in {"webgpu", "wasm", "auto"} : LoadModel(c, req)
    \/ WebgpuRungFails(c) \/ WebgpuOpens(c) \/ WarmupEnds(c)
    \/ WasmOpens(c) \/ ProxyFails(c) \/ NoSimdFails(c) \/ Answered(c)
    \/ \E noBackend \in BOOLEAN : PageFails(c, noBackend)

MlSpec == MlInit /\ [][MlNext]_mlVars

-----------------------------------------------------------------------------
Under(c) == ml[c].step \notin {"idle", "done", "failed"}

(***************************************************************************)
(* Where WASM works a load that may use it does not fail, whatever the     *)
(* WebGPU attempts and the proxy worker before it left behind; a forced    *)
(* device is never replaced by the other; auto comes to WASM only when     *)
(* every dtype has failed; and when no load is under way after one that    *)
(* overlapped no other, the padding is that of the session there is.       *)
(***************************************************************************)
ModelFallsBack ==
  /\ pipeline.device \in {"none", "webgpu", "wasm"}
  /\ \A c \in MlLoads :
       LET m == ml[c]
       IN /\ m.step = "failed" => m.req = "webgpu" \/ ~wasmWorks
          /\ m.step = "done" => m.req \in {m.device, "auto"}
          /\ m.step = "done" /\ m.device = "wasm" /\ m.gpuTried /\ GpuApi =>
               m.rung = Len(WEBGPU_DTYPE_LADDER)
          /\ m.step = "done" /\ (\A d \in MlLoads \ {c} : ml[d].step = "idle") =>
               currentDevice = pipeline.device /\ pipeline.by = c

(***************************************************************************)
(* The same of loads that overlap: when none is under way, currentDevice   *)
(* is the device of the pipeline.                                          *)
(***************************************************************************)
MlDeviceMatches ==
  (\A c \in MlLoads : ~Under(c)) => currentDevice = pipeline.device
=============================================================================
