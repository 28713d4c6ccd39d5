---------------------------- MODULE MCEmbedding ----------------------------
(***************************************************************************)
(* The parts of the embedding layer, each checked alone: a behaviour is    *)
(* one of the part that is chosen at its start.                            *)
(***************************************************************************)
EXTENDS Embedder, ModelLoad, EmbedWorker, IframeRpc, TLC

CONSTANTS cq, cb1, cb2, ct, cl

\* A search's query, two batches of an indexing pass, its token counts, a load.
MCCallType ==
  cq :> "embed" @@ cb1 :> "embed-batch" @@ cb2 :> "embed-batch" @@ ct :> "token-counts" @@ cl :> "load"

VARIABLE part

Init ==
  /\ part \in {"embedder", "model", "worker", "rpc"}
  /\ EmbInit /\ MlInit /\ WkInit /\ RpcInit
  /\ part # "model" => wasmWorks

Next ==
  /\ UNCHANGED part
  /\ \/ part = "embedder" /\ EmbNext /\ UNCHANGED <<mlVars, wkVars, rpcVars>>
     \/ part = "model" /\ MlNext /\ UNCHANGED <<embVars, wkVars, rpcVars>>
     \/ part = "worker" /\ WkNext /\ UNCHANGED <<embVars, mlVars, rpcVars>>
     \/ part = "rpc" /\ RpcNext /\ UNCHANGED <<embVars, mlVars, wkVars>>

allVars == <<part, embVars, mlVars, wkVars, rpcVars>>

\* In the other parts no call is ever posted.
Spec == Init /\ [][Next]_allVars /\ RpcFairness
=============================================================================
