---------------------------- MODULE IframeRpc ----------------------------
(***************************************************************************)
(* The RPC between the plugin and the hidden iframe that holds the model:  *)
(* the two queues, the three lanes and the pump of IframeRunner, and the   *)
(* message handler of the child with its tokenizer chain and its GPU lock. *)
(*                                                                         *)
(* A call is made, waits in a queue, is posted, and settles; it may then   *)
(* be made again.  The parent forgets a posted call that times out or is   *)
(* failed by a lost device, but the child does not know: it goes on, and   *)
(* its answer is dropped.                                                  *)
(***************************************************************************)
EXTENDS Naturals, FiniteSets, SequencesExt

CONSTANTS Calls,        \* identities of calls; each is made again and again
          CallType,     \* [Calls -> the types below]
          GpuPostMax,   \* GPU_POST_MAX: batches posted at a time
          TokFails      \* may the tokenizer reject a batch?

CallTypes == {"load", "embed", "embed-batch", "token-counts", "embed-worker-embed"}

ASSUME RpcAssumption ==
  /\ IsFiniteSet(Calls)
  /\ CallType \in [Calls -> CallTypes]
  /\ GpuPostMax \in Nat \ {0}
  /\ TokFails \in BOOLEAN

VARIABLES
  frame,      \* "none" | "building" | "live": the iframe of this runner
  queryRpcQueue, indexRpcQueue,   \* calls that wait for the pump
  posted,     \* pending: calls posted and neither answered nor given up
  lanes,      \* [gpuCount, tokBusy, exclusiveBusy]
  rpcAborted, \* calls whose signal fired while they were under way
  inbox,      \* messages on their way to the child, in order
  tokChain,   \* child: calls in the order of the tokenizer's promise chain
  gpuChain,   \* child: batches in the order of embedBatchTail
  job,        \* child: [Calls -> what the child does for it]
  hasModel,   \* child: pipeline # null
  outbox      \* answers on their way to the parent: <<call, ok>>

parentVars == <<frame, queryRpcQueue, indexRpcQueue, posted, lanes, rpcAborted>>
childVars  == <<tokChain, gpuChain, job, hasModel>>
rpcVars    == <<parentVars, childVars, inbox, outbox>>

Lane(c) == CASE CallType[c] = "token-counts" -> "tok"
             [] CallType[c] = "embed-batch"  -> "gpu"
             [] OTHER                        -> "exclusive"

IsQuery(c) == CallType[c] = "embed"

Waiting == Range(queryRpcQueue) \cup Range(indexRpcQueue)

\* An identity is used again when neither side has anything left of its last call.
Unused(c) ==
  /\ c \notin Waiting \cup posted \cup Range(inbox) \cup Range(gpuChain)
  /\ job[c] = "none"
  /\ \A ok \in BOOLEAN : <<c, ok>> \notin Range(outbox)

NoLanes == [gpuCount |-> 0, tokBusy |-> FALSE, exclusiveBusy |-> FALSE]

\* setLaneBusy
Busy(l, c) ==
  CASE Lane(c) = "gpu" -> [l EXCEPT !.gpuCount = @ + 1]
    [] Lane(c) = "tok" -> [l EXCEPT !.tokBusy = TRUE]
    [] OTHER           -> [l EXCEPT !.exclusiveBusy = TRUE]

Free(l, c) ==
  CASE Lane(c) = "gpu" -> [l EXCEPT !.gpuCount = IF @ = 0 THEN 0 ELSE @ - 1]
    [] Lane(c) = "tok" -> [l EXCEPT !.tokBusy = FALSE]
    [] OTHER           -> [l EXCEPT !.exclusiveBusy = FALSE]

\* A parent state while its pump runs.
Parent(q, i, p, l, m) == [q |-> q, i |-> i, p |-> p, l |-> l, m |-> m]

\* A mutated form: a batch does not give way to a query that waits.
CanStartBeforeQuery(s, c) ==
  /\ ~s.l.exclusiveBusy
  /\ Lane(c) = "exclusive" => s.l.gpuCount = 0 /\ ~s.l.tokBusy
  /\ Lane(c) = "gpu" => s.l.gpuCount < GpuPostMax
  /\ Lane(c) = "tok" => ~s.l.tokBusy

CanStartLane(s, c) ==
  /\ ~s.l.exclusiveBusy
  /\ Lane(c) = "exclusive" => s.l.gpuCount = 0 /\ ~s.l.tokBusy
  /\ Lane(c) = "gpu" => s.q = <<>> /\ s.l.gpuCount < GpuPostMax
  /\ Lane(c) = "tok" => ~s.l.tokBusy

\* A post reaches the child only when its script is up: before that there is
\* no listener and the message is lost.
Post(s, c) == IF frame = "live" THEN Append(s.m, c) ELSE s.m

PumpOnce(s) ==
  LET startable(q) == {k \in DOMAIN q : CanStartLane(s, q[k])}
      first(q)     == CHOOSE k \in startable(q) : \A j \in startable(q) : k <= j
      start(c)     == [p |-> s.p \cup {c}, l |-> Busy(s.l, c), m |-> Post(s, c)]
      go(q, i, c)  == Parent(q, i, start(c).p, start(c).l, start(c).m)
  IN IF startable(s.q) # {}
     THEN go(RemoveAt(s.q, first(s.q)), s.i, s.q[first(s.q)])
     ELSE IF startable(s.i) # {}
     THEN go(s.q, RemoveAt(s.i, first(s.i)), s.i[first(s.i)])
     ELSE s

\* pumpRpc calls itself until nothing can start: at most one call per queued one.
PumpRpc(s) ==
  LET pump[k \in 0..(Len(s.q) + Len(s.i))] ==
        IF k = 0 THEN s ELSE CHOOSE r \in {PumpOnce(p) : p \in {pump[k - 1]}} : TRUE
  IN pump[Len(s.q) + Len(s.i)]

BecomeParent(s) ==
  /\ queryRpcQueue' = s.q
  /\ indexRpcQueue' = s.i
  /\ posted' = s.p
  /\ lanes' = s.l
  /\ inbox' = s.m

\* A posted call settles: its lane is freed, the pump runs, its signal is let go.
Settle(c) ==
  /\ BecomeParent(PumpRpc(Parent(queryRpcQueue, indexRpcQueue, posted \ {c}, Free(lanes, c), inbox)))
  /\ rpcAborted' = rpcAborted \ {c}

-----------------------------------------------------------------------------
\* The parent.

RpcInit ==
  /\ frame = "none"
  /\ queryRpcQueue = <<>> /\ indexRpcQueue = <<>>
  /\ posted = {}
  /\ lanes = NoLanes
  /\ rpcAborted = {}
  /\ inbox = <<>> /\ outbox = <<>>
  /\ tokChain = <<>> /\ gpuChain = <<>>
  /\ job = [c \in Calls |-> "none"]
  /\ hasModel = FALSE

\* init and buildIframe: the element is attached, the child's script is not up.
BuildIframe ==
  /\ frame = "none"
  /\ frame' = "building"
  /\ UNCHANGED <<queryRpcQueue, indexRpcQueue, posted, lanes, rpcAborted, childVars, inbox, outbox>>

ChildReady ==
  /\ frame = "building"
  /\ frame' = "live"
  /\ UNCHANGED <<queryRpcQueue, indexRpcQueue, posted, lanes, rpcAborted, childVars, inbox, outbox>>

\* send: rejected without an iframe, else queued and pumped.
Send(c) ==
  /\ Unused(c)
  /\ frame # "none"
  /\ LET q == IF IsQuery(c) THEN Append(queryRpcQueue, c) ELSE queryRpcQueue
         i == IF IsQuery(c) THEN indexRpcQueue ELSE Append(indexRpcQueue, c)
     IN BecomeParent(PumpRpc(Parent(q, i, posted, lanes, inbox)))
  /\ UNCHANGED <<frame, rpcAborted, childVars, outbox>>

\* onAbort: a waiting query leaves the queue, without a pump; a posted one is
\* marked and settles later.
Abort(c) ==
  /\ IsQuery(c)
  /\ \/ /\ \E k \in DOMAIN queryRpcQueue :
             queryRpcQueue[k] = c /\ queryRpcQueue' = RemoveAt(queryRpcQueue, k)
        /\ UNCHANGED rpcAborted
     \/ /\ c \in posted
        /\ rpcAborted' = rpcAborted \cup {c}
        /\ UNCHANGED queryRpcQueue
  /\ UNCHANGED <<frame, indexRpcQueue, posted, lanes, childVars, inbox, outbox>>

\* The listener of buildIframe: an answer nobody waits for is dropped.
OnMessage ==
  /\ outbox # <<>>
  /\ outbox' = Tail(outbox)
  /\ LET c == Head(outbox)[1]
     IN IF c \in posted
        THEN Settle(c)
        ELSE UNCHANGED <<queryRpcQueue, indexRpcQueue, posted, lanes, rpcAborted, inbox>>
  /\ UNCHANGED <<frame, childVars>>

Timeout(c) ==
  /\ c \in posted
  /\ Settle(c)
  /\ UNCHANGED <<frame, childVars, outbox>>

\* dispose and failInflight reject the queued calls first, then clear the
\* lanes, then reject the posted ones, whose handlers free a lane each.
RejectAll ==
  /\ queryRpcQueue' = <<>> /\ indexRpcQueue' = <<>>
  /\ posted' = {}
  /\ lanes' = NoLanes
  /\ rpcAborted' = {}

\* A failed build disposes of its iframe too.
Dispose ==
  /\ frame # "none"
  /\ frame' = "none"
  /\ RejectAll
  /\ inbox' = <<>> /\ outbox' = <<>>
  /\ tokChain' = <<>> /\ gpuChain' = <<>>
  /\ job' = [c \in Calls |-> "none"]
  /\ hasModel' = FALSE

FailInflight ==
  /\ posted # {}
  /\ RejectAll
  /\ UNCHANGED <<frame, childVars, inbox, outbox>>

-----------------------------------------------------------------------------
\* The child.  Its handler is asynchronous: it takes every message as it comes.

Answer(c, ok) ==
  /\ outbox' = Append(outbox, <<c, ok>>)
  /\ job' = [job EXCEPT ![c] = "none"]

ChildReceives ==
  /\ inbox # <<>>
  /\ LET c == Head(inbox)
     IN /\ inbox' = Tail(inbox)
        /\ CASE CallType[c] = "embed-batch" ->
                  /\ job' = [job EXCEPT ![c] = "tokenizing"]
                  /\ tokChain' = Append(tokChain, c)
                  /\ gpuChain' = Append(gpuChain, c)
                  /\ UNCHANGED outbox
             [] CallType[c] = "token-counts" ->
                  /\ IF hasModel
                     THEN /\ job' = [job EXCEPT ![c] = "counting"]
                          /\ tokChain' = Append(tokChain, c)
                          /\ UNCHANGED outbox
                     ELSE Answer(c, FALSE) /\ UNCHANGED tokChain
                  /\ UNCHANGED gpuChain
             [] CallType[c] = "embed" ->
                  /\ IF hasModel
                     THEN job' = [job EXCEPT ![c] = "forward"] /\ UNCHANGED outbox
                     ELSE Answer(c, FALSE)
                  /\ UNCHANGED <<tokChain, gpuChain>>
             [] CallType[c] \in {"load", "embed-worker-embed"} ->
                  /\ job' = [job EXCEPT ![c] = IF CallType[c] = "load" THEN "session" ELSE "nested"]
                  /\ UNCHANGED <<tokChain, gpuChain, outbox>>
  /\ UNCHANGED <<parentVars, hasModel>>

\* loadModel ends: the pipeline is there, or no path led to one.
LoadEnds(c, ok) ==
  /\ job[c] = "session"
  /\ hasModel' = (ok \/ hasModel)
  /\ Answer(c, ok)
  /\ UNCHANGED <<parentVars, inbox, tokChain, gpuChain>>

\* The nested worker answers, or its own timer ends the call.
NestedEnds(c, ok) ==
  /\ job[c] = "nested"
  /\ Answer(c, ok)
  /\ UNCHANGED <<parentVars, inbox, tokChain, gpuChain, hasModel>>

\* The head of the tokenizer chain is done.  A batch without a pipeline, or one
\* the tokenizer rejects, is answered at its turn of the GPU lock.
TokenizerDone(ok) ==
  /\ tokChain # <<>>
  /\ tokChain' = Tail(tokChain)
  /\ LET c == Head(tokChain)
     IN IF CallType[c] = "token-counts"
        THEN ok /\ Answer(c, TRUE)
        ELSE /\ ~ok => ~hasModel \/ TokFails
             /\ ok => hasModel
             /\ job' = [job EXCEPT ![c] = IF ok THEN "tokenized" ELSE "rejected"]
             /\ UNCHANGED outbox
  /\ UNCHANGED <<parentVars, inbox, gpuChain, hasModel>>

GpuTurn(c) == gpuChain # <<>> /\ Head(gpuChain) = c

\* A mutated form: a batch runs as soon as it is tokenized.
ForwardWithoutLock(c) ==
  /\ job[c] = "tokenized"
  /\ job' = [job EXCEPT ![c] = "forward"]
  /\ UNCHANGED <<parentVars, inbox, outbox, tokChain, gpuChain, hasModel>>

ForwardStarts(c) ==
  /\ GpuTurn(c) /\ job[c] = "tokenized"
  /\ job' = [job EXCEPT ![c] = "forward"]
  /\ UNCHANGED <<parentVars, inbox, outbox, tokChain, gpuChain, hasModel>>

\* runEmbedBatch has no handler for a rejected start: the call is answered and
\* its turn of the lock never ends.
RejectedBatch(c) ==
  /\ GpuTurn(c) /\ job[c] = "rejected"
  /\ Answer(c, FALSE)
  /\ UNCHANGED <<parentVars, inbox, tokChain, gpuChain, hasModel>>

\* The kernel returns: a batch releases the lock before it is pooled.
ForwardEnds(c, ok) ==
  /\ job[c] = "forward"
  /\ IF CallType[c] = "embed-batch"
     THEN /\ gpuChain' = Tail(gpuChain)
          /\ IF ok THEN job' = [job EXCEPT ![c] = "pooling"] /\ UNCHANGED outbox
                   ELSE Answer(c, FALSE)
     ELSE Answer(c, ok) /\ UNCHANGED gpuChain
  /\ UNCHANGED <<parentVars, inbox, tokChain, hasModel>>

PoolingEnds(c) ==
  /\ job[c] = "pooling"
  /\ Answer(c, TRUE)
  /\ UNCHANGED <<parentVars, inbox, tokChain, gpuChain, hasModel>>

-----------------------------------------------------------------------------
ChildStep ==
  \/ ChildReceives
  \/ \E ok \in BOOLEAN : TokenizerDone(ok)
  \/ \E c \in Calls :
       \/ ForwardStarts(c) \/ RejectedBatch(c) \/ PoolingEnds(c)
       \/ \E ok \in BOOLEAN : LoadEnds(c, ok) \/ NestedEnds(c, ok) \/ ForwardEnds(c, ok)

RpcNext ==
  \/ BuildIframe \/ ChildReady \/ Dispose \/ FailInflight \/ OnMessage
  \/ \E c \in Calls : Send(c) \/ Abort(c) \/ Timeout(c)
  \/ ChildStep

\* A posted call has a timer of its own, so it leaves the posted ones: it is
\* answered or it times out.  The child promises nothing, it may be dead.
Settles(c) == c \in posted /\ \E rest \in SUBSET (Calls \ {c}) : posted' = rest

RpcFairness == \A c \in Calls : WF_posted(Settles(c))

RpcSpec == RpcInit /\ [][RpcNext]_rpcVars /\ RpcFairness

-----------------------------------------------------------------------------
Jobs == {"none", "session", "nested", "counting", "tokenizing", "tokenized",
         "rejected", "forward", "pooling"}

PostedOn(lane) == {c \in posted : Lane(c) = lane}

(***************************************************************************)
(* The lane counters are those of the posted calls, whatever was answered, *)
(* aborted, timed out or failed at once; an exclusive call is posted       *)
(* alone; and no call waits when nothing is posted, for then nothing would *)
(* ever pump it.                                                           *)
(***************************************************************************)
RpcLanes ==
  /\ frame \in {"none", "building", "live"}
  /\ job \in [Calls -> Jobs]
  /\ posted \cap Waiting = {}
  /\ lanes = [gpuCount |-> Cardinality(PostedOn("gpu")),
              tokBusy |-> PostedOn("tok") # {},
              exclusiveBusy |-> PostedOn("exclusive") # {}]
  /\ PostedOn("exclusive") # {} => Cardinality(posted) = 1
  /\ lanes.gpuCount <= GpuPostMax
  /\ Cardinality(PostedOn("tok")) <= 1
  /\ Waiting # {} => posted # {}

(***************************************************************************)
(* The model of the child is not reentrant.  Two batches are never in it   *)
(* together, and a query or a load whose answer is awaited shares it only  *)
(* with work that the parent has given up (a timeout, a lost device).      *)
(***************************************************************************)
RpcForwardAlone ==
  \A c, d \in Calls :
    /\ c # d
    /\ job[c] \in {"forward", "session"} /\ job[d] \in {"forward", "session"}
    => /\ ~(Lane(c) = "gpu" /\ Lane(d) = "gpu")
       /\ c \notin posted \/ d \notin posted

(***************************************************************************)
(* A query that waits is posted, settled or withdrawn: neither a reindex   *)
(* that always has another batch nor a stream of token counts starves it.  *)
(***************************************************************************)
RpcQueryServed ==
  \A c \in Calls : c \in Range(queryRpcQueue) ~> c \notin Range(queryRpcQueue)

(***************************************************************************)
(* The same of a query that takes the worker route: its embed-worker-embed *)
(* is an exclusive call of the index queue.                                *)
(***************************************************************************)
RpcWorkerQueryServed ==
  \A c \in Calls :
    CallType[c] = "embed-worker-embed" /\ c \in Waiting ~> c \notin Waiting

(***************************************************************************)
(* A batch that has its turn of the GPU lock gives it back.                *)
(***************************************************************************)
RpcLockReleased ==
  \A c \in Calls :
    GpuTurn(c) /\ job[c] # "none" ~> ~GpuTurn(c)
=============================================================================
