----------------------------- MODULE Embedder -----------------------------
(***************************************************************************)
(* LocalEmbedder: the memo of the iframe build, the latch of the model     *)
(* load, and the three operations that race for them: load, recycle and    *)
(* teardown.  A runner is one IframeRunner instance; teardown takes a new  *)
(* one.  The RPCs themselves are IframeRpc's; here a load is posted to an  *)
(* iframe and ends well or badly.                                          *)
(***************************************************************************)
EXTENDS Naturals, Sequences, FiniteSets

CONSTANTS MaxLoads,      \* bound: load and recycle operations of a behaviour
          MaxRunners     \* bound: teardowns plus one

ASSUME EmbAssumption == MaxLoads \in Nat \ {0} /\ MaxRunners \in Nat \ {0}

VARIABLES
  runner,       \* the current runner, 1 .. MaxRunners
  element,      \* [runners -> "none" | "building" | "ready"], its iframe
  model,        \* [runners -> BOOLEAN], its child holds a pipeline
  embLoaded,    \* _loaded
  inits,        \* the init promises made: <<[runner, state, rebuild]>>
  initPromise,  \* the memo: an index of inits, 0 for null
  loads,        \* the load and recycle operations made
  loadPromise,  \* the latch: an index of loads, 0 for null
  disturbed     \* an operation was started while another one ran

embVars == <<runner, element, model, embLoaded, inits, initPromise, loads, loadPromise, disturbed>>

Runners == 1..MaxRunners
Ended == {"done", "failed"}
InFlight == {k \in DOMAIN loads : loads[k].phase \notin Ended}

EmbInit ==
  /\ runner = 1
  /\ element = [r \in Runners |-> "none"]
  /\ model = [r \in Runners |-> FALSE]
  /\ embLoaded = FALSE
  /\ inits = <<>> /\ initPromise = 0
  /\ loads = <<>> /\ loadPromise = 0
  /\ disturbed = FALSE

\* IframeRunner.init: at once ready when there is an iframe, finished or not.
RunnerInit(r, rebuild) ==
  /\ inits' = Append(inits, [runner |-> r, rebuild |-> rebuild,
                             state |-> IF element[r] = "none" THEN "pending" ELSE "ready"])
  /\ element' = [element EXCEPT ![r] = IF @ = "none" THEN "building" ELSE @]

\* LocalEmbedder.init: the memo, or a build of the current runner; k awaits it.
AwaitInit(k, phase) ==
  IF initPromise # 0
  THEN /\ loads' = [loads EXCEPT ![k].phase = phase, ![k].init = initPromise]
       /\ UNCHANGED <<inits, initPromise, element>>
  ELSE /\ RunnerInit(runner, FALSE)
       /\ initPromise' = Len(inits) + 1
       /\ loads' = [loads EXCEPT ![k].phase = phase, ![k].init = Len(inits) + 1]

NewLoad(kind, phase, i) == [kind |-> kind, phase |-> phase, runner |-> runner,
                            init |-> i, built |-> 0]

\* load: joined to the operation in flight, else the latch is taken.
Load ==
  /\ loadPromise = 0
  /\ Len(loads) < MaxLoads
  /\ loadPromise' = Len(loads) + 1
  /\ IF initPromise # 0
     THEN /\ loads' = Append(loads, NewLoad("load", "init", initPromise))
          /\ UNCHANGED <<inits, initPromise, element>>
     ELSE /\ RunnerInit(runner, FALSE)
          /\ initPromise' = Len(inits) + 1
          /\ loads' = Append(loads, NewLoad("load", "init", Len(inits) + 1))
  /\ disturbed' = (disturbed \/ InFlight # {})
  /\ UNCHANGED <<runner, model, embLoaded>>

-----------------------------------------------------------------------------
\* How an operation ends.  load clears the latch whoever holds it; recycle only
\* its own, and on a failure its own memo too.
LatchAfter(k) ==
  IF loads[k].kind = "load" \/ loadPromise = k THEN 0 ELSE loadPromise

Fails(k) ==
  /\ loads' = [loads EXCEPT ![k].phase = "failed"]
  /\ loadPromise' = LatchAfter(k)
  /\ initPromise' = IF loads[k].kind = "recycle" /\ initPromise = loads[k].built THEN 0 ELSE initPromise

\* The __ready of a child, or its failure: runner.init disposes of the iframe
\* and the memo is dropped for the next caller.
BuildReady(r) ==
  /\ element[r] = "building"
  /\ element' = [element EXCEPT ![r] = "ready"]
  /\ inits' = [i \in DOMAIN inits |->
                 IF inits[i].runner = r /\ inits[i].state = "pending"
                 THEN [inits[i] EXCEPT !.state = "ready"] ELSE inits[i]]
  /\ UNCHANGED <<runner, model, embLoaded, initPromise, loads, loadPromise, disturbed>>

BuildFails(r) ==
  /\ element[r] = "building"
  /\ \E i \in DOMAIN inits :
       /\ inits[i].runner = r /\ inits[i].state = "pending"
       /\ element' = [element EXCEPT ![r] = "none"]
       /\ inits' = [inits EXCEPT ![i].state = "notready"]
       /\ initPromise' = IF inits[i].rebuild /\ initPromise # i THEN initPromise ELSE 0
       /\ loads' = [k \in DOMAIN loads |->
                      IF loads[k].phase = "rpc" /\ loads[k].runner = r
                      THEN [loads[k] EXCEPT !.phase = "rejected"] ELSE loads[k]]
  /\ UNCHANGED <<runner, model, embLoaded, loadPromise, disturbed>>

\* The operation goes on after its init: the memory is read, then the load is
\* sent to the runner of that moment.
InitAwaited(k) ==
  /\ loads[k].phase \in {"init", "rebuild"}
  /\ LET i == inits[loads[k].init]
     IN \/ /\ i.state = "ready" /\ loads[k].phase = "init"
           /\ loads' = [loads EXCEPT ![k].phase = "memory"]
           /\ UNCHANGED <<inits, initPromise, element, loadPromise>>
        \/ /\ i.state = "ready" /\ loads[k].phase = "rebuild"
           /\ AwaitInit(k, "init")
           /\ UNCHANGED loadPromise
        \/ /\ i.state = "notready"
           /\ Fails(k)
           /\ UNCHANGED <<inits, element>>
  /\ UNCHANGED <<runner, model, embLoaded, disturbed>>

PostLoad(k) ==
  /\ loads[k].phase = "memory"
  /\ loads' = [loads EXCEPT ![k].runner = runner,
                            ![k].phase = IF element[runner] = "none" THEN "rejected" ELSE "rpc"]
  /\ UNCHANGED <<runner, element, model, embLoaded, inits, initPromise, loadPromise, disturbed>>

\* The child answers, or the call times out.
LoadAnswered(k, ok) ==
  /\ loads[k].phase = "rpc"
  /\ ok => element[loads[k].runner] = "ready"
  /\ loads' = [loads EXCEPT ![k].phase = IF ok THEN "answered" ELSE "rejected"]
  /\ model' = [model EXCEPT ![loads[k].runner] = @ \/ ok]
  /\ UNCHANGED <<runner, element, embLoaded, inits, initPromise, loadPromise, disturbed>>

LoadSucceeds(k) ==
  /\ loads[k].phase = "answered"
  /\ embLoaded' = TRUE
  /\ loads' = [loads EXCEPT ![k].phase = "done"]
  /\ loadPromise' = LatchAfter(k)
  /\ UNCHANGED <<runner, element, model, inits, initPromise, disturbed>>

LoadRejected(k) ==
  /\ loads[k].phase = "rejected"
  /\ embLoaded' = FALSE
  /\ Fails(k)
  /\ UNCHANGED <<runner, element, model, inits, disturbed>>

-----------------------------------------------------------------------------
\* IframeRunner.dispose: no listener and no timer is left to settle a build
\* under way; the calls in flight are rejected.
DisposeOf(r) ==
  /\ element' = [element EXCEPT ![r] = "none"]
  /\ model' = [model EXCEPT ![r] = FALSE]
  /\ inits' = [i \in DOMAIN inits |->
                 IF inits[i].runner = r /\ inits[i].state = "pending"
                 THEN [inits[i] EXCEPT !.state = "lost"] ELSE inits[i]]

Rejected(r) ==
  [k \in DOMAIN loads |->
     IF loads[k].phase = "rpc" /\ loads[k].runner = r
     THEN [loads[k] EXCEPT !.phase = "rejected"] ELSE loads[k]]

\* recycle, of an embedder that embedded: the iframe goes, and what follows waits
\* for its removal.
Recycle ==
  /\ Len(loads) < MaxLoads
  /\ \E k \in DOMAIN loads : loads[k].phase = "done"
  /\ embLoaded' = FALSE
  /\ DisposeOf(runner)
  /\ loads' = Append(Rejected(runner), NewLoad("recycle", "dispose", 0))
  /\ disturbed' = (disturbed \/ InFlight # {})
  /\ UNCHANGED <<runner, initPromise, loadPromise>>

\* A mutated form: the rebuild does not look whether its runner is still the one.
RebuildAnyway(k) ==
  /\ loads[k].phase = "dispose"
  /\ RunnerInit(loads[k].runner, TRUE)
  /\ initPromise' = Len(inits) + 1
  /\ loadPromise' = k
  /\ loads' = [loads EXCEPT ![k].phase = "rebuild",
                            ![k].init = Len(inits) + 1, ![k].built = Len(inits) + 1]
  /\ UNCHANGED <<runner, model, embLoaded, disturbed>>

\* It gives up when a teardown has replaced the runner; else the rebuild is the
\* memo and the whole is the latch before anything is awaited.
Rebuild(k) ==
  /\ loads[k].phase = "dispose"
  /\ IF runner # loads[k].runner
     THEN /\ loads' = [loads EXCEPT ![k].phase = "done"]
          /\ UNCHANGED <<inits, element, initPromise, loadPromise>>
     ELSE /\ RunnerInit(runner, TRUE)
          /\ initPromise' = Len(inits) + 1
          /\ loadPromise' = k
          /\ loads' = [loads EXCEPT ![k].phase = "rebuild",
                                    ![k].init = Len(inits) + 1, ![k].built = Len(inits) + 1]
  /\ UNCHANGED <<runner, model, embLoaded, disturbed>>

Teardown ==
  /\ runner < MaxRunners
  /\ runner' = runner + 1
  /\ embLoaded' = FALSE
  /\ initPromise' = 0 /\ loadPromise' = 0
  /\ DisposeOf(runner)
  /\ loads' = Rejected(runner)
  /\ disturbed' = (disturbed \/ InFlight # {})

-----------------------------------------------------------------------------
LoadStep(k) ==
  \/ InitAwaited(k) \/ PostLoad(k) \/ LoadSucceeds(k) \/ LoadRejected(k) \/ Rebuild(k)
  \/ \E ok \in BOOLEAN : LoadAnswered(k, ok)

EmbNext ==
  \/ Load \/ Recycle \/ Teardown
  \/ \E r \in Runners : BuildReady(r) \/ BuildFails(r)
  \/ \E k \in DOMAIN loads : LoadStep(k)

EmbSpec == EmbInit /\ [][EmbNext]_embVars

-----------------------------------------------------------------------------
LoadsPosted == {k \in DOMAIN loads : loads[k].phase = "rpc"}

(***************************************************************************)
(* Only the current runner has an iframe: a recycle that a teardown        *)
(* overtakes does not bring the old one back, and with it a second model.  *)
(***************************************************************************)
EmbNoZombie == \A r \in Runners : element[r] # "none" => r = runner

(***************************************************************************)
(* While operations come one after another, however many callers join each *)
(* of them, at most one load is under way, no build is lost, and a loaded  *)
(* embedder has a child with a model behind it.                            *)
(***************************************************************************)
EmbOneAtATime ==
  ~disturbed =>
    /\ Cardinality(LoadsPosted) <= 1
    /\ \A k \in InFlight : loads[k].phase # "dispose" => loadPromise = k
    /\ embLoaded => element[runner] = "ready" /\ model[runner]

(***************************************************************************)
(* Whatever overlaps, two loads of the model are never under way together. *)
(***************************************************************************)
EmbSingleLoad == Cardinality(LoadsPosted) <= 1
=============================================================================
