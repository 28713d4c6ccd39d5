----------------------------- MODULE MCIndexing -----------------------------
(***************************************************************************)
(* How an indexing pass makes chunks of files, embeds and commits them, and *)
(* how its delta reaches the rows of the caches, each part checked alone:   *)
(* a behaviour is one of the part chosen at its start.                     *)
(***************************************************************************)
EXTENDS EmbedPipeline, RowSpaces

VARIABLE part

Init ==
  /\ part \in {"pipeline", "rows"}
  /\ PipeInit /\ RsInit

Next ==
  /\ UNCHANGED part
  /\ \/ part = "pipeline" /\ PipeNext /\ UNCHANGED rsVars
     \/ part = "rows" /\ RsNext /\ UNCHANGED pipeVars

\* In the other parts the pipeline is never started.
Spec == Init /\ [][Next]_<<part, pipeVars, rsVars>> /\ PipeFairness
=============================================================================
