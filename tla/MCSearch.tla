----------------------------- MODULE MCSearch -----------------------------
(***************************************************************************)
(* Two parts of searching, each checked alone: the resident caches under   *)
(* deltas and full reindexes, and the modal with its searches.  A          *)
(* behaviour is one of the part chosen at its start.                       *)
(***************************************************************************)
EXTENDS ResidentCaches, SearchModal

VARIABLE part

MCInit ==
  /\ part \in {"caches", "modal"}
  /\ Init /\ MdInit
  /\ part = "caches" => bother = "keys"
  /\ part = "modal" => ~indexedAt
  /\ bother = "close" => ~hasFrame                       \* bounds of the modal's part
  /\ bother \in {"index", "switch"} => model = "ready"

MCNext ==
  /\ UNCHANGED part
  /\ \/ part = "caches" /\ Next /\ UNCHANGED mdVars
     \/ part = "modal" /\ MdNext /\ UNCHANGED vars

\* The fairness of each part: timers fire, and what awaits goes on.
MCSpec ==
  /\ MCInit /\ [][MCNext]_<<part, vars, mdVars>>
  /\ Fairness
  /\ \A i \in Runs : /\ WF_mdVars(part = "modal" /\ Fire(i))
                     /\ WF_mdVars(part = "modal" /\ (Step(i) \/ LexicalEnds(i) \/ SearchEnds(i)))
                     /\ WF_mdVars(part = "modal" /\ ModelAwaited(i))
  /\ WF_mdVars(part = "modal" /\ ModelSettles)
  /\ WF_mdVars(part = "modal" /\ (HeadlessStep \/ HeadlessEnds))
=============================================================================
