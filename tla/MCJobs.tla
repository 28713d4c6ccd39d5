------------------------------- MODULE MCJobs -------------------------------
(***************************************************************************)
(* The jobs of the plugin object, and the handle of the database under     *)
(* them, each checked alone: a behaviour is one of the part chosen at its   *)
(* start.                                                                  *)
(***************************************************************************)
EXTENDS IndexJobs, StoreHandle

VARIABLE part

Init ==
  /\ part \in {"jobs", "handle"}
  /\ JbInit /\ StInit
  /\ part # "jobs" => jb.content = "whole"
  /\ part # "handle" => ~stDisk.held

Next ==
  /\ UNCHANGED part
  /\ \/ part = "jobs" /\ JbNext /\ UNCHANGED stVars
     \/ part = "handle" /\ StNext /\ UNCHANGED jbVars

Spec == Init /\ [][Next]_<<part, jbVars, stVars>>

\* The jobs are told apart by what they do only.
SlotSymmetry == Permutations(Slots)
=============================================================================
