-------------------------- MODULE MCCoordination --------------------------
(***************************************************************************)
(* The three coordinators beside the search orchestrator and the flags     *)
(* behind the status surfaces, each checked alone: a behaviour is one of    *)
(* the part chosen at its start.  The write mutex is shown to implement     *)
(* FifoLock.                                                               *)
(***************************************************************************)
EXTENDS IndexCoordinator, StoreOpenRetry, DriftRecovery, StatusFlags

VARIABLE part

MCInit ==
  /\ part \in {"mutex", "open", "drift", "flags"}
  /\ IcInit /\ SrInit /\ DrInit /\ FlInit
  /\ part # "flags" => stored = 0 /\ fleet = "lead"

MCNext ==
  /\ UNCHANGED part
  /\ \/ part = "mutex" /\ IcNext /\ UNCHANGED <<srVars, drVars, flVars>>
     \/ part = "open" /\ SrNext /\ UNCHANGED <<icVars, drVars, flVars>>
     \/ part = "drift" /\ DrNext /\ UNCHANGED <<icVars, srVars, flVars>>
     \/ part = "flags" /\ FlNext /\ UNCHANGED <<icVars, srVars, drVars>>

\* The fairness of each part; the timers of the second are armed from the start.
MCSpec ==
  /\ MCInit /\ [][MCNext]_<<part, icVars, srVars, drVars, flVars>>
  /\ Fairness /\ DrFairness
  /\ WF_srVars(part = "open" /\ Fire) /\ WF_srVars(part = "open" /\ SrSettle)

---------------------------------------------------------------------------

\* The promise chain implements the FIFO lock, liveness included.
ImplementsFifoLock == Fifo!Spec

\* A lock that could not be opened is no longer waited for, in the end.
RetriesEnd == part = "open" => LockEnds
=============================================================================
