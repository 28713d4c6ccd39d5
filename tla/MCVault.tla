------------------------------ MODULE MCVault ------------------------------
(***************************************************************************)
(* The parts that keep the index and its shared files true to the vault,   *)
(* each checked alone: a behaviour is one of the part chosen at its start. *)
(***************************************************************************)
EXTENDS SidecarStore, SidecarHydrate, Schedulers, TLC

CONSTANTS NoteA, NoteB

\* The devices: a desktop that embeds, a phone that copies from its peers, and a
\* desktop on energy saver where anything that may throw does.
Desktop == [mobile |-> FALSE, saver |-> FALSE, mayEmbed |-> TRUE, sidecar |-> FALSE,
            faults |-> {}]
Phone   == [mobile |-> TRUE, saver |-> FALSE, mayEmbed |-> FALSE, sidecar |-> TRUE,
            faults |-> {}]
Saver   == [mobile |-> FALSE, saver |-> TRUE, mayEmbed |-> TRUE, sidecar |-> FALSE,
            faults |-> {"read", "load", "delta"}]
Devices == {Desktop, Phone, Saver}
Notes   == {NoteA, NoteB}
Symmetry == Permutations(Notes)

VARIABLE part

Init ==
  /\ part \in {"files", "hydrate", "schedulers"}
  /\ ScInit /\ HyInit /\ SdInit
  /\ part # "files" => trouble = "crash"
  /\ part # "schedulers" => device = Desktop /\ pending
  /\ part # "hydrate" => \A p \in HyPeers : local[p].meta = "none"

Next ==
  /\ UNCHANGED part
  /\ \/ part = "files" /\ ScNext /\ UNCHANGED <<hyVars, sdVars>>
     \/ part = "hydrate" /\ HyNext /\ UNCHANGED <<scVars, sdVars>>
     \/ part = "schedulers" /\ SdNext /\ UNCHANGED <<scVars, hyVars>>

allVars == <<part, scVars, hyVars, sdVars>>

Spec == Init /\ [][Next]_allVars
=============================================================================
