------------------------------ MODULE MCEngine ------------------------------
(* Engine for model checking: clients are interchangeable, and a behaviour  *)
(* has at most MaxMaintenance flushes, compactions, queries, retention runs *)
(* and closes, and at most MaxMishaps failed calls and stops.                    *)
EXTENDS Engine

CONSTANTS MaxMaintenance, MaxMishaps

VARIABLES maintained, mishaps

MCInit == Init /\ maintained = 0 /\ mishaps = 0

MCNext ==
    \/ Work /\ UNCHANGED <<maintained, mishaps>>
    \/ /\ maintained < MaxMaintenance /\ maintained' = maintained + 1
       /\ Maintenance /\ UNCHANGED mishaps
    \/ /\ mishaps < MaxMishaps /\ mishaps' = mishaps + 1
       /\ Mishap /\ UNCHANGED maintained

MCSpec == MCInit /\ [][MCNext]_<<vars, maintained, mishaps>>

Symmetry == Permutations(Clients)
=============================================================================
