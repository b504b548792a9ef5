------------------------------ MODULE MCShard ------------------------------
(* Shard for model checking: clients are interchangeable and a behaviour    *)
(* has at most MaxMishaps failed calls and restarts.                        *)
EXTENDS Shard, TLC

CONSTANT MaxMishaps   \* bound: failed calls and stops of the process

VARIABLE mishaps

MCInit == Init /\ mishaps = 0

MCNext ==
    \/ Calm /\ UNCHANGED mishaps
    \/ mishaps < MaxMishaps /\ Mishap /\ mishaps' = mishaps + 1

MCSpec == MCInit /\ [][MCNext]_<<vars, mishaps>>

Symmetry == Permutations(Clients)
=============================================================================
