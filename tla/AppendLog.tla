----------------------------- MODULE AppendLog -----------------------------
(***************************************************************************)
(* What a shard takes its log to be: records are added at the end and lost  *)
(* only from the front. Shard models the log this way (its variable wal);   *)
(* Wal shows that segments, rolls and checkpoints implement it. Records are *)
(* named by the order in which they were appended.                          *)
(***************************************************************************)
EXTENDS Integers

VARIABLE log

Init == log = {}

AppendRecord ==
    \E r \in log' : log' = log \cup {r} /\ \A q \in log : q < r

DropOldest ==
    /\ log' \subseteq log
    /\ \A r \in log', q \in log : r < q => q \in log'

Spec == Init /\ [][AppendRecord \/ DropOldest]_log

=============================================================================
