----------------------------- MODULE MCCatalog -----------------------------
(* Catalog for model checking: one database and policy; a series without    *)
(* tags and two that differ in the value of one tag; two fields, one of them *)
(* written with two types; at most MaxEvents failed calls, creations and    *)
(* drops of databases, closes and stops.                                    *)
EXTENDS Catalog

CONSTANTS MaxEvents

VARIABLES events  \* calls that failed, databases managed, closes and stops so far

MCInit == Init /\ events = 0

MCNext ==
    \/ Resolve /\ UNCHANGED events
    \/ /\ Step
       /\ events' = IF call' = NoCall /\ call.todo # <<>> THEN events + 1 ELSE events
       /\ events' <= MaxEvents
    \/ Open /\ UNCHANGED events
    \/ events < MaxEvents /\ events' = events + 1 /\ (Manages \/ Close \/ Stop)

MCSpec == MCInit /\ [][MCNext]_<<vars, events>>

Point(tags, fields) == [db |-> "d", rp |-> "r", tags |-> tags, fields |-> fields]

MCPoints ==
    {Point(<<>>, "f" :> "int"), Point("host" :> 1, "f" :> "string"), Point("host" :> 2, "g" :> "int")}
=============================================================================
