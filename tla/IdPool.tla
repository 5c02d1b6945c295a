------------------------------- MODULE IdPool -------------------------------
(***************************************************************************)
(* What an allocator of task ids promises: no two tasks hold the same id;  *)
(* ids are given out in order the first time round, and from then on the   *)
(* least one that is free.                                                 *)
(***************************************************************************)

EXTENDS Integers, FiniteSetsExt

CONSTANTS
    Owners,
    max_id,
    NoId

VARIABLES
    held,   \* the id each owner has, or NoId
    fresh   \* the ids from fresh on were never given out

IsFree(id) == \A o \in Owners : held[o] # id

Init ==
    /\ held = [o \in Owners |-> NoId]
    /\ fresh = 0

Alloc(o) ==
    LET id == IF fresh < max_id THEN fresh
              ELSE Min({i \in 0 .. max_id - 1 : IsFree(i)})
    IN  /\ held[o] = NoId
        /\ \E i \in 0 .. max_id - 1 : IsFree(i)
        /\ IsFree(id)
        /\ held' = [held EXCEPT ![o] = id]
        /\ fresh' = IF fresh < max_id THEN fresh + 1 ELSE fresh

Free(o) ==
    /\ held[o] # NoId
    /\ held' = [held EXCEPT ![o] = NoId]
    /\ UNCHANGED fresh

Next == \E o \in Owners : Alloc(o) \/ Free(o)

=============================================================================
