-------------------------- MODULE MC_ThreadParts ---------------------------
EXTENDS ThreadParts

CONSTANTS t1, t2, t3, t4, t5

(* The last two keys have the same hash; with more than one key the two      *)
(* buckets of a new map fill up and are resized, twice for all of them.      *)
MCKeys == {<<1>>, <<2>>, <<5>>, <<1, 33>>, <<2, 2>>}

(* A task whose first helper may still be in spin_unlock when it calls again. *)
MCMaxCalls == [t \in Awaiters |-> IF t = t1 THEN 2 ELSE 1]

MCOneCall == [t \in Awaiters |-> 1]
=============================================================================
