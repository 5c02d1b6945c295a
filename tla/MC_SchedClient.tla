--------------------------- MODULE MC_SchedClient ---------------------------
(* SchedClient for TLC. *)
EXTENDS SchedClient
CONSTANTS th1, th2, t1, t2, t3, t4, w1, w2

HomeOne == [t \in Tasks |-> th1]
HomeTwo == [t \in Tasks |-> IF t = t1 THEN th1 ELSE th2]
=============================================================================
