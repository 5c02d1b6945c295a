----------------------------- MODULE MC_ChanBar -----------------------------
(* ChanBar for TLC. *)
EXTENDS ChanBar
CONSTANTS th1, th2, t1, t2, t3, t4, t5, bm, bc, cm, nf, ne

HomeOne == [t \in Tasks |-> th1]
HomeTwo == [t \in Tasks |-> IF t = t2 THEN th2 ELSE th1]
=============================================================================
