----------------------------- MODULE MC_CoMutex -----------------------------
(* CoMutex for TLC. *)
EXTENDS CoMutex
CONSTANTS th1, th2, t1, t2, t3, m1

HomeOne == [t \in Tasks |-> th1]
HomeTwo == [t \in Tasks |-> IF t = t1 THEN th1 ELSE th2]
=============================================================================
