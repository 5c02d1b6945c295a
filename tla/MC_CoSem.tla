------------------------------ MODULE MC_CoSem ------------------------------
(* CoSem for TLC. *)
EXTENDS CoSem
CONSTANTS th1, th2, t1, t2, t3, s1

HomeOne == [t \in Tasks |-> th1]
HomeTwo == [t \in Tasks |-> IF t = t1 THEN th1 ELSE th2]
=============================================================================
