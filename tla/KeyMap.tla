------------------------------- MODULE KeyMap -------------------------------
(***************************************************************************)
(* What the task-local storage promises: every task has a function from    *)
(* keys to values, and a call changes the one key it names, of the task    *)
(* that makes it.                                                          *)
(***************************************************************************)

CONSTANTS
    Owners,
    Keys,
    Values,
    NoValue

VARIABLE
    store   \* store[o][k] is the value of key k of owner o

Empty == [k \in Keys |-> NoValue]

Init == store = [o \in Owners |-> Empty]

Set(o, k, v) == store' = [store EXCEPT ![o][k] = v]

Forget(o, k) == store' = [store EXCEPT ![o][k] = NoValue]

ForgetAll(o) == store' = [store EXCEPT ![o] = Empty]

Next ==
    \E o \in Owners :
        \/ \E k \in Keys, v \in Values : Set(o, k, v)
        \/ \E k \in Keys : Forget(o, k)
        \/ ForgetAll(o)

Spec == Init /\ [][Next]_store

=============================================================================
