---------------------------- MODULE ThreadParts ----------------------------
(***************************************************************************)
(* The parts of a thread that share no state with each other: the task ids *)
(* and the task-local storage (TaskRes), the descriptor flags (FdTable),   *)
(* and async_wait with the run queue and the wake-up pipe (Await).  In a   *)
(* behaviour one part moves and the others are at rest: an interleaving of *)
(* steps that share no variable reaches nothing else in any part.          *)
(***************************************************************************)

EXTENDS TaskRes, FdTable, Await

CONSTANT SpecUsers  \* the tasks that use task-local storage

ASSUME SpecUsersAssumption == SpecUsers \subseteq Tasks

VARIABLE part   \* the part that moves

vars == <<part, res_vars, fd_vars, await_vars>>

Init ==
    /\ part \in {"ids", "specs", "fds", "await"}
    /\ res_init /\ fd_init /\ await_init

ids_next == \E t \in Tasks : task_create(t) \/ task_destory(t)

specs_next ==
    \E t \in SpecUsers :
        \/ task_create(t) \/ task_destory(t)
        \/ co_spec_get(t) \/ spec_clear(t)
        \/ \E k \in Keys : co_key_del(t, k) \/ \E v \in Values : co_spec_set(t, k, v)

Next ==
    /\ UNCHANGED part
    /\ \/ part = "ids" /\ ids_next /\ UNCHANGED <<fd_vars, await_vars>>
       \/ part = "specs" /\ specs_next /\ UNCHANGED <<fd_vars, await_vars>>
       \/ part = "fds" /\ fd_next /\ UNCHANGED <<res_vars, await_vars>>
       \/ part = "await" /\ await_next /\ UNCHANGED <<res_vars, fd_vars>>

(* The system runs the scheduler thread and the helper threads; a function    *)
(* given to async_wait returns, and a task comes to its next call.  That      *)
(* epoll_wait expires is not relied on.                                       *)
Fairness ==
    /\ WF_vars(part = "await" /\ scheduler_step /\ UNCHANGED <<part, res_vars, fd_vars>>)
    /\ \A h \in Helpers :
          WF_vars(part = "await" /\ helper_step(h) /\ UNCHANGED <<part, res_vars, fd_vars>>)

Spec == Init /\ [][Next]_vars /\ Fairness

=============================================================================
