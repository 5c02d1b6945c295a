------------------------------- MODULE CoCond -------------------------------
(***************************************************************************)
(* co_cond.c on top of the mutex.  A condition variable is named by the     *)
(* head of its wait_list.  The code that uses it keeps its own place, at[t]; *)
(* it goes on when t is in no call of co_cond.c or co_mutex.c.              *)
(***************************************************************************)
EXTENDS CoMutex

VARIABLES
    at,      (* where a task is in the code that uses condition variables    *)
    cond     (* the co_cond_wait a task is in: its progress and its mutex    *)

NoWait == [step |-> "none", lock |-> NULL]
Waits  == [step : {"queued", "unlocked"}, lock : Mutexes] \cup {NoWait}

CondTypeOK == TypeOK /\ cond \in [Tasks -> Waits]

CondInit == Init /\ cond = [t \in Tasks |-> NoWait]

(* The task t that thread th runs goes from one place to another. *)
At(th, t, from, to) ==
    /\ Running(th) /\ t = current[th]
    /\ pc[t] = "idle" /\ cond[t] = NoWait
    /\ at[t] = from
    /\ at' = [at EXCEPT ![t] = to]

(* co_cond_wait panics unless the mutex is locked; it puts the caller on    *)
(* the wait list, unlocks, and blocks; what is left is co_mutex_lock.       *)
co_cond_wait(th, t, c, m) ==
    /\ lock[m] # NULL
    /\ wait_on(th, c)
    /\ cond' = [cond EXCEPT ![t] = [step |-> "queued", lock |-> m]]
    /\ UNCHANGED <<pc, mutexVars>>

co_cond_wait_unlock(th, t) ==
    /\ cond[t].step = "queued"
    /\ co_mutex_unlock(th, t, cond[t].lock)
    /\ cond' = [cond EXCEPT ![t].step = "unlocked"]
    /\ UNCHANGED at

(* Mutant: the waiter yields without giving up RUNNABLE. *)
co_cond_wait_block_runnable(th, t) ==
    /\ cond[t].step = "unlocked"
    /\ Goto(th, t, "idle", "blocked") /\ UNCHANGED schedVars
    /\ arg' = [arg EXCEPT ![t] = cond[t].lock]
    /\ cond' = [cond EXCEPT ![t] = NoWait]
    /\ UNCHANGED <<lock, held, at>>

co_cond_wait_block(th, t) ==
    /\ cond[t].step = "unlocked"
    /\ Goto(th, t, "idle", "blocked") /\ set_status(th, "SYS_BLOCK")
    /\ arg' = [arg EXCEPT ![t] = cond[t].lock]
    /\ cond' = [cond EXCEPT ![t] = NoWait]
    /\ UNCHANGED <<lock, held, at>>

co_cond_signal(th, c) ==
    \/ list_empty(link, link[c].next) /\ UNCHANGED schedVars
    \/ wake_first(th, c)

(* A step inside co_cond_wait or a call of co_mutex.c. *)
SyncStep(th, t) ==
    \/ co_cond_wait_unlock(th, t) \/ co_cond_wait_block(th, t)
    \/ /\ \/ co_mutex_lock_again(th, t) \/ task_wait_mutex(th, t)
          \/ co_sync_yield(th, t) \/ mutex_wakeup_task(th, t)
       /\ UNCHANGED <<at, cond>>

(* Where a task is, seen as a client of the scheduler. *)
CondPc == [t \in Tasks |-> IF cond[t] # NoWait THEN "linked" ELSE ClientLabel(pc[t])]
CondClient == INSTANCE SchedClient WITH pc <- CondPc
=============================================================================
