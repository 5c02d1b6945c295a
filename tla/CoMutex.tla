------------------------------ MODULE CoMutex -------------------------------
(***************************************************************************)
(* co_mutex.c on top of the scheduler: tasks of one or several threads lock *)
(* and unlock mutexes, block on their wait lists, yield and end.  A section *)
(* under mutex->wait_lock (a spin lock that is never held across a switch)  *)
(* is one step: the lock word it reads changes only by compare-and-swap.    *)
(* A mutex is named by the head of its wait_list.                           *)
(***************************************************************************)
EXTENDS TaskSched, Sequences, FiniteSets

CONSTANT Mutexes

ASSUME MutexAssumption == Mutexes \subseteq WaitLists

VARIABLES
    lock,    (* mutex->lock: the owner, NULL when MUTEX_UNLOCKED             *)
    arg,     (* the mutex of the call a task is in                           *)
    held     (* the mutexes a task's own code was told it locked, and has not unlocked *)

mutexVars == <<lock, arg, held>>
allVars == <<link, status, where, current, enq, pc, lock, arg, held>>

Labels == {"idle",     (* in the code of the client                          *)
           "lock",     (* co_mutex_lock: before the next ATOMIC_LOCK         *)
           "wait",     (* task_wait_mutex: ATOMIC_LOCK failed                *)
           "linked",   (* on wait_list, before co_sync_yield                 *)
           "blocked",  (* SYS_BLOCK stored, before the switch                *)
           "wake",     (* co_mutex_unlock: before mutex_wakeup_task          *)
           "sleep",    (* co_mutex_lock_wait: try_lock failed                *)
           "polls",    (* IO_BLOCK stored, before the switch                 *)
           "asleep",   (* switched out, its timer in the epoll set           *)
           "awake",    (* the timer fired                                    *)
           "killed", "dead"}

TypeOK ==
    /\ SchedTypeOK
    /\ pc \in [Tasks -> Labels]
    /\ lock \in [Mutexes -> Tasks \cup {NULL}]
    /\ arg \in [Tasks -> Mutexes \cup {NULL}]
    /\ held \in [Tasks -> SUBSET Mutexes]

Init ==
    /\ SchedInit
    /\ pc = [t \in Tasks |-> "idle"]
    /\ lock = [m \in Mutexes |-> NULL]
    /\ arg = [t \in Tasks |-> NULL]
    /\ held = [t \in Tasks |-> {}]

(* The task t that thread th runs goes from one label to another. *)
Goto(th, t, from, to) ==
    /\ Running(th) /\ t = current[th]
    /\ pc[t] = from
    /\ pc' = [pc EXCEPT ![t] = to]

(* Mutant: the lock word is stored without being compared. *)
Acquire_stores(t, m) ==
    /\ lock' = [lock EXCEPT ![m] = t]
    /\ held' = [held EXCEPT ![t] = @ \cup {m}]
    /\ arg' = [arg EXCEPT ![t] = NULL]
    /\ UNCHANGED schedVars

Acquire(t, m) ==
    /\ lock[m] = NULL
    /\ lock' = [lock EXCEPT ![m] = t]
    /\ held' = [held EXCEPT ![t] = @ \cup {m}]
    /\ arg' = [arg EXCEPT ![t] = NULL]
    /\ UNCHANGED schedVars

co_mutex_lock(th, t, m) ==
    /\ m \notin held[t]
    /\ \/ Goto(th, t, "idle", "idle") /\ Acquire(t, m)
       \/ /\ Goto(th, t, "idle", "wait") /\ lock[m] # NULL
          /\ arg' = [arg EXCEPT ![t] = m]
          /\ UNCHANGED <<schedVars, lock, held>>

co_mutex_lock_again(th, t) ==
    \/ Goto(th, t, "lock", "idle") /\ Acquire(t, arg[t])
    \/ Goto(th, t, "lock", "wait") /\ lock[arg[t]] # NULL /\ UNCHANGED <<schedVars, mutexVars>>

(* Mutant: no second look at the lock word under wait_lock. *)
task_wait_mutex_trusts(th, t) ==
    UNCHANGED mutexVars /\ Goto(th, t, "wait", "linked") /\ wait_on(th, arg[t])

task_wait_mutex(th, t) ==
    /\ UNCHANGED mutexVars
    /\ \/ Goto(th, t, "wait", "lock") /\ lock[arg[t]] = NULL /\ UNCHANGED schedVars
       \/ Goto(th, t, "wait", "linked") /\ lock[arg[t]] # NULL /\ wait_on(th, arg[t])

(* Mutant: a waiter gives up the thread as RUNNABLE. *)
co_sync_yield_runnable(th, t) ==
    Goto(th, t, "linked", "lock") /\ co_yield(th) /\ UNCHANGED mutexVars

co_sync_yield(th, t) ==
    /\ UNCHANGED mutexVars
    /\ \/ Goto(th, t, "linked", "blocked") /\ set_status(th, "SYS_BLOCK")
       \/ Goto(th, t, "blocked", "lock") /\ co_yield(th)

(* A failed co_mutex_try_lock changes nothing. *)
co_mutex_try_lock(th, t, m) ==
    m \notin held[t] /\ Goto(th, t, "idle", "idle") /\ Acquire(t, m)

(* co_mutex_lock_wait when its co_mutex_try_lock fails: sleep(seconds) polls *)
(* a timer, and the answer is whether the mutex is locked.                   *)
co_mutex_lock_wait(th, t, m) ==
    /\ m \notin held[t]
    /\ Goto(th, t, "idle", "sleep") /\ lock[m] # NULL
    /\ arg' = [arg EXCEPT ![t] = m]
    /\ UNCHANGED <<schedVars, lock, held>>

co_sleep(th, t) ==
    /\ UNCHANGED mutexVars
    /\ \/ Goto(th, t, "sleep", "awake") /\ UNCHANGED schedVars   (* zero seconds *)
       \/ Goto(th, t, "sleep", "polls") /\ set_status(th, "IO_BLOCK")
       \/ Goto(th, t, "polls", "asleep") /\ co_yield(th)
       \/ /\ pc[t] = "asleep" /\ event_wait(th, t)
          /\ pc' = [pc EXCEPT ![t] = "awake"]

co_mutex_lock_wait_return(th, t) ==
    /\ Goto(th, t, "awake", "idle")
    /\ held' = [held EXCEPT ![t] = IF lock[arg[t]] # NULL THEN @ \cup {arg[t]} ELSE @]
    /\ arg' = [arg EXCEPT ![t] = NULL]
    /\ UNCHANGED <<schedVars, lock>>

(* Mutant: nobody is woken. *)
co_mutex_unlock_quiet(th, t, m) ==
    /\ m \in held[t] /\ lock[m] = t
    /\ Goto(th, t, "idle", "idle")
    /\ lock' = [lock EXCEPT ![m] = NULL]
    /\ held' = [held EXCEPT ![t] = @ \ {m}]
    /\ UNCHANGED <<schedVars, arg>>

co_mutex_unlock(th, t, m) ==
    /\ m \in held[t] /\ lock[m] = t
    /\ Goto(th, t, "idle", "wake")
    /\ lock' = [lock EXCEPT ![m] = NULL]
    /\ held' = [held EXCEPT ![t] = @ \ {m}]
    /\ arg' = [arg EXCEPT ![t] = m]
    /\ UNCHANGED schedVars

mutex_wakeup_task(th, t) ==
    /\ Goto(th, t, "wake", "idle")
    /\ arg' = [arg EXCEPT ![t] = NULL]
    /\ UNCHANGED <<lock, held>>
    /\ \/ lock[arg[t]] # NULL /\ UNCHANGED schedVars
       \/ lock[arg[t]] = NULL /\ list_empty(link, link[arg[t]].next) /\ UNCHANGED schedVars
       \/ lock[arg[t]] = NULL /\ wake_first(th, arg[t])

task_yield(th, t) ==
    Goto(th, t, "idle", "idle") /\ co_yield(th) /\ UNCHANGED mutexVars

task_exit(th, t) ==
    /\ UNCHANGED mutexVars
    /\ \/ held[t] = {} /\ Goto(th, t, "idle", "killed") /\ set_status(th, "KILLED")
       \/ Goto(th, t, "killed", "dead") /\ co_yield(th)

TaskStep(th, t) ==
    \/ \E m \in Mutexes : \/ co_mutex_lock(th, t, m) \/ co_mutex_try_lock(th, t, m)
                          \/ co_mutex_unlock(th, t, m)
    \/ co_mutex_lock_again(th, t) \/ task_wait_mutex(th, t) \/ co_sync_yield(th, t)
    \/ mutex_wakeup_task(th, t) \/ task_yield(th, t) \/ task_exit(th, t)

ThreadStep(th) ==
    /\ \/ SchedStep(th)
       \/ /\ where[th] = "task" => pc[current[th]] = "idle"
          /\ \E t \in Tasks : co_create(th, t)
    /\ UNCHANGED <<pc, mutexVars>>

Next == \E th \in Threads : ThreadStep(th) \/ \E t \in Tasks : TaskStep(th, t)

Spec == Init /\ [][Next]_allVars

(* With co_mutex_lock_wait as well.  A task it told that it has the mutex,   *)
(* when another task has, must not unlock it: that panics.                   *)
NextWait ==
    \/ Next
    \/ \E th \in Threads, t \in Tasks :
           \/ \E m \in Mutexes : co_mutex_lock_wait(th, t, m)
           \/ co_sleep(th, t) \/ co_mutex_lock_wait_return(th, t)

(* What the scheduler's loop and the code of libcask guarantee, and that a  *)
(* client which gets to run again and again yields now and then, and in the *)
(* end unlocks what it has locked.                                          *)
Fairness ==
    \A th \in Threads :
        /\ WF_allVars(SchedStep(th) /\ UNCHANGED <<pc, mutexVars>>)
        /\ \A t \in Tasks :
              /\ WF_allVars(co_mutex_lock_again(th, t)) /\ WF_allVars(task_wait_mutex(th, t))
              /\ WF_allVars(co_sync_yield(th, t)) /\ WF_allVars(mutex_wakeup_task(th, t))
              /\ WF_allVars(pc[t] = "killed" /\ task_exit(th, t))
              /\ WF_allVars(co_sleep(th, t)) /\ WF_allVars(co_mutex_lock_wait_return(th, t))
              /\ SF_allVars(task_yield(th, t))
              /\ \A m \in Mutexes : SF_allVars(co_mutex_unlock(th, t, m))

FairSpec == Init /\ [][NextWait]_allVars /\ Fairness

-----------------------------------------------------------------------------
(* What a task's code has locked and not unlocked is what it owns: no two   *)
(* tasks are ever between co_mutex_lock and co_mutex_unlock of one mutex,   *)
(* and co_mutex_unlock never panics on a task that did lock.                *)
MutualExclusion ==
    \A m \in Mutexes, t \in Tasks : m \in held[t] <=> lock[m] = t

(* A task is only ever run by the thread that created it, whoever resumes   *)
(* it and however its wake-ups interleave: its stack is never shared.       *)
RunsAtHome ==
    \A th \in Threads : where[th] = "task" => Home[current[th]] = th

Waiters(m) == list_elements(link, m, Cardinality(Tasks) + 1)
OnList(t, m) == \E i \in DOMAIN Waiters(m) : Waiters(m)[i] = t

(* A free mutex with waiters is never forgotten: some task is about to run  *)
(* mutex_wakeup_task on it, or has been taken off the list or not yet put   *)
(* on it and will try ATOMIC_LOCK again; its unlock then wakes the next.    *)
NoLostWakeup ==
    \A m \in Mutexes :
        (lock[m] = NULL /\ Waiters(m) # <<>>)
            => \E t \in Tasks :
                   /\ arg[t] = m
                   /\ \/ pc[t] = "wake"
                      \/ pc[t] \in {"lock", "wait", "linked", "blocked"} /\ ~OnList(t, m)

(* Waiters are served in the order they queued: a step leaves the wait list *)
(* as it was, appends one task, or takes the first one off.                 *)
WaitersFifo ==
    [][\A m \in Mutexes :
          \/ Waiters(m)' = Waiters(m)
          \/ \E t \in Tasks : Waiters(m)' = Append(Waiters(m), t)
          \/ Waiters(m) # <<>> /\ Waiters(m)' = Tail(Waiters(m))]_allVars

(* A queued waiter is taken off the wait list in the end, however often     *)
(* others lock and unlock around it: each co_mutex_unlock wakes one waiter, *)
(* and a waiter that finds the mutex taken queues behind the others.        *)
WaiterServed ==
    \A t \in Tasks, m \in Mutexes : OnList(t, m) ~> ~OnList(t, m)

(* Where a task in co_mutex.c is, seen as a client of the scheduler. *)
ClientLabel(l) ==
    IF l \in {"linked", "blocked", "polls", "killed", "dead"} THEN l
    ELSE IF l = "asleep" THEN "io" ELSE "run"

ClientPc == [t \in Tasks |-> ClientLabel(pc[t])]

(* The mutex is a client of the scheduler that keeps to its protocol: a     *)
(* task queues itself only while it runs, then blocks; a waker unlinks the  *)
(* first waiter and resumes it.                                             *)
Client == INSTANCE SchedClient WITH pc <- ClientPc
ClientSpec == Client!Spec
=============================================================================
