------------------------------- MODULE CoSem --------------------------------
(***************************************************************************)
(* co_sem.c on top of the scheduler: tasks of one or several threads wait   *)
(* for, try and post counting semaphores.  The counter is changed by atomic *)
(* instructions; a section under s->wait_lock is one step.  A semaphore is  *)
(* named by the head of its wait_list.                                      *)
(***************************************************************************)
EXTENDS TaskSched, Integers, FiniteSets

CONSTANTS
    Count,      (* what co_sem_init is given                                 *)
    MaxPosts,   (* bound of the model on the posts to one semaphore          *)
    MaxDebt     (* bound of the model on how far below 0 a counter goes      *)

ASSUME SemAssumption == Count \in Nat /\ MaxPosts \in Nat /\ MaxDebt \in Nat

Sems == WaitLists

VARIABLES
    sem,     (* s->sem                                                       *)
    arg,     (* the semaphore of the call a task is in                       *)
    got,     (* how many waits and tries on s have succeeded                 *)
    posts    (* how many posts s has had                                     *)

semVars == <<sem, arg, got, posts>>
allVars == <<link, status, where, current, enq, pc, sem, arg, got, posts>>

Labels == {"idle",     (* in the code of the client                          *)
           "short",    (* co_sem_wait: the counter is negative               *)
           "linked",   (* on wait_list, before co_sync_yield                 *)
           "blocked",  (* SYS_BLOCK stored, before the switch                *)
           "again",    (* back in the loop of co_sem_wait                    *)
           "try",      (* co_sem_try_wait: the counter is negative           *)
           "post",     (* co_sem_post: the counter is negative               *)
           "killed", "dead"}

TypeOK ==
    /\ SchedTypeOK
    /\ pc \in [Tasks -> Labels]
    /\ sem \in [Sems -> Int]
    /\ arg \in [Tasks -> Sems \cup {NULL}]
    /\ got \in [Sems -> Nat]
    /\ posts \in [Sems -> Nat]

Init ==
    /\ SchedInit
    /\ pc = [t \in Tasks |-> "idle"]
    /\ sem = [s \in Sems |-> Count]
    /\ arg = [t \in Tasks |-> NULL]
    /\ got = [s \in Sems |-> 0]
    /\ posts = [s \in Sems |-> 0]

(* The task t that thread th runs goes from one label to another. *)
Goto(th, t, from, to) ==
    /\ Running(th) /\ t = current[th]
    /\ pc[t] = from
    /\ pc' = [pc EXCEPT ![t] = to]

(* Mutant: the value before the subtraction is tested. *)
fetch_and_dec_negative(v) == v < 0

atomic_dec_and_negative(v) == v - 1 < 0
atomic_inc_and_negative(v) == v + 1 < 0

(* The call on s is over, with success. *)
Success(t, s) ==
    /\ got' = [got EXCEPT ![s] = got[s] + 1]
    /\ arg' = [arg EXCEPT ![t] = NULL]
    /\ UNCHANGED <<schedVars, posts>>

(* One atomic_dec_and_negative on s: it succeeds, or the call goes on. *)
Decrement(th, t, s, from, to) ==
    /\ pc[t] = from /\ sem[s] > -MaxDebt
    /\ sem' = [sem EXCEPT ![s] = sem[s] - 1]
    /\ \/ /\ ~atomic_dec_and_negative(sem[s])
          /\ Goto(th, t, from, "idle") /\ Success(t, s)
       \/ /\ atomic_dec_and_negative(sem[s])
          /\ Goto(th, t, from, to)
          /\ arg' = [arg EXCEPT ![t] = s]
          /\ UNCHANGED <<schedVars, got, posts>>

co_sem_wait(th, t, s) == Decrement(th, t, s, "idle", "short")

co_sem_wait_again(th, t) == Decrement(th, t, arg[t], "again", "short")

co_sem_wait_locked(th, t) ==
    /\ UNCHANGED sem
    /\ \/ Goto(th, t, "short", "idle") /\ sem[arg[t]] >= 0 /\ Success(t, arg[t])
       \/ /\ Goto(th, t, "short", "linked") /\ sem[arg[t]] < 0
          /\ wait_on(th, arg[t]) /\ UNCHANGED <<arg, got, posts>>

(* Mutant: a waiter gives up the thread as RUNNABLE. *)
co_sync_yield_runnable(th, t) ==
    Goto(th, t, "linked", "again") /\ co_yield(th) /\ UNCHANGED semVars

co_sync_yield(th, t) ==
    /\ UNCHANGED semVars
    /\ \/ Goto(th, t, "linked", "blocked") /\ set_status(th, "SYS_BLOCK")
       \/ Goto(th, t, "blocked", "again") /\ co_yield(th)

co_sem_try_wait(th, t, s) == Decrement(th, t, s, "idle", "try")

(* The test and the atomic_inc that takes the decrement back are one step:   *)
(* only posts and decrements outside the lock can come between, and the pair *)
(* can be moved to just before the last post that lifts the counter to 0.    *)
co_sem_try_wait_locked(th, t) ==
    /\ Goto(th, t, "try", "idle")
    /\ \/ sem[arg[t]] >= 0 /\ Success(t, arg[t]) /\ UNCHANGED sem
       \/ /\ sem[arg[t]] < 0
          /\ sem' = [sem EXCEPT ![arg[t]] = sem[arg[t]] + 1]
          /\ arg' = [arg EXCEPT ![t] = NULL]
          /\ UNCHANGED <<schedVars, got, posts>>

co_sem_post(th, t, s) ==
    /\ posts[s] < MaxPosts
    /\ posts' = [posts EXCEPT ![s] = posts[s] + 1]
    /\ sem' = [sem EXCEPT ![s] = sem[s] + 1]
    /\ UNCHANGED <<schedVars, got>>
    /\ \/ /\ ~atomic_inc_and_negative(sem[s])
          /\ Goto(th, t, "idle", "idle") /\ UNCHANGED arg
       \/ /\ atomic_inc_and_negative(sem[s])
          /\ Goto(th, t, "idle", "post")
          /\ arg' = [arg EXCEPT ![t] = s]

co_sem_post_locked(th, t) ==
    /\ Goto(th, t, "post", "idle")
    /\ arg' = [arg EXCEPT ![t] = NULL]
    /\ UNCHANGED <<sem, got, posts>>
    /\ \/ sem[arg[t]] >= 0 /\ UNCHANGED schedVars
       \/ sem[arg[t]] < 0 /\ list_empty(link, link[arg[t]].next) /\ UNCHANGED schedVars
       \/ sem[arg[t]] < 0 /\ wake_first(th, arg[t])

task_yield(th, t) ==
    Goto(th, t, "idle", "idle") /\ co_yield(th) /\ UNCHANGED semVars

task_exit(th, t) ==
    /\ UNCHANGED semVars
    /\ \/ Goto(th, t, "idle", "killed") /\ set_status(th, "KILLED")
       \/ Goto(th, t, "killed", "dead") /\ co_yield(th)

TaskStep(th, t) ==
    \/ \E s \in Sems : \/ co_sem_wait(th, t, s) \/ co_sem_try_wait(th, t, s)
                       \/ co_sem_post(th, t, s)
    \/ co_sem_wait_again(th, t) \/ co_sem_wait_locked(th, t) \/ co_sync_yield(th, t)
    \/ co_sem_try_wait_locked(th, t) \/ co_sem_post_locked(th, t)
    \/ task_yield(th, t) \/ task_exit(th, t)

ThreadStep(th) ==
    /\ \/ SchedStep(th)
       \/ /\ where[th] = "task" => pc[current[th]] = "idle"
          /\ \E t \in Tasks : co_create(th, t)
    /\ UNCHANGED <<pc, semVars>>

Next == \E th \in Threads : ThreadStep(th) \/ \E t \in Tasks : TaskStep(th, t)

Spec == Init /\ [][Next]_allVars

(* The scheduler's loop and the code of co_sem.c go on; a client that gets  *)
(* to run again and again yields now and then.                              *)
Fairness ==
    \A th \in Threads :
        /\ WF_allVars(SchedStep(th) /\ UNCHANGED <<pc, semVars>>)
        /\ \A t \in Tasks :
              /\ WF_allVars(co_sem_wait_again(th, t)) /\ WF_allVars(co_sem_wait_locked(th, t))
              /\ WF_allVars(co_sync_yield(th, t)) /\ WF_allVars(co_sem_try_wait_locked(th, t))
              /\ WF_allVars(co_sem_post_locked(th, t))
              /\ WF_allVars(pc[t] = "killed" /\ task_exit(th, t))
              /\ SF_allVars(task_yield(th, t))

FairSpec == Spec /\ Fairness

-----------------------------------------------------------------------------
(* The semaphore never lets in more than it has permits for: the successful *)
(* waits and tries on s are at most its initial count plus its posts,       *)
(* whatever decrements were taken back or left behind on the way.           *)
SafePermits == \A s \in Sems : got[s] <= Count + posts[s]

(* What co_sem_post is for: while there is a permit nobody has taken, a     *)
(* task that waits in co_sem_wait does not wait for ever.                   *)
PermitReachesWaiter ==
    \A t \in Tasks, s \in Sems :
        (pc[t] = "again" /\ arg[t] = s /\ got[s] < Count + posts[s])
            ~> (pc[t] # "again" \/ got[s] = Count + posts[s])

(* Where a task in co_sem.c is, seen as a client of the scheduler. *)
ClientLabel(l) == IF l \in {"linked", "blocked", "killed", "dead"} THEN l ELSE "run"

ClientPc == [t \in Tasks |-> ClientLabel(pc[t])]

(* The semaphore is a client of the scheduler that keeps to its protocol.   *)
Client == INSTANCE SchedClient WITH pc <- ClientPc
ClientSpec == Client!Spec
=============================================================================
