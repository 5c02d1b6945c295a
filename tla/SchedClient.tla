---------------------------- MODULE SchedClient -----------------------------
(***************************************************************************)
(* The scheduler under arbitrary clients.  A task yields, creates a task,   *)
(* waits on a list and blocks (list_add_before, then co_sync_yield), polls  *)
(* a descriptor (event_poll, then co_io_yield), waits on a list with a      *)
(* timer, resumes the first waiter of a list, or ends (task_exit).  The     *)
(* mutex and the other primitives are instances of this protocol.           *)
(***************************************************************************)
EXTENDS TaskSched

Labels == {"run",      (* free to call anything                              *)
           "linked",   (* on a wait list, before co_sync_yield               *)
           "blocked",  (* SYS_BLOCK stored, before the switch                *)
           "polls",    (* IO_BLOCK stored, before the switch                 *)
           "io",       (* switched out; its descriptor is in the epoll set   *)
           "killed",   (* KILLED stored, before the switch                   *)
           "dead"}     (* switched out for the last time                     *)

TypeOK == SchedTypeOK /\ pc \in [Tasks -> Labels]

Init == SchedInit /\ pc = [t \in Tasks |-> "run"]

Goto(th, from, to) ==
    /\ Running(th) /\ current[th] \in Tasks
    /\ pc[current[th]] \in from
    /\ pc' = [pc EXCEPT ![current[th]] = to]

Schedule(th) == SchedStep(th) /\ UNCHANGED pc
Create(th)   == /\ where[th] = "task" => pc[current[th]] \in {"run", "io"}
                /\ \E t \in Tasks : co_create(th, t)
                /\ UNCHANGED pc
Yield(th)    == Goto(th, {"run", "io"}, "run") /\ co_yield(th)
Wait(th)     == Goto(th, {"run", "io"}, "linked") /\ \E w \in WaitLists : wait_on(th, w)
Block(th)    == Goto(th, {"linked"}, "blocked") /\ set_status(th, "SYS_BLOCK")
Switch(th)   == Goto(th, {"blocked"}, "run") /\ co_yield(th)
(* co_cond_wait_till has a timer in the epoll set while it waits: a signal    *)
(* and the event may both resume it, in any order.                           *)
SwitchTill(th) == Goto(th, {"blocked"}, "io") /\ co_yield(th)
Wake(th)     == Goto(th, {"run", "io"}, "run") /\ \E w \in WaitLists : wake_first(th, w)
(* co_cond_wait unlocks its mutex, which wakes a waiter of the mutex, when it *)
(* is itself on the wait list of the condition variable.                     *)
WakeOther(th) == /\ Goto(th, {"linked"}, "linked")
                 /\ \E w \in WaitLists : link[w].next # current[th] /\ wake_first(th, w)
Poll(th)     == Goto(th, {"run", "io"}, "polls") /\ set_status(th, "IO_BLOCK")
PollYield(th) == Goto(th, {"polls"}, "io") /\ co_yield(th)
Event(th)    == \E t \in Tasks : /\ pc[t] = "io" /\ event_wait(th, t)
                                 /\ pc' = [pc EXCEPT ![t] = "run"]
Exit(th)     == Goto(th, {"run", "io"}, "killed") /\ set_status(th, "KILLED")
ExitYield(th) == Goto(th, {"killed"}, "dead") /\ co_yield(th)

Next == \E th \in Threads :
    \/ Schedule(th) \/ Create(th) \/ Yield(th) \/ Wait(th) \/ Block(th)
    \/ Switch(th) \/ SwitchTill(th) \/ Wake(th) \/ WakeOther(th)
    \/ Poll(th) \/ PollYield(th)
    \/ Event(th) \/ Exit(th) \/ ExitYield(th)

Spec == Init /\ [][Next]_vars

(* schedule() and straight-line code of libcask go on while they can; a task *)
(* that is free to yield again and again does so in the end.                 *)
Fairness ==
    \A th \in Threads :
        /\ WF_vars(Schedule(th)) /\ WF_vars(Block(th)) /\ WF_vars(Switch(th))
        /\ WF_vars(PollYield(th)) /\ WF_vars(ExitYield(th))
        /\ SF_vars(Yield(th))

FairSpec == Spec /\ Fairness

-----------------------------------------------------------------------------
(* Every list is intact: following next and then prev, or prev and then     *)
(* next, leads back to where one started, so the list_t's of memory form    *)
(* disjoint rings and a task is on one list at most.                        *)
LinksIntact == list_intact(link, Nodes)

(* A task that runs, and has not queued itself on a wait list, is on no     *)
(* list at all: list_add_before does not unlink its argument first, so      *)
(* co_mutex_lock, co_sem_wait and co_cond_wait all rely on it.              *)
RunningUnlinked ==
    \A th \in Threads :
        (Running(th) /\ current[th] \in Tasks /\ pc[current[th]] \in {"run", "io"})
            => list_empty(link, current[th])

(* The scheduler and the wakers only touch tasks: never freed memory, never *)
(* a list head mistaken for a task, and a task that has ended is not run.   *)
TouchesLiveTasks ==
    \A th \in Threads :
        /\ ~Free(th) => enq[th].task \in Tasks /\ status[enq[th].task] # "FREED"
        /\ where[th] \in {"prev", "dequeue", "task"}
               => current[th] \in Tasks /\ status[current[th]] # "FREED"
        /\ where[th] = "task" => pc[current[th]] # "dead"

(* Round robin: a task that sched_rq_enqueue is called for gets to run,     *)
(* whatever the other tasks do; nobody overtakes it for ever.               *)
ResumedRuns ==
    \A t \in Tasks :
        (\E th \in Threads : enq[th].task = t)
            ~> (\E th \in Threads : where[th] = "task" /\ current[th] = t)
=============================================================================
