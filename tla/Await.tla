------------------------------- MODULE Await -------------------------------
(***************************************************************************)
(* async_wait (co_await.c): a task starts a POSIX thread that runs a       *)
(* function for it and then, from outside the scheduler, puts the task on  *)
(* the run queue (sched_RR.c, under its spin lock, co_spin_lock.c) and     *)
(* writes to the pipe that ends the scheduler's epoll_wait.  One scheduler *)
(* thread, its tasks, the task that reads the pipe (_active_task), and one *)
(* helper thread for every call.                                           *)
(*                                                                         *)
(* A step is one read of a pointer that another thread may change, one     *)
(* store to a list_t or to the lock, or a system call; memory is           *)
(* sequentially consistent.  The scheduler takes no lock when it looks at  *)
(* the queue or unlinks a task, so that its steps and those of an          *)
(* insertion can undo each other; the threads then go on with the list as  *)
(* it is.  Only the thread that switches to what is *)
(* no task, a list head or a freed task_t, stops there ("stray").  free    *)
(* leaves a run_link as it was.  The timer task is left out: its ticks     *)
(* would end a wait that nothing else ends.  At the start _active_task has *)
(* opened the pipe and waits.                                              *)
(***************************************************************************)

EXTENDS CoList, SequencesExt

CONSTANTS
    Awaiters,   \* the tasks
    active,     \* the task that runs _active_task
    rq,         \* the head of the run queue
    S,          \* the scheduler thread
    MaxCalls    \* how often a task calls async_wait or co_yield

ASSUME AwaitAssumption ==
    /\ MaxCalls \in [Awaiters -> Nat]
    /\ active # rq
    /\ Awaiters \cap {active, rq, S} = {}

RunNodes == Awaiters \cup {active, rq}

(* The thread that the nth call of t starts. *)
Helpers == UNION {{t} \X (1 .. MaxCalls[t]) : t \in Awaiters}

VARIABLES
    link,       \* prev and next of the head and of every run_link
    lock,       \* rq->lock: SPIN_RELESAED is 1, SPIN_ACQUIRED is 0
    ins,        \* where a helper, or S, is in _await_task and RR_enqueue
    spc,        \* where S is in schedule() and RR_picknext
    enq,        \* the task S is putting on the run queue
    reg,        \* the pointer a thread has read and is about to store to
    ls, timeout,
    cur,        \* next_task, then g_current, then prev_task
    state,      \* t->status
    waits,      \* the tasks between their pthread_create and the return of async_wait
    calls,      \* how often each task has called
    pipe,       \* whether there are bytes in the pipe
    armed,      \* whether epoll_wait looks at the pipe
    fifo,       \* history: the tasks put on the run queue and not taken off, in order
    clash       \* history: whether there was a Clash

await_vars == <<link, lock, ins, reg, spc, enq, ls, timeout, cur, state, waits, calls,
                pipe, armed, fifo, clash>>

await_init ==
    /\ fifo = SetToSeq(Awaiters)
    /\ link = FoldLeft(LAMBDA l, t : list_add_after(l, rq, t),
                       [n \in RunNodes |-> [prev |-> n, next |-> n]], fifo)
    /\ lock = 1
    /\ ins = [i \in Helpers \cup {S} |-> "none"]
    /\ reg = [i \in Helpers \cup {S} |-> rq]
    /\ spc = "pick" /\ enq = active /\ ls = rq /\ timeout = 0 /\ cur = active
    /\ state = [t \in Awaiters \cup {active} |-> IF t = active THEN "IO_BLOCK" ELSE "RUNNABLE"]
    /\ waits = {}
    /\ calls = [t \in Awaiters |-> 0]
    /\ pipe = FALSE /\ armed = TRUE /\ clash = FALSE

(* The helper, or S, goes on from one place of RR_enqueue to the next. *)
Goes(i, from, to) == ins[i] = from /\ ins' = [ins EXCEPT ![i] = to]

sched_unchanged == UNCHANGED <<spc, enq, ls, timeout, cur, state, waits, calls, armed>>

(* list_delete(n) of a task that runs, waits or has ended.  Unless there was a *)
(* Clash it is on no list, and the stores are to n itself: one step.           *)
unlink(n) == link' = list_delete(link, n)

-----------------------------------------------------------------------------
(* RR_enqueue(rq, elm), by a helper of elm or by S. *)

Elm(i) == IF i \in Helpers THEN i[1] ELSE enq

enqueue_unlink(i) ==
    /\ Goes(i, "unlink", "lock")
    /\ unlink(Elm(i))
    /\ UNCHANGED <<lock, reg, pipe, fifo>>

spin_lock_ignored(i) ==     \* mutant: the lock is not looked at
    /\ Goes(i, "lock", "link")
    /\ lock' = 0
    /\ UNCHANGED <<link, reg, pipe, fifo>>

spin_lock(i) ==
    /\ Goes(i, "lock", "link")
    /\ lock = 1
    /\ lock' = 0
    /\ UNCHANGED <<link, reg, pipe, fifo>>

(* list_add_after: elm, which only i sees, gets its pointers; the first        *)
(* element of the queue is read again, and the store to it makes the scheduler *)
(* see elm; then the store to the head.                                        *)
enqueue_link(i) ==
    /\ Goes(i, "link", "read")
    /\ link' = set_next(set_prev(link, Elm(i), rq), Elm(i), link[rq].next)
    /\ UNCHANGED <<lock, reg, pipe, fifo>>

enqueue_read(i) ==
    /\ Goes(i, "read", "first")
    /\ reg' = [reg EXCEPT ![i] = link[rq].next]
    /\ UNCHANGED <<link, lock, pipe, fifo>>

enqueue_first(i) ==
    /\ Goes(i, "first", "head")
    /\ link' = set_prev(link, reg[i], Elm(i))
    /\ reg' = [reg EXCEPT ![i] = rq]
    /\ fifo' = Append(fifo, Elm(i))
    /\ UNCHANGED <<lock, pipe>>

enqueue_head(i) ==
    /\ Goes(i, "head", "unlock")
    /\ link' = set_next(link, rq, Elm(i))
    /\ UNCHANGED <<reg, lock, pipe, fifo>>

spin_unlock(i) ==
    /\ Goes(i, "unlock", IF i \in Helpers THEN "active" ELSE "none")
    /\ lock' = 1
    /\ UNCHANGED <<reg, link, pipe, fifo>>

(* _await_task around it: the function, and sched_active_event. *)

await_func(h) ==
    /\ Goes(h, "func", "unlink")
    /\ UNCHANGED <<reg, link, lock, pipe, fifo>>

sched_active_event(h) ==
    /\ Goes(h, "active", "none")
    /\ pipe' = TRUE
    /\ UNCHANGED <<reg, link, lock, fifo>>

RR_enqueue(i) ==
    /\ \/ enqueue_unlink(i) \/ spin_lock(i) \/ enqueue_link(i) \/ enqueue_read(i)
       \/ enqueue_first(i) \/ enqueue_head(i) \/ spin_unlock(i)
    /\ sched_unchanged

_await_task(h) == RR_enqueue(h) \/ ((await_func(h) \/ sched_active_event(h)) /\ sched_unchanged)

-----------------------------------------------------------------------------
(* S, when it is not in RR_enqueue. *)
At(place) == spc = place /\ ins[S] = "none"

Enqueues(t) ==
    /\ ins' = [ins EXCEPT ![S] = "unlink"]
    /\ enq' = t
    /\ state' = [state EXCEPT ![t] = "RUNNABLE"]

picknext ==
    /\ At("pick") /\ spc' = "wait"
    /\ ls' = link[rq].prev
    /\ UNCHANGED <<link, lock, reg, ins, enq, timeout, cur, state, waits, calls, pipe, armed, fifo>>

(* event_wait.  A readable pipe resumes its task and is looked at no longer.  *)
event_wait ==
    /\ At("wait") /\ pipe /\ armed
    /\ armed' = FALSE
    /\ Enqueues(active)
    /\ spc' = "events"
    /\ UNCHANGED <<link, lock, reg, ls, timeout, cur, waits, calls, pipe, fifo>>

event_wait_none ==
    /\ At("wait") /\ ~(pipe /\ armed) /\ timeout = 0
    /\ spc' = "none"
    /\ UNCHANGED <<link, lock, reg, ins, enq, ls, timeout, cur, state, waits, calls, pipe, armed, fifo>>

event_wait_expires ==
    /\ At("wait") /\ ~(pipe /\ armed) /\ timeout # 0
    /\ spc' = "none"
    /\ UNCHANGED <<link, lock, reg, ins, enq, ls, timeout, cur, state, waits, calls, pipe, armed, fifo>>

delay_event_blind ==    \* mutant: the run queue is not looked at
    /\ At("none") \/ At("events")
    /\ timeout' = IF spc = "none" THEN 60 ELSE 0
    /\ spc' = "look"
    /\ UNCHANGED <<link, lock, reg, ins, enq, ls, cur, state, waits, calls, pipe, armed, fifo>>

delay_event ==
    /\ At("none") \/ At("events")
    /\ timeout' = IF spc = "none" /\ list_empty(link, ls) THEN 60 ELSE 0
    /\ spc' = "look"
    /\ UNCHANGED <<link, lock, reg, ins, enq, ls, cur, state, waits, calls, pipe, armed, fifo>>

(* The two reads at the end of the loop: list_empty looks at what the first   *)
(* one found, which may be the head of a queue that has a task by then.       *)
look ==
    /\ At("look") /\ spc' = "empty"
    /\ ls' = link[rq].prev
    /\ UNCHANGED <<link, lock, reg, ins, enq, timeout, cur, state, waits, calls, pipe, armed, fifo>>

look_empty ==
    /\ At("empty")
    /\ IF list_empty(link, ls) THEN spc' = "wait" /\ UNCHANGED cur
                               ELSE spc' = "dequeue" /\ cur' = ls
    /\ UNCHANGED <<link, lock, reg, ins, enq, ls, timeout, state, waits, calls, pipe, armed, fifo>>

(* RR_dequeue, where a helper may change cur.prev before it is read, or after; *)
(* then cur runs, if it is a task.                                             *)
dequeue_read ==
    /\ \/ At("dequeue") /\ spc' = "dequeue_next"
       \/ At("dequeue_again") /\ spc' = "dequeue_prev"
    /\ reg' = [reg EXCEPT ![S] = link[cur].prev]
    /\ UNCHANGED <<link, lock, ins, enq, ls, timeout, cur, state, waits, calls, pipe, armed, fifo>>

dequeue_next ==
    /\ At("dequeue_next") /\ spc' = "dequeue_again"
    /\ link' = set_next(link, reg[S], link[cur].next)
    /\ reg' = [reg EXCEPT ![S] = rq]
    /\ UNCHANGED <<lock, ins, enq, ls, timeout, cur, state, waits, calls, pipe, armed, fifo>>

dequeue_prev ==
    /\ At("dequeue_prev") /\ spc' = "dequeue_init"
    /\ link' = set_prev(link, link[cur].next, reg[S])
    /\ reg' = [reg EXCEPT ![S] = rq]
    /\ fifo' = Remove(fifo, cur)
    /\ UNCHANGED <<lock, ins, enq, ls, timeout, cur, state, waits, calls, pipe, armed>>

dequeue_init ==
    /\ At("dequeue_init") /\ link' = list_init(link, cur)
    /\ IF cur = rq \/ state[cur] = "KILLED"
       THEN spc' = "stray" /\ UNCHANGED <<state, waits>>
       ELSE /\ spc' = "task"
            /\ state' = [state EXCEPT ![cur] = "RUNNABLE"]
            /\ waits' = waits \ {cur}
    /\ UNCHANGED <<lock, reg, ins, enq, ls, timeout, cur, calls, pipe, armed, fifo>>

(* schedule(), when cur has switched to it. *)
after_task ==
    /\ At("prev")
    /\ spc' = IF state[cur] = "KILLED" THEN "destory" ELSE "pick"
    /\ IF state[cur] = "RUNNABLE" THEN Enqueues(cur) ELSE UNCHANGED <<ins, enq, state>>
    /\ UNCHANGED <<link, lock, reg, ls, timeout, cur, waits, calls, pipe, armed, fifo>>

task_destory_unlink ==
    /\ At("destory") /\ spc' = "pick"
    /\ unlink(cur)
    /\ UNCHANGED <<lock, reg, ins, enq, ls, timeout, cur, state, waits, calls, pipe, armed, fifo>>

-----------------------------------------------------------------------------
(* The tasks. *)

task_unchanged == UNCHANGED <<link, lock, reg, enq, ls, timeout, cur, fifo>>

Runs(t) == At("task") /\ cur = t

(* The loop of _active_task: read takes all there is, or waits for more. *)
active_read ==
    /\ Runs(active) /\ pipe
    /\ pipe' = FALSE
    /\ UNCHANGED <<spc, ins, state, waits, calls, armed>> /\ task_unchanged

active_wait ==
    /\ Runs(active) /\ ~pipe
    /\ spc' = "arm"
    /\ UNCHANGED <<ins, state, waits, calls, pipe, armed>> /\ task_unchanged

active_arm ==
    /\ At("arm") /\ spc' = "prev"
    /\ armed' = TRUE
    /\ state' = [state EXCEPT ![active] = "IO_BLOCK"]
    /\ UNCHANGED <<ins, waits, calls, pipe>> /\ task_unchanged

(* async_wait up to pthread_create; then co_sys_yield. *)
async_wait(t) ==
    /\ Runs(t) /\ calls[t] < MaxCalls[t]
    /\ calls' = [calls EXCEPT ![t] = @ + 1]
    /\ waits' = waits \cup {t}
    /\ ins' = [ins EXCEPT ![<<t, calls'[t]>>] = "func"]
    /\ spc' = "created"
    /\ UNCHANGED <<state, pipe, armed>> /\ task_unchanged

async_wait_runnable ==  \* mutant: co_yield in place of co_sys_yield
    /\ At("created") /\ spc' = "prev"
    /\ state' = [state EXCEPT ![cur] = "RUNNABLE"]
    /\ UNCHANGED <<ins, waits, calls, pipe, armed>> /\ task_unchanged

async_wait_yield ==
    /\ At("created") /\ spc' = "prev"
    /\ state' = [state EXCEPT ![cur] = "SYS_BLOCK"]
    /\ UNCHANGED <<ins, waits, calls, pipe, armed>> /\ task_unchanged

co_yield(t) ==
    /\ Runs(t) /\ calls[t] < MaxCalls[t]
    /\ calls' = [calls EXCEPT ![t] = @ + 1]
    /\ spc' = "prev"
    /\ UNCHANGED <<ins, state, waits, pipe, armed>> /\ task_unchanged

task_exit(t) ==
    /\ Runs(t)
    /\ state' = [state EXCEPT ![t] = "KILLED"]
    /\ spc' = "prev"
    /\ UNCHANGED <<ins, waits, calls, pipe, armed>> /\ task_unchanged

-----------------------------------------------------------------------------
(* The two ways in which the queue is damaged.  An insertion has read it       *)
(* while the only task on it is being taken off, and the stores of the two     *)
(* undo each other; or RR_picknext has found the head and then a task behind   *)
(* it, and takes the head for that task.                                       *)
Clash ==
    \/ /\ spc \in {"dequeue_next", "dequeue_again", "dequeue_prev"} /\ Len(fifo) = 1
       /\ \E h \in Helpers : ins[h] \in {"read", "first", "head"}
    \/ spc = "dequeue" /\ cur = rq

scheduler_step ==
    /\ \/ RR_enqueue(S) \/ picknext \/ event_wait \/ event_wait_none \/ delay_event
       \/ look \/ look_empty
       \/ dequeue_read \/ dequeue_next \/ dequeue_prev \/ dequeue_init \/ after_task \/ task_destory_unlink
       \/ active_read \/ active_wait \/ active_arm \/ async_wait_yield
       \/ \E t \in Awaiters : async_wait(t) \/ co_yield(t) \/ task_exit(t)
    /\ clash' = (clash \/ Clash')

helper_step(h) == _await_task(h) /\ clash' = (clash \/ Clash')

await_next ==
    \/ scheduler_step
    \/ event_wait_expires /\ UNCHANGED clash
    \/ \E h \in Helpers : helper_step(h)

-----------------------------------------------------------------------------
(* What RR_picknext would take from the run queue, one after another. *)
Queue ==
    LET back == [n \in RunNodes |-> [prev |-> link[n].next, next |-> link[n].prev]]
    IN  list_elements(back, rq, Len(fifo) + 1)

(* Insertions of any number of threads and the scheduler's own removals leave *)
(* the run queue a queue at every store, and a Clash is the only thing that   *)
(* can damage it: until there was one, what the scheduler finds when it       *)
(* follows prev from the head, without the lock, is the tasks put on and not  *)
(* yet taken off, in order.  An insertion takes effect with its store to the  *)
(* first element, a removal with its store to the head.                       *)
QueueSound == ~clash => Queue = fifo

(* Until there was a Clash the helper uses the caller's co_await_t and task_t *)
(* only while the caller is inside async_wait, whose frame holds the former.  *)
AwaitFrameLive ==
    ~clash => \A h \in Helpers :
        ins[h] \in {"func", "unlink", "lock", "link", "read", "first"} =>
            h[1] \in waits /\ calls[h[1]] = h[2]

(* Until there was a Clash the scheduler does not sit in epoll_wait for a     *)
(* minute with tasks to run: there is a byte in the pipe that ends the wait,  *)
(* or a helper is about to write one.                                         *)
NoSleepOnWork ==
    ~clash /\ At("wait") /\ timeout # 0 /\ fifo # <<>> =>
        (pipe /\ armed) \/ \E h \in Helpers : ins[h] \in {"head", "unlock", "active"}

(* async_wait returns, as the task of test/thread.c that waits for add        *)
(* expects, without the help of the expiry of epoll_wait.  Violated: after a  *)
(* Clash the task may be lost, or the scheduler switch to a list head.        *)
AwaitReturns == \A t \in Awaiters : t \in waits ~> t \notin waits

=============================================================================
