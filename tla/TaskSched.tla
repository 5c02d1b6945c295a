----------------------------- MODULE TaskSched ------------------------------
(***************************************************************************)
(* The scheduler of libcask: one schedule() loop per thread (task_sched.c), *)
(* its round-robin run queue (sched_RR.c), the life of a task (task.c), and  *)
(* the protocol by which a task blocks on a wait list and is resumed.        *)
(*                                                                         *)
(* A step is a call that reads or writes memory another thread can reach: a *)
(* store to t->status, or one operation on a list.  What a thread does in   *)
(* between is private to it.  Clients are arbitrary here: a running task    *)
(* may yield, create a task, wait on any list, poll a descriptor, resume    *)
(* the first task of any list, or end.                                      *)
(***************************************************************************)
EXTENDS CoList

CONSTANTS
    Threads,    (* threads with a scheduler; a thread stands for the head of its run_list *)
    Tasks,
    WaitLists,  (* the wait_list heads of the mutexes, semaphores, ... in use *)
    Home,       (* Home[t]: the thread *(t->sched) that created t             *)
    NULL

ASSUME SchedAssumption ==
    /\ Home \in [Tasks -> Threads]
    /\ Tasks \cap Threads = {} /\ Tasks \cap WaitLists = {}
    /\ Threads \cap WaitLists = {}
    /\ NULL \notin Tasks \cup Threads \cup WaitLists

Nodes == Tasks \cup Threads \cup WaitLists

VARIABLES
    link,      (* the list pointers of every run_link, run_list and wait_list *)
    status,    (* t->status, and FREED once task_destory has freed t          *)
    where,     (* what a thread executes: main, a task, or a place in schedule() *)
    current,   (* the task it runs (g_current), came from (prev_task) or will run (next_task) *)
    enq,       (* the sched_rq_enqueue call a thread is in, and its progress  *)
    pc         (* where each task is in its own code                          *)

schedVars == <<link, status, where, current, enq>>
vars == <<link, status, where, current, enq, pc>>

task_status_t == {"READY", "RUNNABLE", "IO_BLOCK", "SYS_BLOCK", "KILLED", "FREED"}
Places == {"main", "prev", "pick", "dequeue", "task"}
NoCall == [at |-> "none", task |-> NULL]
Calls  == [at : {"status", "unlink", "add"}, task : Nodes] \cup {NoCall}

SchedTypeOK ==
    /\ link \in Links(Nodes)
    /\ status \in [Tasks -> task_status_t]
    /\ where \in [Threads -> Places]
    /\ current \in [Threads -> Nodes \cup {NULL}]
    /\ enq \in [Threads -> Calls]

SchedInit ==
    /\ link = [n \in Nodes |-> [prev |-> n, next |-> n]]
    /\ status = [t \in Tasks |-> "READY"]
    /\ where = [th \in Threads |-> "main"]
    /\ current = [th \in Threads |-> NULL]
    /\ enq = [th \in Threads |-> NoCall]

-----------------------------------------------------------------------------
(* sched_rq_enqueue(t), which co_resume(t) is another name for: the status  *)
(* first, then RR_enqueue: unlink t wherever it is, and under the lock of   *)
(* the run queue of t's thread put it at the front.                         *)

Free(th) == enq[th].at = "none"

co_resume(th, t) == enq' = [enq EXCEPT ![th] = [at |-> "status", task |-> t]]

EnqueueStatus(th) ==
    LET t == enq[th].task IN
    /\ enq[th].at = "status" /\ t \in Tasks
    /\ status' = [status EXCEPT ![t] = "RUNNABLE"]
    /\ enq' = [enq EXCEPT ![th] = [at |-> "unlink", task |-> t]]
    /\ UNCHANGED <<link, where, current>>

RR_enqueue_unlink(th) ==
    LET t == enq[th].task IN
    /\ enq[th].at = "unlink"
    /\ link' = list_delete(link, t)
    /\ enq' = [enq EXCEPT ![th] = [at |-> "add", task |-> t]]
    /\ UNCHANGED <<status, where, current>>

(* Mutant: a task is queued where the next one is picked. *)
RR_enqueue_add_last(th) ==
    LET t == enq[th].task IN
    /\ enq[th].at = "add"
    /\ link' = list_add_before(link, Home[t], t)
    /\ enq' = [enq EXCEPT ![th] = NoCall]
    /\ UNCHANGED <<status, where, current>>

RR_enqueue_add(th) ==
    LET t == enq[th].task IN
    /\ enq[th].at = "add"
    /\ link' = list_add_after(link, Home[t], t)
    /\ enq' = [enq EXCEPT ![th] = NoCall]
    /\ UNCHANGED <<status, where, current>>

-----------------------------------------------------------------------------
(* schedule(): deal with the task that gave up the thread, take the last    *)
(* task of the run queue, switch to it.                                     *)

schedule(th) ==
    /\ where[th] = "main" /\ Free(th)
    /\ where' = [where EXCEPT ![th] = "pick"]
    /\ UNCHANGED <<link, status, current, enq>>

task_destory(t) ==
    /\ link' = list_delete(link, t)
    /\ status' = [status EXCEPT ![t] = "FREED"]

(* Mutant: the break of case RUNNABLE is missing. *)
SchedPrev_falls(th) ==
    LET t == current[th] IN
    /\ where[th] = "prev"
    /\ where' = [where EXCEPT ![th] = "pick"]
    /\ current' = [current EXCEPT ![th] = NULL]
    /\ \/ status[t] = "RUNNABLE" /\ co_resume(th, t) /\ task_destory(t)
       \/ status[t] = "KILLED" /\ task_destory(t) /\ UNCHANGED enq
       \/ status[t] \notin {"RUNNABLE", "KILLED"} /\ UNCHANGED <<link, status, enq>>

SchedPrev(th) ==
    LET t == current[th] IN
    /\ where[th] = "prev"
    /\ where' = [where EXCEPT ![th] = "pick"]
    /\ current' = [current EXCEPT ![th] = NULL]
    /\ \/ status[t] = "RUNNABLE" /\ co_resume(th, t) /\ UNCHANGED <<link, status>>
       \/ status[t] = "KILLED" /\ task_destory(t) /\ UNCHANGED enq
       \/ status[t] \notin {"RUNNABLE", "KILLED"} /\ UNCHANGED <<link, status, enq>>

RR_picknext(th) ==
    LET ls == link[th].prev IN
    /\ where[th] = "pick" /\ Free(th)
    /\ ~list_empty(link, ls)
    /\ current' = [current EXCEPT ![th] = ls]
    /\ where' = [where EXCEPT ![th] = "dequeue"]
    /\ UNCHANGED <<link, status, enq>>

(* schedule() makes the task it picked RUNNABLE and switches to it. *)
run_next(th) ==
    /\ status' = [status EXCEPT ![current[th]] = "RUNNABLE"]
    /\ where' = [where EXCEPT ![th] = "task"]
    /\ UNCHANGED <<current, enq>>

(* Mutant: the task that is switched to stays in the run queue. *)
RR_dequeue_keeps(th) ==
    /\ where[th] = "dequeue" /\ current[th] \in Tasks
    /\ run_next(th) /\ UNCHANGED link

RR_dequeue(th) ==
    /\ where[th] = "dequeue" /\ current[th] \in Tasks
    /\ link' = list_delete(link, current[th])
    /\ run_next(th)

(* While it looks for the next task the thread runs event_wait, which       *)
(* resumes a task of its own that polls a descriptor.                       *)
event_wait(th, t) ==
    /\ where[th] = "pick" /\ Free(th)
    /\ Home[t] = th
    /\ co_resume(th, t)
    /\ UNCHANGED <<link, status, where, current>>

SchedStep(th) ==
    \/ EnqueueStatus(th) \/ RR_enqueue_unlink(th) \/ RR_enqueue_add(th)
    \/ schedule(th) \/ SchedPrev(th) \/ RR_picknext(th) \/ RR_dequeue(th)

-----------------------------------------------------------------------------
(* What the code of a task, or of main before schedule(), can call.         *)

Running(th) == where[th] = "task" /\ Free(th)

co_create(th, t) ==
    /\ where[th] = "main" \/ where[th] = "task"
    /\ Free(th)
    /\ status[t] = "READY" /\ Home[t] = th
    /\ co_resume(th, t)
    /\ UNCHANGED <<link, status, where, current>>

set_status(th, s) ==
    /\ status' = [status EXCEPT ![current[th]] = s]
    /\ UNCHANGED <<link, where, current, enq>>

co_yield(th) ==
    /\ where' = [where EXCEPT ![th] = "prev"]
    /\ UNCHANGED <<link, status, current, enq>>

(* Mutant: a waiter queues in front. *)
wait_on_first(th, w) ==
    /\ link' = list_add_after(link, w, current[th])
    /\ UNCHANGED <<status, where, current, enq>>

wait_on(th, w) ==
    /\ link' = list_add_before(link, w, current[th])
    /\ UNCHANGED <<status, where, current, enq>>

(* Mutant: the waker does not test that it found a task. *)
wake_first_blind(th, w) ==
    LET ls == link[w].next IN
    /\ link' = list_delete(link, ls)
    /\ co_resume(th, IF list_empty(link, ls) THEN NULL ELSE ls)
    /\ UNCHANGED <<status, where, current>>

wake_first(th, w) ==
    LET ls == link[w].next IN
    /\ ~list_empty(link, ls)
    /\ link' = list_delete(link, ls)
    /\ co_resume(th, ls)
    /\ UNCHANGED <<status, where, current>>
=============================================================================
