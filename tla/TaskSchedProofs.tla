-------------------------- MODULE TaskSchedProofs ---------------------------
(***************************************************************************)
(* The scheduler keeps the types of its state, on any number of threads and *)
(* whatever its clients do.                                                 *)
(***************************************************************************)
EXTENDS TaskSched, CoListProofs

(* What RR_enqueue links, what runs, and what schedule() looks at when it    *)
(* has given up the thread, is a task.                                       *)
SchedTasks ==
    \A th \in Threads : /\ enq[th].at \in {"unlink", "add"} => enq[th].task \in Tasks
                        /\ where[th] \in {"task", "prev"} => current[th] \in Tasks

SchedTInv == SchedTypeOK /\ SchedTasks

LEMMA NodeTypes ==
    /\ Tasks \subseteq Nodes /\ Threads \subseteq Nodes /\ WaitLists \subseteq Nodes
    /\ \A t \in Tasks : Home[t] \in Nodes
    /\ NULL \notin Nodes
BY SchedAssumption DEF Nodes

LEMMA SchedInitTypes == SchedInit => SchedTInv
BY DEF SchedInit, SchedTInv, SchedTypeOK, SchedTasks, Links, NoCall, Calls, Places, task_status_t

(* A step of sched_rq_enqueue, or of schedule(). *)
LEMMA SchedStepTypes ==
    ASSUME SchedTInv, NEW th \in Threads, SchedStep(th)
    PROVE  SchedTInv'
<1>. USE NodeTypes
<1>1. CASE EnqueueStatus(th)
  BY <1>1 DEF EnqueueStatus, SchedTInv, SchedTypeOK, SchedTasks, Calls, NoCall, task_status_t
<1>2. CASE RR_enqueue_unlink(th)
  <2>1. link' \in Links(Nodes)
    BY <1>2, ListTypes DEF RR_enqueue_unlink, SchedTInv, SchedTypeOK, SchedTasks
  <2>. QED BY <1>2, <2>1 DEF RR_enqueue_unlink, SchedTInv, SchedTypeOK, SchedTasks, Calls, NoCall
<1>3. CASE RR_enqueue_add(th)
  <2>1. link' \in Links(Nodes)
    BY <1>3, ListTypes DEF RR_enqueue_add, SchedTInv, SchedTypeOK, SchedTasks
  <2>. QED BY <1>3, <2>1 DEF RR_enqueue_add, SchedTInv, SchedTypeOK, SchedTasks, Calls, NoCall
<1>4. CASE schedule(th)
  BY <1>4 DEF schedule, SchedTInv, SchedTypeOK, SchedTasks, Places
<1>5. CASE SchedPrev(th)
  <2>1. current[th] \in Tasks
    BY <1>5 DEF SchedPrev, SchedTInv, SchedTasks
  <2>2. link' \in Links(Nodes)
    BY <1>5, <2>1, ListTypes DEF SchedPrev, task_destory, SchedTInv, SchedTypeOK
  <2>3. status' \in [Tasks -> task_status_t]
    BY <1>5 DEF SchedPrev, task_destory, SchedTInv, SchedTypeOK, task_status_t
  <2>4. enq' \in [Threads -> Calls]
    BY <1>5, <2>1 DEF SchedPrev, co_resume, SchedTInv, SchedTypeOK, Calls
  <2>5. /\ where' \in [Threads -> Places] /\ where'[th] = "pick"
        /\ current' \in [Threads -> Nodes \cup {NULL}]
        /\ \A a \in Threads \ {th} : where'[a] = where[a] /\ current'[a] = current[a]
    BY <1>5 DEF SchedPrev, SchedTInv, SchedTypeOK, Places
  <2>6. \A a \in Threads : enq'[a].at \in {"unlink", "add"} => enq'[a] = enq[a]
    BY <1>5 DEF SchedPrev, co_resume, SchedTInv, SchedTypeOK
  <2>7. SchedTasks'
    BY <2>5, <2>6 DEF SchedTInv, SchedTasks
  <2>. QED BY <2>2, <2>3, <2>4, <2>5, <2>7 DEF SchedTInv, SchedTypeOK
<1>6. CASE RR_picknext(th)
  <2>1. link[th].prev \in Nodes BY DEF SchedTInv, SchedTypeOK, Links
  <2>. QED BY <1>6, <2>1 DEF RR_picknext, SchedTInv, SchedTypeOK, SchedTasks, Places
<1>7. CASE RR_dequeue(th)
  <2>1. link' \in Links(Nodes)
    BY <1>7, ListTypes DEF RR_dequeue, SchedTInv, SchedTypeOK
  <2>. QED
    BY <1>7, <2>1
       DEF RR_dequeue, run_next, SchedTInv, SchedTypeOK, SchedTasks, Places, task_status_t
<1>. QED BY <1>1, <1>2, <1>3, <1>4, <1>5, <1>6, <1>7 DEF SchedStep

(* What a task, or main, can call. *)
LEMMA CreateTypes ==
    ASSUME SchedTInv, NEW th \in Threads, NEW t \in Tasks, co_create(th, t)
    PROVE  SchedTInv'
BY NodeTypes DEF co_create, co_resume, SchedTInv, SchedTypeOK, SchedTasks, Calls

LEMMA SetStatusTypes ==
    ASSUME SchedTInv, NEW th \in Threads, NEW s \in task_status_t, set_status(th, s)
    PROVE  SchedTInv'
BY DEF set_status, SchedTInv, SchedTypeOK, SchedTasks

LEMMA YieldTypes ==
    ASSUME SchedTInv, NEW th \in Threads, current[th] \in Tasks, co_yield(th)
    PROVE  SchedTInv'
BY DEF co_yield, SchedTInv, SchedTypeOK, SchedTasks, Places

LEMMA WaitTypes ==
    ASSUME SchedTInv, NEW th \in Threads, current[th] \in Tasks,
           NEW w \in WaitLists, wait_on(th, w)
    PROVE  SchedTInv'
<1>1. link' \in Links(Nodes)
  BY NodeTypes, ListTypes DEF wait_on, SchedTInv, SchedTypeOK
<1>. QED BY <1>1 DEF wait_on, SchedTInv, SchedTypeOK, SchedTasks

LEMMA WakeTypes ==
    ASSUME SchedTInv, NEW th \in Threads, NEW w \in WaitLists, wake_first(th, w)
    PROVE  SchedTInv'
<1>1. link[w].next \in Nodes
  BY NodeTypes DEF SchedTInv, SchedTypeOK, Links
<1>2. link' \in Links(Nodes)
  BY <1>1, ListTypes DEF wake_first, SchedTInv, SchedTypeOK
<1>. QED BY <1>1, <1>2 DEF wake_first, co_resume, SchedTInv, SchedTypeOK, SchedTasks, Calls
=============================================================================
