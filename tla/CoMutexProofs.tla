--------------------------- MODULE CoMutexProofs ----------------------------
(***************************************************************************)
(* The mutex excludes, and keeps to the protocol of the scheduler's         *)
(* clients, on any number of threads and for any tasks and mutexes.         *)
(***************************************************************************)
EXTENDS CoMutex, TaskSchedProofs

(* A task inside a call knows the mutex of the call. *)
ArgOK == \A t \in Tasks :
    pc[t] \in {"lock", "wait", "linked", "blocked", "wake"} => arg[t] \in Mutexes

MutexInv == TypeOK /\ SchedTasks /\ ArgOK /\ MutualExclusion

LEMMA MutexInit == Init => MutexInv
<1>. SUFFICES ASSUME Init PROVE MutexInv OBVIOUS
<1>1. SchedTypeOK /\ SchedTasks BY SchedInitTypes DEF Init, SchedTInv
<1>2. TypeOK BY <1>1 DEF Init, TypeOK, Labels
<1>3. ArgOK BY DEF Init, ArgOK
<1>4. MutualExclusion BY SchedAssumption, MutexAssumption DEF Init, MutualExclusion
<1>. QED BY <1>1, <1>2, <1>3, <1>4 DEF MutexInv

(* The steps of the scheduler leave the mutexes alone. *)
LEMMA ThreadStepInv ==
    ASSUME MutexInv, NEW th \in Threads, ThreadStep(th)
    PROVE  MutexInv'
<1>1. SchedTInv'
  BY SchedStepTypes, CreateTypes DEF ThreadStep, MutexInv, TypeOK, SchedTInv
<1>. QED
  BY <1>1 DEF ThreadStep, mutexVars, MutexInv, TypeOK, SchedTInv, ArgOK, MutualExclusion

(* ATOMIC_LOCK, when it succeeds. *)
LEMMA AcquireInv ==
    ASSUME MutexInv, NEW th \in Threads, NEW t \in Tasks, NEW m \in Mutexes,
           NEW from, Goto(th, t, from, "idle"), Acquire(t, m)
    PROVE  MutexInv'
<1>1. SchedTypeOK' /\ SchedTasks'
  BY DEF Acquire, schedVars, MutexInv, TypeOK, SchedTypeOK, SchedTasks
<1>2. TypeOK'
  BY <1>1 DEF Acquire, Goto, MutexInv, TypeOK, Labels
<1>3. ArgOK'
  BY DEF Acquire, Goto, MutexInv, TypeOK, ArgOK
<1>4. MutualExclusion'
  BY SchedAssumption DEF Acquire, MutexInv, TypeOK, MutualExclusion
<1>. QED BY <1>1, <1>2, <1>3, <1>4 DEF MutexInv

(* The steps that change neither the lock words nor who holds what. *)
LEMMA QuietInv ==
    ASSUME MutexInv, NEW t \in Tasks, SchedTInv', NEW to \in Labels,
           pc' = [pc EXCEPT ![t] = to], UNCHANGED <<lock, held>>,
           NEW a \in Mutexes \cup {NULL}, arg' = [arg EXCEPT ![t] = a],
           to \in {"lock", "wait", "linked", "blocked", "wake"} => a \in Mutexes
    PROVE  MutexInv'
<1>1. TypeOK' BY DEF MutexInv, TypeOK, SchedTInv
<1>2. ArgOK' BY DEF MutexInv, TypeOK, ArgOK
<1>3. MutualExclusion' BY DEF MutexInv, MutualExclusion
<1>. QED BY <1>1, <1>2, <1>3 DEF MutexInv, SchedTInv

LEMMA TaskStepInv ==
    ASSUME MutexInv, NEW th \in Threads, NEW t \in Tasks, TaskStep(th, t)
    PROVE  MutexInv'
<1>. USE DEF Goto
<1>0. /\ SchedTInv /\ arg[t] \in Mutexes \cup {NULL} /\ arg = [arg EXCEPT ![t] = arg[t]]
      /\ pc[t] \in {"lock", "wait", "linked", "blocked", "wake"} => arg[t] \in Mutexes
  BY DEF MutexInv, TypeOK, SchedTInv, ArgOK
<1>a. UNCHANGED schedVars => SchedTInv'
  BY <1>0 DEF schedVars, SchedTInv, SchedTypeOK, SchedTasks
<1>1. ASSUME NEW m \in Mutexes, co_mutex_lock(th, t, m) PROVE MutexInv'
  <2>1. CASE Goto(th, t, "idle", "idle") /\ Acquire(t, m)
    BY <2>1, AcquireInv
  <2>2. CASE /\ Goto(th, t, "idle", "wait") /\ arg' = [arg EXCEPT ![t] = m]
             /\ UNCHANGED <<schedVars, lock, held>>
    BY <2>2, <1>a, QuietInv DEF Labels
  <2>. QED BY <1>1, <2>1, <2>2 DEF co_mutex_lock
<1>2. ASSUME NEW m \in Mutexes, co_mutex_try_lock(th, t, m) PROVE MutexInv'
  BY <1>2, AcquireInv DEF co_mutex_try_lock
<1>3. ASSUME NEW m \in Mutexes, co_mutex_unlock(th, t, m) PROVE MutexInv'
  <2>1. SchedTypeOK' /\ SchedTasks'
    BY <1>3, <1>a DEF co_mutex_unlock, SchedTInv
  <2>2. TypeOK' BY <1>3, <2>1 DEF co_mutex_unlock, MutexInv, TypeOK, Labels
  <2>3. ArgOK' BY <1>3 DEF co_mutex_unlock, MutexInv, TypeOK, ArgOK
  <2>4. MutualExclusion'
    BY <1>3, SchedAssumption DEF co_mutex_unlock, MutexInv, TypeOK, MutualExclusion
  <2>. QED BY <2>1, <2>2, <2>3, <2>4 DEF MutexInv
<1>4. CASE co_mutex_lock_again(th, t)
  <2>1. CASE Goto(th, t, "lock", "idle") /\ Acquire(t, arg[t])
    BY <2>1, <1>0, AcquireInv
  <2>2. CASE Goto(th, t, "lock", "wait") /\ UNCHANGED <<schedVars, mutexVars>>
    BY <2>2, <1>0, <1>a, QuietInv DEF mutexVars, Labels
  <2>. QED BY <1>4, <2>1, <2>2 DEF co_mutex_lock_again
<1>5. CASE task_wait_mutex(th, t)
  <2>1. CASE Goto(th, t, "wait", "lock") /\ UNCHANGED schedVars
    BY <1>5, <2>1, <1>0, <1>a, QuietInv DEF task_wait_mutex, mutexVars, Labels
  <2>2. CASE Goto(th, t, "wait", "linked") /\ wait_on(th, arg[t])
    <3>1. SchedTInv' BY <2>2, <1>0, WaitTypes, MutexAssumption
    <3>. QED BY <1>5, <2>2, <1>0, <3>1, QuietInv DEF task_wait_mutex, mutexVars, Labels
  <2>. QED BY <1>5, <2>1, <2>2 DEF task_wait_mutex
<1>6. CASE co_sync_yield(th, t)
  <2>1. CASE Goto(th, t, "linked", "blocked") /\ set_status(th, "SYS_BLOCK")
    <3>1. SchedTInv' BY <2>1, <1>0, SetStatusTypes DEF task_status_t
    <3>. QED BY <1>6, <2>1, <1>0, <3>1, QuietInv DEF co_sync_yield, mutexVars, Labels
  <2>2. CASE Goto(th, t, "blocked", "lock") /\ co_yield(th)
    <3>1. SchedTInv' BY <2>2, <1>0, YieldTypes
    <3>. QED BY <1>6, <2>2, <1>0, <3>1, QuietInv DEF co_sync_yield, mutexVars, Labels
  <2>. QED BY <1>6, <2>1, <2>2 DEF co_sync_yield
<1>7. CASE mutex_wakeup_task(th, t)
  <2>1. SchedTInv' BY <1>7, <1>0, <1>a, WakeTypes, MutexAssumption DEF mutex_wakeup_task
  <2>. QED BY <1>7, <2>1, QuietInv DEF mutex_wakeup_task, Labels
<1>8. CASE task_yield(th, t)
  <2>1. SchedTInv' BY <1>8, <1>0, YieldTypes DEF task_yield
  <2>. QED BY <1>8, <1>0, <2>1, QuietInv DEF task_yield, mutexVars, Labels
<1>9. CASE task_exit(th, t)
  <2>1. CASE Goto(th, t, "idle", "killed") /\ set_status(th, "KILLED")
    <3>1. SchedTInv' BY <2>1, <1>0, SetStatusTypes DEF task_status_t
    <3>. QED BY <1>9, <2>1, <1>0, <3>1, QuietInv DEF task_exit, mutexVars, Labels
  <2>2. CASE Goto(th, t, "killed", "dead") /\ co_yield(th)
    <3>1. SchedTInv' BY <2>2, <1>0, YieldTypes
    <3>. QED BY <1>9, <2>2, <1>0, <3>1, QuietInv DEF task_exit, mutexVars, Labels
  <2>. QED BY <1>9, <2>1, <2>2 DEF task_exit
<1>. QED
  BY <1>1, <1>2, <1>3, <1>4, <1>5, <1>6, <1>7, <1>8, <1>9 DEF TaskStep

LEMMA MutexSpecInv == Spec => []MutexInv
<1>1. ASSUME MutexInv, [Next]_allVars PROVE MutexInv'
  <2>1. CASE UNCHANGED allVars
    BY <1>1, <2>1 DEF allVars, MutexInv, TypeOK, SchedTypeOK, SchedTasks, ArgOK, MutualExclusion
  <2>2. CASE Next
    BY <1>1, <2>2, ThreadStepInv, TaskStepInv DEF Next
  <2>. QED BY <1>1, <2>1, <2>2
<1>. QED BY <1>1, MutexInit, PTL DEF Spec

(* The variables of the mutexes and of the scheduler keep their types, even *)
(* where threads race.                                                      *)
THEOREM MutexTypeCorrect == Spec => []TypeOK
<1>1. MutexInv => TypeOK BY DEF MutexInv
<1>. QED BY <1>1, MutexSpecInv, PTL

(* co_mutex_lock, co_mutex_try_lock and co_mutex_unlock exclude, for tasks   *)
(* of any number of threads: their compare-and-swaps need no help from the  *)
(* wait list or the scheduler.                                              *)
THEOREM MutexExcludes == Spec => []MutualExclusion
<1>1. MutexInv => MutualExclusion BY DEF MutexInv
<1>. QED BY <1>1, MutexSpecInv, PTL

-----------------------------------------------------------------------------
(* A move that leaves the client where it is. *)
LEMMA ClientStays ==
    ASSUME MutexInv, NEW th \in Threads, NEW t \in Tasks, NEW from, NEW to, Goto(th, t, from, to),
           ClientLabel(from) = ClientLabel(to), UNCHANGED schedVars
    PROVE  UNCHANGED Client!vars
<1>1. ClientPc' = ClientPc BY DEF ClientPc, Goto, MutexInv, TypeOK
<1>. QED BY <1>1 DEF Client!vars, schedVars

LEMMA InitClient == Init => Client!Init
BY DEF Init, Client!Init, Client!SchedInit, SchedInit, ClientPc, ClientLabel,
       NoCall, Client!NoCall, Nodes, Client!Nodes

(* The operators the client shares with CoMutex. *)
LEMMA SameLists ==
    ASSUME NEW l, NEW ls, NEW elm
    PROVE  /\ Client!list_delete(l, elm) = list_delete(l, elm)
           /\ Client!list_add_after(l, ls, elm) = list_add_after(l, ls, elm)
           /\ Client!list_add_before(l, ls, elm) = list_add_before(l, ls, elm)
           /\ Client!list_empty(l, ls) <=> list_empty(l, ls)
BY DEF list_delete, list_init, list_add_after, list_add_before, list_empty, set_prev, set_next,
       Client!list_delete, Client!list_init, Client!list_add_after, Client!list_add_before,
       Client!list_empty, Client!set_prev, Client!set_next

LEMMA SameOps ==
    ASSUME NEW th, NEW t, NEW w
    PROVE  /\ Client!Running(th) <=> Running(th)
           /\ Client!SchedStep(th) <=> SchedStep(th)
           /\ Client!co_create(th, t) <=> co_create(th, t)
           /\ Client!co_yield(th) <=> co_yield(th)
           /\ Client!set_status(th, t) <=> set_status(th, t)
           /\ Client!wait_on(th, w) <=> wait_on(th, w)
           /\ Client!wake_first(th, w) <=> wake_first(th, w)
<1>. USE SameLists DEF Free, Client!Free, NoCall, Client!NoCall, co_resume, Client!co_resume
<1>1. Client!EnqueueStatus(th) <=> EnqueueStatus(th)
  BY DEF EnqueueStatus, Client!EnqueueStatus
<1>2. Client!RR_enqueue_unlink(th) <=> RR_enqueue_unlink(th)
  BY DEF RR_enqueue_unlink, Client!RR_enqueue_unlink
<1>3. Client!RR_enqueue_add(th) <=> RR_enqueue_add(th)
  BY DEF RR_enqueue_add, Client!RR_enqueue_add
<1>4. Client!schedule(th) <=> schedule(th)
  BY DEF schedule, Client!schedule
<1>5. Client!SchedPrev(th) <=> SchedPrev(th)
  BY DEF SchedPrev, Client!SchedPrev, task_destory, Client!task_destory
<1>6. Client!RR_picknext(th) <=> RR_picknext(th)
  BY DEF RR_picknext, Client!RR_picknext
<1>7. Client!RR_dequeue(th) <=> RR_dequeue(th)
  BY DEF RR_dequeue, Client!RR_dequeue, run_next, Client!run_next
<1>8. Client!SchedStep(th) <=> SchedStep(th)
  BY <1>1, <1>2, <1>3, <1>4, <1>5, <1>6, <1>7 DEF SchedStep, Client!SchedStep
<1>9. Client!co_create(th, t) <=> co_create(th, t)
  BY DEF co_create, Client!co_create
<1>10. Client!wait_on(th, w) <=> wait_on(th, w)
  BY DEF wait_on, Client!wait_on
<1>11. Client!wake_first(th, w) <=> wake_first(th, w)
  BY DEF wake_first, Client!wake_first
<1>. QED
  BY <1>8, <1>9, <1>10, <1>11 DEF Running, Client!Running, co_yield, Client!co_yield,
     set_status, Client!set_status

(* A move of a task between two labels is one of the client's moves. *)
LEMMA ClientGoto ==
    ASSUME MutexInv, NEW th \in Threads, NEW t \in Tasks, NEW from, NEW to, Goto(th, t, from, to),
           NEW S, ClientLabel(from) \in S
    PROVE  Client!Goto(th, S, ClientLabel(to))
<1>1. Running(th) /\ current[th] = t /\ ClientPc[t] = ClientLabel(from)
  BY DEF Goto, ClientPc, MutexInv, TypeOK
<1>2. ClientPc' = [ClientPc EXCEPT ![t] = ClientLabel(to)]
  BY DEF Goto, ClientPc, MutexInv, TypeOK
<1>. QED BY <1>1, <1>2, SameOps DEF Client!Goto

(* Every step of a thread or of a task is a step of the client, or none. *)
LEMMA ThreadStepClient ==
    ASSUME MutexInv, NEW th \in Threads, ThreadStep(th)
    PROVE  Client!Next
<1>1. ClientPc' = ClientPc BY DEF ThreadStep, ClientPc
<1>2. CASE SchedStep(th)
  BY <1>1, <1>2, SameOps DEF Client!Next, Client!Schedule
<1>3. CASE /\ where[th] = "task" => pc[current[th]] = "idle"
           /\ \E t \in Tasks : co_create(th, t)
  <2>1. where[th] = "task" => ClientPc[current[th]] = "run"
    BY <1>3 DEF ClientPc, ClientLabel, MutexInv, SchedTasks
  <2>2. Client!Create(th) BY <1>1, <1>3, <2>1, SameOps DEF Client!Create
  <2>. QED BY <2>2 DEF Client!Next
<1>. QED BY <1>2, <1>3 DEF ThreadStep

LEMMA TaskStepClient ==
    ASSUME MutexInv, NEW th \in Threads, NEW t \in Tasks, TaskStep(th, t)
    PROVE  Client!Next \/ UNCHANGED Client!vars
<1>1. ASSUME NEW m \in Mutexes, co_mutex_lock(th, t, m) \/ co_mutex_try_lock(th, t, m)
                                \/ co_mutex_unlock(th, t, m)
      PROVE  UNCHANGED Client!vars
  BY <1>1, ClientStays DEF co_mutex_lock, co_mutex_try_lock, co_mutex_unlock, Acquire, ClientLabel
<1>2. CASE co_mutex_lock_again(th, t)
  BY <1>2, ClientStays DEF co_mutex_lock_again, Acquire, ClientLabel
<1>3. CASE task_wait_mutex(th, t)
  <2>1. CASE Goto(th, t, "wait", "lock") /\ UNCHANGED schedVars
    BY <2>1, ClientStays DEF ClientLabel
  <2>2. CASE Goto(th, t, "wait", "linked") /\ wait_on(th, arg[t])
    <3>1. Client!Goto(th, {"run", "io"}, "linked") BY <2>2, ClientGoto DEF ClientLabel
    <3>2. arg[t] \in WaitLists BY <2>2, MutexAssumption DEF Goto, MutexInv, ArgOK
    <3>3. Client!Wait(th) BY <2>2, <3>1, <3>2, SameOps DEF Client!Wait
    <3>. QED BY <3>3 DEF Client!Next
  <2>. QED BY <1>3, <2>1, <2>2 DEF task_wait_mutex
<1>4. CASE co_sync_yield(th, t)
  <2>1. CASE Goto(th, t, "linked", "blocked") /\ set_status(th, "SYS_BLOCK")
    <3>1. Client!Goto(th, {"linked"}, "blocked") BY <2>1, ClientGoto DEF ClientLabel
    <3>2. Client!Block(th) BY <2>1, <3>1, SameOps DEF Client!Block
    <3>. QED BY <3>2 DEF Client!Next
  <2>2. CASE Goto(th, t, "blocked", "lock") /\ co_yield(th)
    <3>1. Client!Goto(th, {"blocked"}, "run") BY <2>2, ClientGoto DEF ClientLabel
    <3>2. Client!Switch(th) BY <2>2, <3>1, SameOps DEF Client!Switch
    <3>. QED BY <3>2 DEF Client!Next
  <2>. QED BY <1>4, <2>1, <2>2 DEF co_sync_yield
<1>5. CASE mutex_wakeup_task(th, t)
  <2>1. CASE UNCHANGED schedVars
    BY <1>5, <2>1, ClientStays DEF mutex_wakeup_task, ClientLabel
  <2>2. CASE wake_first(th, arg[t])
    <3>1. Client!Goto(th, {"run", "io"}, "run")
      BY <1>5, ClientGoto DEF mutex_wakeup_task, ClientLabel
    <3>2. arg[t] \in WaitLists BY <1>5, MutexAssumption DEF mutex_wakeup_task, Goto, MutexInv, ArgOK
    <3>3. Client!Wake(th) BY <2>2, <3>1, <3>2, SameOps DEF Client!Wake
    <3>. QED BY <3>3 DEF Client!Next
  <2>. QED BY <1>5, <2>1, <2>2 DEF mutex_wakeup_task
<1>6. CASE task_yield(th, t)
  <2>1. Client!Goto(th, {"run", "io"}, "run") BY <1>6, ClientGoto DEF task_yield, ClientLabel
  <2>2. Client!Yield(th) BY <1>6, <2>1, SameOps DEF task_yield, Client!Yield
  <2>. QED BY <2>2 DEF Client!Next
<1>7. CASE task_exit(th, t)
  <2>1. CASE Goto(th, t, "idle", "killed") /\ set_status(th, "KILLED")
    <3>1. Client!Goto(th, {"run", "io"}, "killed") BY <2>1, ClientGoto DEF ClientLabel
    <3>2. Client!Exit(th) BY <2>1, <3>1, SameOps DEF Client!Exit
    <3>. QED BY <3>2 DEF Client!Next
  <2>2. CASE Goto(th, t, "killed", "dead") /\ co_yield(th)
    <3>1. Client!Goto(th, {"killed"}, "dead") BY <2>2, ClientGoto DEF ClientLabel
    <3>2. Client!ExitYield(th) BY <2>2, <3>1, SameOps DEF Client!ExitYield
    <3>. QED BY <3>2 DEF Client!Next
  <2>. QED BY <1>7, <2>1, <2>2 DEF task_exit
<1>. QED BY <1>1, <1>2, <1>3, <1>4, <1>5, <1>6, <1>7 DEF TaskStep

(* co_mutex.c is a client of the scheduler: whatever holds of the scheduler *)
(* under all clients holds when its tasks use mutexes.                      *)
THEOREM MutexIsClient == Spec => ClientSpec
<1>1. ASSUME MutexInv, [Next]_allVars PROVE [Client!Next]_(Client!vars)
  <2>1. CASE UNCHANGED allVars
    BY <2>1 DEF allVars, Client!vars, ClientPc
  <2>2. CASE Next
    BY <1>1, <2>2, ThreadStepClient, TaskStepClient DEF Next
  <2>. QED BY <1>1, <2>1, <2>2
<1>. QED BY <1>1, InitClient, MutexSpecInv, PTL DEF Spec, ClientSpec, Client!Spec
=============================================================================
