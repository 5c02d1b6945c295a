---------------------------- MODULE CoSemProofs -----------------------------
(***************************************************************************)
(* The semaphore never lets in more tasks than it has permits for, on any   *)
(* number of threads, for any tasks, semaphores and counts.                 *)
(***************************************************************************)
EXTENDS CoSem, TaskSchedProofs, FiniteSetTheorems

(* A task inside a call knows the semaphore of the call. *)
ArgOK == \A t \in Tasks :
    pc[t] \in {"short", "linked", "blocked", "again", "try", "post"} => arg[t] \in Sems

(* The tasks that have taken one from the counter of s, found it negative,  *)
(* and not yet decided what to do.                                          *)
InFlight(s) == {t \in Tasks : pc[t] \in {"short", "try"} /\ arg[t] = s}

(* Every success, and every decrement in flight, is paid for.  The two      *)
(* sides may differ: a task that goes to sleep leaves its decrement behind. *)
Paid(s) ==
    /\ IsFiniteSet(InFlight(s))
    /\ sem[s] + got[s] + Cardinality(InFlight(s)) <= Count + posts[s]

SemTInv == TypeOK /\ SchedTasks /\ ArgOK
SemInv == SemTInv /\ (\A s \in Sems : Paid(s)) /\ SafePermits

LEMMA SemInit == Init => SemInv
<1>. SUFFICES ASSUME Init PROVE SemInv OBVIOUS
<1>. USE SemAssumption
<1>1. SchedTypeOK /\ SchedTasks BY SchedInitTypes DEF Init, SchedTInv
<1>2. TypeOK BY <1>1 DEF Init, TypeOK, Labels
<1>3. ArgOK BY DEF Init, ArgOK
<1>4. ASSUME NEW s \in Sems PROVE Paid(s)
  <2>1. InFlight(s) = {} BY DEF Init, InFlight
  <2>2. IsFiniteSet({}) /\ Cardinality({}) = 0 BY FS_EmptySet
  <2>. QED BY <2>1, <2>2 DEF Init, Paid
<1>5. SafePermits BY DEF Init, SafePermits
<1>. QED BY <1>1, <1>2, <1>3, <1>4, <1>5 DEF SemInv, SemTInv

(* How the bound moves when a task leaves, or enters, the tasks in flight.  *)
LEMMA LeavesFlight ==
    ASSUME SemInv, NEW s \in Sems, NEW t \in Tasks, t \in InFlight(s),
           (InFlight(s))' = InFlight(s) \ {t}
    PROVE  /\ IsFiniteSet((InFlight(s))')
           /\ Cardinality((InFlight(s))') = Cardinality(InFlight(s)) - 1
           /\ Cardinality(InFlight(s)) \in Nat
BY FS_RemoveElement, FS_CardinalityType DEF SemInv, Paid

LEMMA EntersFlight ==
    ASSUME SemInv, NEW s \in Sems, NEW t \in Tasks, t \notin InFlight(s),
           (InFlight(s))' = InFlight(s) \cup {t}
    PROVE  /\ IsFiniteSet((InFlight(s))')
           /\ Cardinality((InFlight(s))') = Cardinality(InFlight(s)) + 1
           /\ Cardinality(InFlight(s)) \in Nat
BY FS_AddElement, FS_CardinalityType DEF SemInv, Paid

(* The bound of a semaphore a step does not concern. *)
Bounded(s) == Paid(s) /\ got[s] <= Count + posts[s]

LEMMA Unconcerned ==
    ASSUME SemInv, NEW o \in Sems, sem'[o] = sem[o], got'[o] = got[o], posts'[o] = posts[o],
           (InFlight(o))' = InFlight(o)
    PROVE  Bounded(o)'
BY DEF SemInv, SafePermits, Paid, Bounded

LEMMA DecrementInv ==
    ASSUME SemInv, NEW th \in Threads, NEW t \in Tasks, NEW s \in Sems,
           NEW from \in {"idle", "again"}, NEW to \in {"short", "try"},
           Decrement(th, t, s, from, to)
    PROVE  SemInv'
<1>. USE SchedAssumption, SemAssumption
<1>1. SchedTypeOK' /\ SchedTasks' /\ UNCHANGED posts
  BY DEF Decrement, Success, schedVars, SemInv, SemTInv, TypeOK, SchedTypeOK, SchedTasks
<1>2. CASE ~atomic_dec_and_negative(sem[s]) /\ Goto(th, t, from, "idle") /\ Success(t, s)
  <2>1. TypeOK'
    BY <1>1, <1>2 DEF Decrement, Goto, Success, SemInv, SemTInv, TypeOK, Labels
  <2>2. ArgOK' BY <1>2 DEF Goto, Success, SemInv, SemTInv, TypeOK, ArgOK
  <2>3. ASSUME NEW o \in Sems PROVE (InFlight(o))' = InFlight(o)
    BY <1>2 DEF Goto, Success, SemInv, SemTInv, TypeOK, InFlight
  <2>4. ASSUME NEW o \in Sems PROVE Bounded(o)'
    <3>1. CASE o # s
      BY <1>1, <1>2, <2>3, <3>1, Unconcerned DEF Decrement, Success, SemInv, SemTInv, TypeOK
    <3>2. CASE o = s
      <4>1. sem'[s] = sem[s] - 1 /\ got'[s] = got[s] + 1 /\ sem[s] - 1 >= 0
        BY <1>2 DEF Decrement, Success, atomic_dec_and_negative, SemInv, SemTInv, TypeOK
      <4>2. Cardinality(InFlight(s)) \in Nat
        BY FS_CardinalityType DEF SemInv, Paid
      <4>. QED
        BY <1>1, <2>3, <3>2, <4>1, <4>2 DEF SemInv, SemTInv, TypeOK, Paid, Bounded
    <3>. QED BY <3>1, <3>2
  <2>. QED BY <1>1, <2>1, <2>2, <2>4 DEF SemInv, SemTInv, Bounded, SafePermits
<1>3. CASE /\ Goto(th, t, from, to) /\ arg' = [arg EXCEPT ![t] = s] /\ UNCHANGED <<schedVars, got, posts>>
  <2>1. TypeOK'
    BY <1>1, <1>3 DEF Decrement, Goto, SemInv, SemTInv, TypeOK, Labels
  <2>2. ArgOK' BY <1>3 DEF Goto, SemInv, SemTInv, TypeOK, ArgOK
  <2>3. ASSUME NEW o \in Sems PROVE Bounded(o)'
    <3>1. CASE o # s
      <4>1. (InFlight(o))' = InFlight(o)
        BY <1>3, <3>1 DEF Goto, SemInv, SemTInv, TypeOK, InFlight
      <4>. QED
        BY <1>3, <3>1, <4>1, Unconcerned DEF Decrement, SemInv, SemTInv, TypeOK
    <3>2. CASE o = s
      <4>1. sem'[s] = sem[s] - 1
        BY DEF Decrement, SemInv, SemTInv, TypeOK
      <4>2. t \notin InFlight(s) /\ (InFlight(s))' = InFlight(s) \cup {t}
        BY <1>3 DEF Goto, SemInv, SemTInv, TypeOK, InFlight
      <4>3. /\ IsFiniteSet((InFlight(s))') /\ Cardinality(InFlight(s)) \in Nat
            /\ Cardinality((InFlight(s))') = Cardinality(InFlight(s)) + 1
        BY <4>2, EntersFlight
      <4>. QED
        BY <1>3, <3>2, <4>1, <4>3 DEF SemInv, SemTInv, TypeOK, SafePermits, Paid, Bounded
    <3>. QED BY <3>1, <3>2
  <2>. QED BY <1>1, <2>1, <2>2, <2>3 DEF SemInv, SemTInv, Bounded, SafePermits
<1>. QED BY <1>2, <1>3 DEF Decrement

(* The labels at which a task has a decrement in flight, or needs arg. *)
Flying == {"short", "try"}
Calling == {"short", "linked", "blocked", "again", "try", "post"}

(* The end of a decrement in flight: success, a decrement taken back, or     *)
(* one left behind.                                                         *)
LEMMA LandInv ==
    ASSUME SemInv, SchedTInv', NEW t \in Tasks, pc[t] \in Flying,
           NEW to \in Labels \ Flying, pc' = [pc EXCEPT ![t] = to],
           NEW a \in Sems \cup {NULL}, arg' = [arg EXCEPT ![t] = a],
           to \in Calling => a = arg[t], UNCHANGED posts,
           \/ /\ sem[arg[t]] >= 0 /\ got' = [got EXCEPT ![arg[t]] = got[arg[t]] + 1]
              /\ UNCHANGED sem
           \/ UNCHANGED <<sem, got>>
           \/ UNCHANGED got /\ sem' = [sem EXCEPT ![arg[t]] = sem[arg[t]] + 1]
    PROVE  SemInv'
<1>. USE SchedAssumption, SemAssumption DEF Flying, Calling
<1>. DEFINE s == arg[t]
<1>1. s \in Sems BY DEF SemInv, SemTInv, ArgOK
<1>2. TypeOK' BY <1>1 DEF SemInv, SemTInv, TypeOK, SchedTInv, Labels
<1>3. ArgOK' BY <1>1 DEF SemInv, SemTInv, TypeOK, ArgOK
<1>4. ASSUME NEW o \in Sems PROVE Bounded(o)'
  <2>1. CASE o # s
    <3>1. (InFlight(o))' = InFlight(o)
      BY <2>1 DEF SemInv, SemTInv, TypeOK, InFlight
    <3>. QED BY <1>1, <2>1, <3>1, Unconcerned DEF SemInv, SemTInv, TypeOK
  <2>2. CASE o = s
    <3>1. t \in InFlight(s) /\ {x \in Tasks : pc'[x] \in {"short", "try"} /\ arg'[x] = s} = InFlight(s) \ {t}
      BY <1>1 DEF SemInv, SemTInv, TypeOK, InFlight
    <3>. HIDE DEF s
    <3>2. (InFlight(o))' = InFlight(o) \ {t} /\ t \in InFlight(o)
      BY <2>2, <3>1 DEF InFlight
    <3>3. /\ IsFiniteSet((InFlight(o))') /\ Cardinality(InFlight(o)) \in Nat
          /\ Cardinality((InFlight(o))') = Cardinality(InFlight(o)) - 1
          /\ Cardinality((InFlight(o))') \in Nat
      BY <3>2, LeavesFlight, FS_CardinalityType
    <3>4. \/ sem[o] >= 0 /\ got'[o] = got[o] + 1 /\ sem'[o] = sem[o]
          \/ sem'[o] = sem[o] /\ got'[o] = got[o]
          \/ sem'[o] = sem[o] + 1 /\ got'[o] = got[o]
      BY <1>1, <2>2 DEF s, SemInv, SemTInv, TypeOK
    <3>. QED BY <3>3, <3>4 DEF SemInv, SemTInv, TypeOK, SafePermits, Paid, Bounded
  <2>. QED BY <2>1, <2>2
<1>. QED BY <1>2, <1>3, <1>4 DEF SemInv, SemTInv, Bounded, SafePermits, SchedTInv

(* The steps with no decrement in flight that touch no counter. *)
LEMMA QuietInv ==
    ASSUME SemInv, SchedTInv', NEW t \in Tasks, pc[t] \notin Flying,
           NEW to \in Labels \ Flying, pc' = [pc EXCEPT ![t] = to],
           NEW a \in Sems \cup {NULL}, arg' = [arg EXCEPT ![t] = a],
           to \in Calling => a \in Sems, UNCHANGED <<sem, got, posts>>
    PROVE  SemInv'
<1>. USE DEF Flying, Calling
<1>1. TypeOK' BY DEF SemInv, SemTInv, TypeOK, SchedTInv
<1>2. ArgOK' BY DEF SemInv, SemTInv, TypeOK, ArgOK
<1>3. ASSUME NEW o \in Sems PROVE Bounded(o)'
  <2>1. (InFlight(o))' = InFlight(o) BY DEF SemInv, SemTInv, TypeOK, InFlight
  <2>. QED BY <2>1, Unconcerned
<1>. QED BY <1>1, <1>2, <1>3 DEF SemInv, SemTInv, Bounded, SafePermits, SchedTInv

LEMMA PostInv ==
    ASSUME SemInv, NEW th \in Threads, NEW t \in Tasks, NEW s \in Sems, co_sem_post(th, t, s)
    PROVE  SemInv'
<1>. USE SemAssumption
<1>c. PICK to \in {"idle", "post"}, a \in Sems \cup {NULL} :
          /\ Goto(th, t, "idle", to) /\ arg' = [arg EXCEPT ![t] = a]
          /\ to = "post" => a \in Sems
  <2>1. arg[t] \in Sems \cup {NULL} /\ arg = [arg EXCEPT ![t] = arg[t]]
    BY DEF SemInv, SemTInv, TypeOK
  <2>. QED BY <2>1 DEF co_sem_post
<1>1. SchedTypeOK' /\ SchedTasks'
  BY DEF co_sem_post, schedVars, SemInv, SemTInv, TypeOK, SchedTypeOK, SchedTasks
<1>2. TypeOK' BY <1>c, <1>1 DEF co_sem_post, Goto, SemInv, SemTInv, TypeOK, Labels
<1>3. ArgOK' BY <1>c DEF Goto, SemInv, SemTInv, TypeOK, ArgOK
<1>4. ASSUME NEW o \in Sems PROVE Bounded(o)'
  <2>1. (InFlight(o))' = InFlight(o)
    BY <1>c DEF Goto, SemInv, SemTInv, TypeOK, InFlight
  <2>2. CASE o # s
    BY <2>1, <2>2, Unconcerned DEF co_sem_post, SemInv, SemTInv, TypeOK
  <2>3. CASE o = s
    <3>1. sem'[o] = sem[o] + 1 /\ posts'[o] = posts[o] + 1 /\ got'[o] = got[o]
      BY <2>3 DEF co_sem_post, SemInv, SemTInv, TypeOK
    <3>2. Cardinality(InFlight(o)) \in Nat BY FS_CardinalityType DEF SemInv, Paid
    <3>. QED BY <2>1, <3>1, <3>2 DEF SemInv, SemTInv, TypeOK, SafePermits, Paid, Bounded
  <2>. QED BY <2>2, <2>3
<1>. QED BY <1>1, <1>2, <1>3, <1>4 DEF SemInv, SemTInv, Bounded, SafePermits

LEMMA ThreadStepInv ==
    ASSUME SemInv, NEW th \in Threads, ThreadStep(th)
    PROVE  SemInv'
<1>1. SchedTInv'
  BY SchedStepTypes, CreateTypes DEF ThreadStep, SemInv, SemTInv, TypeOK, SchedTInv
<1>2. TypeOK' /\ ArgOK' /\ SafePermits'
  BY <1>1 DEF ThreadStep, semVars, SemInv, SemTInv, TypeOK, SchedTInv, ArgOK, SafePermits
<1>3. ASSUME NEW o \in Sems PROVE Paid(o)'
  <2>1. (InFlight(o))' = InFlight(o) BY DEF ThreadStep, semVars, InFlight
  <2>. QED BY <2>1 DEF ThreadStep, semVars, SemInv, Paid
<1>. QED BY <1>1, <1>2, <1>3 DEF SemInv, SemTInv, SchedTInv

LEMMA TaskStepInv ==
    ASSUME SemInv, NEW th \in Threads, NEW t \in Tasks, TaskStep(th, t)
    PROVE  SemInv'
<1>c. /\ SchedTInv /\ arg[t] \in Sems \cup {NULL} /\ arg = [arg EXCEPT ![t] = arg[t]]
      /\ pc[t] \in Calling => arg[t] \in Sems
  BY DEF SemInv, SemTInv, TypeOK, SchedTInv, ArgOK, Calling
<1>b. /\ NULL \in Sems \cup {NULL} /\ "idle" \in Labels \ Flying /\ "idle" \notin Calling
  BY DEF Labels, Flying, Calling
<1>a. UNCHANGED schedVars => SchedTInv'
  BY <1>c DEF schedVars, SchedTInv, SchedTypeOK, SchedTasks
<1>1. ASSUME NEW s \in Sems, co_sem_wait(th, t, s) \/ co_sem_try_wait(th, t, s)
      PROVE  SemInv'
  BY <1>1, DecrementInv DEF co_sem_wait, co_sem_try_wait
<1>2. ASSUME NEW s \in Sems, co_sem_post(th, t, s) PROVE SemInv'
  BY <1>2, PostInv
<1>3. CASE co_sem_wait_again(th, t)
  <2>1. arg[t] \in Sems BY <1>c, <1>3 DEF co_sem_wait_again, Decrement, Calling
  <2>. QED BY <1>3, <2>1, DecrementInv DEF co_sem_wait_again
<1>. USE DEF Goto, Labels, Flying, Calling
<1>4. CASE co_sem_wait_locked(th, t)
  <2>1. CASE Goto(th, t, "short", "idle") /\ sem[arg[t]] >= 0 /\ Success(t, arg[t])
    BY <1>4, <2>1, <1>a, <1>b, LandInv DEF co_sem_wait_locked, Success
  <2>2. CASE Goto(th, t, "short", "linked") /\ wait_on(th, arg[t]) /\ UNCHANGED <<arg, got, posts>>
    <3>1. SchedTInv' BY <2>2, <1>c, WaitTypes DEF Sems
    <3>. QED BY <1>4, <2>2, <1>c, <3>1, LandInv DEF co_sem_wait_locked
  <2>. QED BY <1>4, <2>1, <2>2 DEF co_sem_wait_locked
<1>5. CASE co_sem_try_wait_locked(th, t)
  <2>1. CASE sem[arg[t]] >= 0 /\ Success(t, arg[t]) /\ UNCHANGED sem
    BY <1>5, <2>1, <1>a, <1>b, LandInv DEF co_sem_try_wait_locked, Success
  <2>2. CASE /\ sem' = [sem EXCEPT ![arg[t]] = sem[arg[t]] + 1]
             /\ arg' = [arg EXCEPT ![t] = NULL] /\ UNCHANGED <<schedVars, got, posts>>
    BY <1>5, <2>2, <1>a, <1>b, LandInv DEF co_sem_try_wait_locked
  <2>. QED BY <1>5, <2>1, <2>2 DEF co_sem_try_wait_locked
<1>6. CASE co_sync_yield(th, t)
  <2>1. CASE Goto(th, t, "linked", "blocked") /\ set_status(th, "SYS_BLOCK")
    <3>1. SchedTInv' BY <2>1, <1>c, SetStatusTypes DEF task_status_t
    <3>. QED BY <1>6, <2>1, <1>c, <3>1, QuietInv DEF co_sync_yield, semVars
  <2>2. CASE Goto(th, t, "blocked", "again") /\ co_yield(th)
    <3>1. SchedTInv' BY <2>2, <1>c, YieldTypes
    <3>. QED BY <1>6, <2>2, <1>c, <3>1, QuietInv DEF co_sync_yield, semVars
  <2>. QED BY <1>6, <2>1, <2>2 DEF co_sync_yield
<1>7. CASE co_sem_post_locked(th, t)
  <2>1. SchedTInv' BY <1>7, <1>c, <1>a, WakeTypes DEF co_sem_post_locked, Sems
  <2>. QED BY <1>7, <2>1, <1>b, QuietInv DEF co_sem_post_locked
<1>8. CASE task_yield(th, t)
  <2>1. SchedTInv' BY <1>8, <1>c, YieldTypes DEF task_yield
  <2>. QED BY <1>8, <1>c, <2>1, QuietInv DEF task_yield, semVars
<1>9. CASE task_exit(th, t)
  <2>1. CASE Goto(th, t, "idle", "killed") /\ set_status(th, "KILLED")
    <3>1. SchedTInv' BY <2>1, <1>c, SetStatusTypes DEF task_status_t
    <3>. QED BY <1>9, <2>1, <1>c, <3>1, QuietInv DEF task_exit, semVars
  <2>2. CASE Goto(th, t, "killed", "dead") /\ co_yield(th)
    <3>1. SchedTInv' BY <2>2, <1>c, YieldTypes
    <3>. QED BY <1>9, <2>2, <1>c, <3>1, QuietInv DEF task_exit, semVars
  <2>. QED BY <1>9, <2>1, <2>2 DEF task_exit
<1>. QED
  BY <1>1, <1>2, <1>3, <1>4, <1>5, <1>6, <1>7, <1>8, <1>9 DEF TaskStep

LEMMA SemSpecInv == Spec => []SemInv
<1>1. ASSUME SemInv, [Next]_allVars PROVE SemInv'
  <2>1. CASE UNCHANGED allVars
    BY <1>1, <2>1 DEF allVars, SemInv, SemTInv, TypeOK, SchedTypeOK, SchedTasks, ArgOK,
                      Paid, InFlight, SafePermits
  <2>2. CASE Next
    BY <1>1, <2>2, ThreadStepInv, TaskStepInv DEF Next
  <2>. QED BY <1>1, <2>1, <2>2
<1>. QED BY <1>1, SemInit, PTL DEF Spec

(* The variables of the semaphores and of the scheduler keep their types,   *)
(* even where threads race.                                                 *)
THEOREM SemTypeCorrect == Spec => []TypeOK
<1>1. SemInv => TypeOK BY DEF SemInv, SemTInv
<1>. QED BY <1>1, SemSpecInv, PTL

(* co_sem_wait and co_sem_try_wait succeed at most Count + posts times, for  *)
(* tasks of any number of threads: the second look at the counter under     *)
(* wait_lock never lets a task in that is not paid for.                     *)
THEOREM SemIsSafe == Spec => []SafePermits
<1>1. SemInv => SafePermits BY DEF SemInv
<1>. QED BY <1>1, SemSpecInv, PTL

-----------------------------------------------------------------------------
LEMMA InitClient == Init => Client!Init
BY DEF Init, Client!Init, Client!SchedInit, SchedInit, ClientPc, ClientLabel,
       NoCall, Client!NoCall, Nodes, Client!Nodes

(* The operators the client shares with CoSem. *)
LEMMA SameLists ==
    ASSUME NEW l, NEW ls, NEW elm
    PROVE  /\ Client!list_delete(l, elm) = list_delete(l, elm)
           /\ Client!list_add_after(l, ls, elm) = list_add_after(l, ls, elm)
           /\ Client!list_add_before(l, ls, elm) = list_add_before(l, ls, elm)
           /\ Client!list_empty(l, ls) <=> list_empty(l, ls)
BY DEF list_delete, list_init, list_add_after, list_add_before, list_empty, set_prev, set_next,
       Client!list_delete, Client!list_init, Client!list_add_after, Client!list_add_before,
       Client!list_empty, Client!set_prev, Client!set_next

LEMMA SameOps ==
    ASSUME NEW th, NEW t, NEW w
    PROVE  /\ Client!Running(th) <=> Running(th)
           /\ Client!SchedStep(th) <=> SchedStep(th)
           /\ Client!co_create(th, t) <=> co_create(th, t)
           /\ Client!co_yield(th) <=> co_yield(th)
           /\ Client!set_status(th, t) <=> set_status(th, t)
           /\ Client!wait_on(th, w) <=> wait_on(th, w)
           /\ Client!wake_first(th, w) <=> wake_first(th, w)
<1>. USE SameLists DEF Free, Client!Free, NoCall, Client!NoCall, co_resume, Client!co_resume
<1>1. Client!EnqueueStatus(th) <=> EnqueueStatus(th)
  BY DEF EnqueueStatus, Client!EnqueueStatus
<1>2. Client!RR_enqueue_unlink(th) <=> RR_enqueue_unlink(th)
  BY DEF RR_enqueue_unlink, Client!RR_enqueue_unlink
<1>3. Client!RR_enqueue_add(th) <=> RR_enqueue_add(th)
  BY DEF RR_enqueue_add, Client!RR_enqueue_add
<1>4. Client!schedule(th) <=> schedule(th)
  BY DEF schedule, Client!schedule
<1>5. Client!SchedPrev(th) <=> SchedPrev(th)
  BY DEF SchedPrev, Client!SchedPrev, task_destory, Client!task_destory
<1>6. Client!RR_picknext(th) <=> RR_picknext(th)
  BY DEF RR_picknext, Client!RR_picknext
<1>7. Client!RR_dequeue(th) <=> RR_dequeue(th)
  BY DEF RR_dequeue, Client!RR_dequeue, run_next, Client!run_next
<1>8. Client!SchedStep(th) <=> SchedStep(th)
  BY <1>1, <1>2, <1>3, <1>4, <1>5, <1>6, <1>7 DEF SchedStep, Client!SchedStep
<1>9. Client!co_create(th, t) <=> co_create(th, t)
  BY DEF co_create, Client!co_create
<1>10. Client!wait_on(th, w) <=> wait_on(th, w)
  BY DEF wait_on, Client!wait_on
<1>11. Client!wake_first(th, w) <=> wake_first(th, w)
  BY DEF wake_first, Client!wake_first
<1>. QED
  BY <1>8, <1>9, <1>10, <1>11 DEF Running, Client!Running, co_yield, Client!co_yield,
     set_status, Client!set_status

(* A move that leaves the client where it is. *)
LEMMA ClientStays ==
    ASSUME SemInv, NEW th \in Threads, NEW t \in Tasks, NEW from, NEW to, Goto(th, t, from, to),
           ClientLabel(from) = ClientLabel(to), UNCHANGED schedVars
    PROVE  UNCHANGED Client!vars
<1>1. ClientPc' = ClientPc BY DEF ClientPc, Goto, SemInv, SemTInv, TypeOK
<1>. QED BY <1>1 DEF Client!vars, schedVars

(* A move of a task between two labels is one of the client's moves. *)
LEMMA ClientGoto ==
    ASSUME SemInv, NEW th \in Threads, NEW t \in Tasks, NEW from, NEW to, Goto(th, t, from, to),
           NEW S, ClientLabel(from) \in S
    PROVE  Client!Goto(th, S, ClientLabel(to))
<1>1. Running(th) /\ current[th] = t /\ ClientPc[t] = ClientLabel(from)
  BY DEF Goto, ClientPc, SemInv, SemTInv, TypeOK
<1>2. ClientPc' = [ClientPc EXCEPT ![t] = ClientLabel(to)]
  BY DEF Goto, ClientPc, SemInv, SemTInv, TypeOK
<1>. QED BY <1>1, <1>2, SameOps DEF Client!Goto

LEMMA ThreadStepClient ==
    ASSUME SemInv, NEW th \in Threads, ThreadStep(th)
    PROVE  Client!Next
<1>1. ClientPc' = ClientPc BY DEF ThreadStep, ClientPc
<1>2. CASE SchedStep(th)
  BY <1>1, <1>2, SameOps DEF Client!Next, Client!Schedule
<1>3. CASE /\ where[th] = "task" => pc[current[th]] = "idle"
           /\ \E t \in Tasks : co_create(th, t)
  <2>1. where[th] = "task" => ClientPc[current[th]] = "run"
    BY <1>3 DEF ClientPc, ClientLabel, SemInv, SemTInv, SchedTasks
  <2>2. Client!Create(th) BY <1>1, <1>3, <2>1, SameOps DEF Client!Create
  <2>. QED BY <2>2 DEF Client!Next
<1>. QED BY <1>2, <1>3 DEF ThreadStep

(* The steps on the counter are none of the client's; waiting, blocking and  *)
(* the wake-up of co_sem_post are its Wait, Block, Switch and Wake.          *)
LEMMA TaskStepClient ==
    ASSUME SemInv, NEW th \in Threads, NEW t \in Tasks, TaskStep(th, t)
    PROVE  Client!Next \/ UNCHANGED Client!vars
<1>1. ASSUME NEW s, NEW from \in {"idle", "again"}, NEW to \in {"short", "try"},
             Decrement(th, t, s, from, to)
      PROVE  UNCHANGED Client!vars
  BY <1>1, ClientStays DEF Decrement, Success, ClientLabel
<1>2. ASSUME NEW s \in Sems, co_sem_post(th, t, s) PROVE UNCHANGED Client!vars
  BY <1>2, ClientStays DEF co_sem_post, ClientLabel
<1>3. CASE co_sem_try_wait_locked(th, t)
  BY <1>3, ClientStays DEF co_sem_try_wait_locked, Success, ClientLabel
<1>4. CASE co_sem_wait_locked(th, t)
  <2>1. CASE Goto(th, t, "short", "idle") /\ Success(t, arg[t])
    BY <2>1, ClientStays DEF Success, ClientLabel
  <2>2. CASE Goto(th, t, "short", "linked") /\ wait_on(th, arg[t])
    <3>1. Client!Goto(th, {"run", "io"}, "linked") BY <2>2, ClientGoto DEF ClientLabel
    <3>2. arg[t] \in WaitLists BY <2>2 DEF Goto, SemInv, SemTInv, ArgOK, Sems
    <3>3. Client!Wait(th) BY <2>2, <3>1, <3>2, SameOps DEF Client!Wait
    <3>. QED BY <3>3 DEF Client!Next
  <2>. QED BY <1>4, <2>1, <2>2 DEF co_sem_wait_locked
<1>5. CASE co_sync_yield(th, t)
  <2>1. CASE Goto(th, t, "linked", "blocked") /\ set_status(th, "SYS_BLOCK")
    <3>1. Client!Goto(th, {"linked"}, "blocked") BY <2>1, ClientGoto DEF ClientLabel
    <3>2. Client!Block(th) BY <2>1, <3>1, SameOps DEF Client!Block
    <3>. QED BY <3>2 DEF Client!Next
  <2>2. CASE Goto(th, t, "blocked", "again") /\ co_yield(th)
    <3>1. Client!Goto(th, {"blocked"}, "run") BY <2>2, ClientGoto DEF ClientLabel
    <3>2. Client!Switch(th) BY <2>2, <3>1, SameOps DEF Client!Switch
    <3>. QED BY <3>2 DEF Client!Next
  <2>. QED BY <1>5, <2>1, <2>2 DEF co_sync_yield
<1>6. CASE co_sem_post_locked(th, t)
  <2>1. CASE UNCHANGED schedVars
    BY <1>6, <2>1, ClientStays DEF co_sem_post_locked, ClientLabel
  <2>2. CASE wake_first(th, arg[t])
    <3>1. Client!Goto(th, {"run", "io"}, "run")
      BY <1>6, ClientGoto DEF co_sem_post_locked, ClientLabel
    <3>2. arg[t] \in WaitLists
      BY <1>6 DEF co_sem_post_locked, Goto, SemInv, SemTInv, ArgOK, Sems
    <3>3. Client!Wake(th) BY <2>2, <3>1, <3>2, SameOps DEF Client!Wake
    <3>. QED BY <3>3 DEF Client!Next
  <2>. QED BY <1>6, <2>1, <2>2 DEF co_sem_post_locked
<1>7. CASE task_yield(th, t)
  <2>1. Client!Goto(th, {"run", "io"}, "run") BY <1>7, ClientGoto DEF task_yield, ClientLabel
  <2>2. Client!Yield(th) BY <1>7, <2>1, SameOps DEF task_yield, Client!Yield
  <2>. QED BY <2>2 DEF Client!Next
<1>8. CASE task_exit(th, t)
  <2>1. CASE Goto(th, t, "idle", "killed") /\ set_status(th, "KILLED")
    <3>1. Client!Goto(th, {"run", "io"}, "killed") BY <2>1, ClientGoto DEF ClientLabel
    <3>2. Client!Exit(th) BY <2>1, <3>1, SameOps DEF Client!Exit
    <3>. QED BY <3>2 DEF Client!Next
  <2>2. CASE Goto(th, t, "killed", "dead") /\ co_yield(th)
    <3>1. Client!Goto(th, {"killed"}, "dead") BY <2>2, ClientGoto DEF ClientLabel
    <3>2. Client!ExitYield(th) BY <2>2, <3>1, SameOps DEF Client!ExitYield
    <3>. QED BY <3>2 DEF Client!Next
  <2>. QED BY <1>8, <2>1, <2>2 DEF task_exit
<1>. QED
  BY <1>1, <1>2, <1>3, <1>4, <1>5, <1>6, <1>7, <1>8
     DEF TaskStep, co_sem_wait, co_sem_try_wait, co_sem_wait_again

(* co_sem.c is a client of the scheduler, on any number of threads.         *)
THEOREM SemIsClient == Spec => ClientSpec
<1>1. ASSUME SemInv, [Next]_allVars PROVE [Client!Next]_(Client!vars)
  <2>1. CASE UNCHANGED allVars
    BY <2>1 DEF allVars, Client!vars, ClientPc
  <2>2. CASE Next
    BY <1>1, <2>2, ThreadStepClient, TaskStepClient DEF Next
  <2>. QED BY <1>1, <2>1, <2>2
<1>. QED BY <1>1, InitClient, SemSpecInv, PTL DEF Spec, ClientSpec, Client!Spec
=============================================================================
