-------------------------- MODULE SchedClientProofs -------------------------
(***************************************************************************)
(* With one thread, the scheduler and any clients keep every list intact,   *)
(* for any number of tasks and wait lists.  (With two threads they do not:  *)
(* see the run mutex_two_threads_home.)                                      *)
(***************************************************************************)
EXTENDS SchedClient, CoListProofs

OneThread == \A a, b \in Threads : a = b

Heads == Threads \cup WaitLists

RingsApart == rings_apart(link, Nodes, Heads)

(* A task that runs is on no list unless it has just put itself on one. *)
RunnerUnlinked ==
    \A th \in Threads :
        (where[th] = "task" /\ pc[current[th]] \notin {"linked", "blocked"})
            => list_empty(link, current[th])

(* A task that has ended is on no list, and nobody is about to queue it. *)
DeadUnlinked ==
    \A t \in Tasks : pc[t] \in {"killed", "dead"} =>
        /\ list_empty(link, t)
        /\ status[t] \in {"KILLED", "FREED"}
        /\ \A th \in Threads : ~Free(th) => enq[th].task # t

FreedIsDead ==
    \A t \in Tasks : /\ status[t] = "FREED" => pc[t] = "dead"
                     /\ status[t] = "KILLED" => pc[t] \in {"killed", "dead"}

(* A thread that is in sched_rq_enqueue queues a task other than the one it *)
(* runs, and links it only once it is unlinked.                             *)
CallOK ==
    \A th \in Threads : ~Free(th) =>
        /\ enq[th].task \in Tasks
        /\ enq[th].at = "add" => list_empty(link, enq[th].task)
        /\ where[th] = "task" => enq[th].task # current[th]
        /\ where[th] \notin {"prev", "dequeue"}

(* The task a thread came from, goes to or runs is a live one. *)
CurrentOK ==
    \A th \in Threads :
        /\ where[th] \in {"prev", "dequeue", "task"} => current[th] \in Tasks
        /\ where[th] = "prev" => /\ status[current[th]] # "FREED"
                                 /\ pc[current[th]] # "killed"
        /\ where[th] = "dequeue" => pc[current[th]] \notin {"killed", "dead"}
        /\ where[th] = "task" => /\ pc[current[th]] # "dead"
                                 /\ status[current[th]] # "READY"

IInv == /\ TypeOK /\ LinksIntact /\ RingsApart /\ RunnerUnlinked
        /\ DeadUnlinked /\ FreedIsDead /\ CallOK /\ CurrentOK

-----------------------------------------------------------------------------
LEMMA NodeFacts ==
    /\ Tasks \subseteq Nodes /\ Heads \subseteq Nodes
    /\ \A t \in Tasks : t \notin Heads /\ t # NULL /\ Home[t] \in Threads
    /\ NULL \notin Nodes
BY SchedAssumption DEF Nodes, Heads

LEMMA InitInv == Init => IInv
<1>. SUFFICES ASSUME Init PROVE IInv OBVIOUS
<1>. USE DEF Init, SchedInit
<1>1. TypeOK
  BY DEF TypeOK, SchedTypeOK, Links, NoCall, Calls, Labels, Places, task_status_t
<1>2. LinksIntact
  BY DEF LinksIntact, list_intact
<1>3. RingsApart
  <2>. DEFINE L == [n \in Nodes |-> n]
  <2>1. L \in [Nodes -> Nodes] /\ (\A h \in Heads : L[h] = h) /\ (\A n \in Nodes : L[link[n].next] = L[n])
    BY NodeFacts
  <2>. QED BY <2>1 DEF RingsApart, rings_apart
<1>4. RunnerUnlinked /\ DeadUnlinked /\ FreedIsDead /\ CallOK /\ CurrentOK
  BY DEF RunnerUnlinked, DeadUnlinked, FreedIsDead, CallOK, CurrentOK, Free, NoCall
<1>. QED BY <1>1, <1>2, <1>3, <1>4 DEF IInv

(* The steps that leave every list alone. *)
LEMMA QuietStep ==
    ASSUME IInv, link' = link
    PROVE  LinksIntact' /\ RingsApart'
BY DEF IInv, LinksIntact, RingsApart

(* The facts about the lists that the lemmas of CoListProofs ask for. *)
LEMMA ListFacts ==
    ASSUME IInv
    PROVE  /\ Heads \in SUBSET Nodes /\ link \in Links(Nodes)
           /\ list_intact(link, Nodes) /\ rings_apart(link, Nodes, Heads)
           /\ \A n \in Nodes : n \notin Heads => n \in Tasks
BY NodeFacts DEF IInv, TypeOK, SchedTypeOK, LinksIntact, RingsApart, Nodes, Heads

(* A step that unlinks a task. *)
LEMMA UnlinkStep ==
    ASSUME IInv, NEW t \in Tasks, link' = list_delete(link, t)
    PROVE  /\ link' \in Links(Nodes) /\ LinksIntact' /\ RingsApart'
           /\ list_empty(link', t)
           /\ \A x \in Tasks : list_empty(link, x) => list_empty(link', x)
<1>1. t \in Nodes /\ t \notin Heads /\ Tasks \subseteq Nodes BY NodeFacts
<1>. DEFINE k == list_delete(link, t)
<1>2. /\ k \in Links(Nodes) /\ list_intact(k, Nodes) /\ rings_apart(k, Nodes, Heads)
      /\ list_empty(k, t) /\ \A x \in Nodes : list_empty(link, x) => list_empty(k, x)
  BY <1>1, ListFacts, DeleteLemma
<1>3. LinksIntact' <=> list_intact(link', Nodes) BY DEF LinksIntact
<1>4. RingsApart' <=> rings_apart(link', Nodes, Heads) BY DEF RingsApart
<1>. QED BY <1>1, <1>2, <1>3, <1>4

(* A step that puts a task that is on no list next to a head. *)
LEMMA LinkStep ==
    ASSUME IInv, AddressFirst, NEW h \in Heads, NEW t \in Tasks, list_empty(link, t),
           link' = list_add_after(link, h, t) \/ link' = list_add_before(link, h, t)
    PROVE  /\ link' \in Links(Nodes) /\ LinksIntact' /\ RingsApart'
           /\ \A x \in Tasks \ {t} : list_empty(link, x) => list_empty(link', x)
<1>1. t \in Nodes /\ t \notin Heads /\ t # h /\ h \in Nodes /\ Tasks \subseteq Nodes
      /\ h \notin Tasks
  BY NodeFacts
<1>. DEFINE k == link'
<1>2. k \in {list_add_after(link, h, t), list_add_before(link, h, t)} OBVIOUS
<1>. HIDE DEF k
<1>3. /\ k \in Links(Nodes) /\ list_intact(k, Nodes) /\ rings_apart(k, Nodes, Heads)
      /\ \A x \in Nodes \ {t, h} : list_empty(link, x) => list_empty(k, x)
  BY <1>1, <1>2, ListFacts, AddLemma
<1>4. LinksIntact' <=> list_intact(k, Nodes) BY DEF LinksIntact, k
<1>5. RingsApart' <=> rings_apart(k, Nodes, Heads) BY DEF RingsApart, k
<1>. QED BY <1>1, <1>3, <1>4, <1>5 DEF k

(* list_to_task is only applied to the link of a task that has not ended. *)
LEMMA FirstOrLast ==
    ASSUME IInv, NEW h \in Heads, NEW x, x = link[h].next \/ x = link[h].prev,
           ~list_empty(link, x)
    PROVE  x \in Tasks /\ pc[x] \notin {"killed", "dead"}
<1>0. /\ Heads \in SUBSET Nodes /\ link \in Links(Nodes)
      /\ list_intact(link, Nodes) /\ rings_apart(link, Nodes, Heads)
  BY ListFacts
<1>1. x \in Nodes /\ x \notin Heads BY <1>0, NeighbourOfHead
<1>2. x \in Tasks BY <1>1, ListFacts
<1>. QED BY <1>2 DEF IInv, DeadUnlinked

LEMMA EnqueueStatusInv ==
    ASSUME OneThread, IInv, NEW th \in Threads, EnqueueStatus(th), UNCHANGED pc
    PROVE  IInv'
<1>. USE NodeFacts DEF EnqueueStatus, Free
<1>1. TypeOK' BY DEF IInv, TypeOK, SchedTypeOK, Calls, task_status_t
<1>2. link' = link OBVIOUS
<1>3. LinksIntact' /\ RingsApart' BY <1>2, QuietStep
<1>4. RunnerUnlinked' BY <1>2 DEF IInv, RunnerUnlinked
<1>5. DeadUnlinked' BY <1>2 DEF IInv, DeadUnlinked
<1>6. FreedIsDead' BY DEF IInv, FreedIsDead
<1>7. CallOK' BY <1>2 DEF IInv, CallOK
<1>8. CurrentOK' BY DEF IInv, CurrentOK
<1>. QED BY <1>1, <1>3, <1>4, <1>5, <1>6, <1>7, <1>8 DEF IInv

LEMMA scheduleInv ==
    ASSUME OneThread, IInv, NEW th \in Threads, schedule(th), UNCHANGED pc
    PROVE  IInv'
<1>. USE NodeFacts DEF schedule, Free
<1>1. TypeOK' BY DEF IInv, TypeOK, SchedTypeOK, Places
<1>2. link' = link OBVIOUS
<1>3. LinksIntact' /\ RingsApart' BY <1>2, QuietStep
<1>4. RunnerUnlinked' BY <1>2 DEF IInv, RunnerUnlinked
<1>5. DeadUnlinked' BY <1>2 DEF IInv, DeadUnlinked
<1>6. FreedIsDead' BY DEF IInv, FreedIsDead
<1>7. CallOK' BY <1>2 DEF IInv, CallOK
<1>8. CurrentOK' BY DEF IInv, CurrentOK
<1>. QED BY <1>1, <1>3, <1>4, <1>5, <1>6, <1>7, <1>8 DEF IInv

LEMMA RR_picknextInv ==
    ASSUME OneThread, IInv, NEW th \in Threads, RR_picknext(th), UNCHANGED pc
    PROVE  IInv'
<1>. USE NodeFacts DEF RR_picknext, Free
<1>0. link[th].prev \in Tasks /\ pc[link[th].prev] \notin {"killed", "dead"}
  BY FirstOrLast DEF Heads
<1>1. TypeOK' BY <1>0 DEF IInv, TypeOK, SchedTypeOK, Places
<1>2. link' = link OBVIOUS
<1>3. LinksIntact' /\ RingsApart' BY <1>2, QuietStep
<1>4. RunnerUnlinked' BY <1>2 DEF IInv, RunnerUnlinked
<1>5. DeadUnlinked' BY <1>2 DEF IInv, DeadUnlinked
<1>6. FreedIsDead' BY DEF IInv, FreedIsDead
<1>7. CallOK' BY <1>2 DEF IInv, CallOK
<1>8. CurrentOK' BY <1>0 DEF IInv, TypeOK, SchedTypeOK, CurrentOK
<1>. QED BY <1>1, <1>3, <1>4, <1>5, <1>6, <1>7, <1>8 DEF IInv

LEMMA CreateInv ==
    ASSUME OneThread, IInv, NEW th \in Threads, Create(th)
    PROVE  IInv'
<1>. USE NodeFacts DEF Create, co_create, co_resume, Free
<1>1. TypeOK' BY DEF IInv, TypeOK, SchedTypeOK, Calls
<1>2. link' = link OBVIOUS
<1>3. LinksIntact' /\ RingsApart' BY <1>2, QuietStep
<1>4. RunnerUnlinked' BY <1>2 DEF IInv, RunnerUnlinked
<1>5. DeadUnlinked' BY <1>2 DEF IInv, DeadUnlinked
<1>6. FreedIsDead' BY DEF IInv, FreedIsDead
<1>7. CallOK' BY <1>2 DEF IInv, CallOK, CurrentOK
<1>8. CurrentOK' BY DEF IInv, CurrentOK
<1>. QED BY <1>1, <1>3, <1>4, <1>5, <1>6, <1>7, <1>8 DEF IInv

LEMMA YieldInv ==
    ASSUME OneThread, IInv, NEW th \in Threads, Yield(th)
    PROVE  IInv'
<1>. USE NodeFacts DEF Yield, Goto, Running, Free, co_yield
<1>1. TypeOK' BY DEF IInv, TypeOK, SchedTypeOK, Labels, Places
<1>2. link' = link OBVIOUS
<1>3. LinksIntact' /\ RingsApart' BY <1>2, QuietStep
<1>4. RunnerUnlinked' BY <1>2 DEF IInv, RunnerUnlinked
<1>5. DeadUnlinked' BY <1>2 DEF IInv, DeadUnlinked
<1>6. FreedIsDead' BY DEF IInv, FreedIsDead
<1>7. CallOK' BY <1>2 DEF IInv, CallOK
<1>8. CurrentOK'
  <2>1. /\ current' = current /\ where'[th] = "prev" /\ current[th] \in Tasks
        /\ status'[current[th]] # "FREED" /\ pc'[current[th]] # "killed"
    BY DEF IInv, TypeOK, SchedTypeOK, FreedIsDead
  <2>. QED BY <2>1 DEF OneThread, CurrentOK
<1>. QED BY <1>1, <1>3, <1>4, <1>5, <1>6, <1>7, <1>8 DEF IInv

LEMMA BlockInv ==
    ASSUME OneThread, IInv, NEW th \in Threads, Block(th)
    PROVE  IInv'
<1>. USE NodeFacts DEF Block, Goto, Running, Free, set_status
<1>1. TypeOK' BY DEF IInv, TypeOK, SchedTypeOK, Labels, task_status_t
<1>2. link' = link OBVIOUS
<1>3. LinksIntact' /\ RingsApart' BY <1>2, QuietStep
<1>4. RunnerUnlinked' BY <1>2 DEF IInv, RunnerUnlinked
<1>5. DeadUnlinked' BY <1>2 DEF IInv, DeadUnlinked
<1>6. FreedIsDead' BY DEF IInv, FreedIsDead
<1>7. CallOK' BY <1>2 DEF IInv, CallOK
<1>8. CurrentOK' BY DEF IInv, CurrentOK
<1>. QED BY <1>1, <1>3, <1>4, <1>5, <1>6, <1>7, <1>8 DEF IInv

(* Switch and SwitchTill. *)
LEMMA SwitchesInv ==
    ASSUME OneThread, IInv, NEW th \in Threads, NEW to \in {"run", "io"},
           Goto(th, {"blocked"}, to), co_yield(th)
    PROVE  IInv'
<1>. USE NodeFacts DEF Goto, Running, Free, co_yield
<1>1. TypeOK' BY DEF IInv, TypeOK, SchedTypeOK, Labels, Places
<1>2. link' = link OBVIOUS
<1>3. LinksIntact' /\ RingsApart' BY <1>2, QuietStep
<1>4. RunnerUnlinked' BY <1>2 DEF IInv, OneThread, TypeOK, SchedTypeOK, RunnerUnlinked
<1>5. DeadUnlinked' BY <1>2 DEF IInv, DeadUnlinked
<1>6. FreedIsDead' BY DEF IInv, FreedIsDead
<1>7. CallOK' BY <1>2 DEF IInv, CallOK
<1>8. CurrentOK'
  <2>1. /\ current' = current /\ where'[th] = "prev" /\ current[th] \in Tasks
        /\ status'[current[th]] # "FREED" /\ pc'[current[th]] # "killed"
    BY DEF IInv, TypeOK, SchedTypeOK, FreedIsDead
  <2>. QED BY <2>1 DEF OneThread, CurrentOK
<1>. QED BY <1>1, <1>3, <1>4, <1>5, <1>6, <1>7, <1>8 DEF IInv

LEMMA SwitchInv ==
    ASSUME OneThread, IInv, NEW th \in Threads, Switch(th) \/ SwitchTill(th)
    PROVE  IInv'
BY SwitchesInv DEF Switch, SwitchTill

LEMMA PollInv ==
    ASSUME OneThread, IInv, NEW th \in Threads, Poll(th)
    PROVE  IInv'
<1>. USE NodeFacts DEF Poll, Goto, Running, Free, set_status
<1>1. TypeOK' BY DEF IInv, TypeOK, SchedTypeOK, Labels, task_status_t
<1>2. link' = link OBVIOUS
<1>3. LinksIntact' /\ RingsApart' BY <1>2, QuietStep
<1>4. RunnerUnlinked' BY <1>2 DEF IInv, RunnerUnlinked
<1>5. DeadUnlinked' BY <1>2 DEF IInv, RunnerUnlinked, DeadUnlinked
<1>6. FreedIsDead' BY DEF IInv, FreedIsDead
<1>7. CallOK' BY <1>2 DEF IInv, CallOK
<1>8. CurrentOK' BY DEF IInv, CurrentOK
<1>. QED BY <1>1, <1>3, <1>4, <1>5, <1>6, <1>7, <1>8 DEF IInv

LEMMA PollYieldInv ==
    ASSUME OneThread, IInv, NEW th \in Threads, PollYield(th)
    PROVE  IInv'
<1>. USE NodeFacts DEF PollYield, Goto, Running, Free, co_yield
<1>1. TypeOK' BY DEF IInv, TypeOK, SchedTypeOK, Labels, Places
<1>2. link' = link OBVIOUS
<1>3. LinksIntact' /\ RingsApart' BY <1>2, QuietStep
<1>4. RunnerUnlinked' BY <1>2 DEF IInv, RunnerUnlinked
<1>5. DeadUnlinked' BY <1>2 DEF IInv, RunnerUnlinked, DeadUnlinked
<1>6. FreedIsDead' BY DEF IInv, RunnerUnlinked, FreedIsDead
<1>7. CallOK' BY <1>2 DEF IInv, RunnerUnlinked, CallOK
<1>8. CurrentOK'
  <2>1. /\ current' = current /\ where'[th] = "prev" /\ current[th] \in Tasks
        /\ status'[current[th]] # "FREED" /\ pc'[current[th]] # "killed"
    BY DEF IInv, TypeOK, SchedTypeOK, FreedIsDead
  <2>. QED BY <2>1 DEF OneThread, CurrentOK
<1>. QED BY <1>1, <1>3, <1>4, <1>5, <1>6, <1>7, <1>8 DEF IInv

LEMMA EventInv ==
    ASSUME OneThread, IInv, NEW th \in Threads, Event(th)
    PROVE  IInv'
<1>. USE NodeFacts DEF Event, event_wait, co_resume, Free
<1>1. TypeOK' BY DEF IInv, TypeOK, SchedTypeOK, Calls, Labels
<1>2. link' = link OBVIOUS
<1>3. LinksIntact' /\ RingsApart' BY <1>2, QuietStep
<1>4. RunnerUnlinked' BY <1>2 DEF IInv, RunnerUnlinked
<1>5. DeadUnlinked' BY <1>2 DEF IInv, RunnerUnlinked, DeadUnlinked
<1>6. FreedIsDead' BY DEF IInv, RunnerUnlinked, FreedIsDead
<1>7. CallOK' BY <1>2 DEF IInv, SchedTypeOK, RunnerUnlinked, CallOK
<1>8. CurrentOK' BY DEF IInv, SchedTypeOK, RunnerUnlinked, CurrentOK
<1>. QED BY <1>1, <1>3, <1>4, <1>5, <1>6, <1>7, <1>8 DEF IInv

LEMMA ExitInv ==
    ASSUME OneThread, IInv, NEW th \in Threads, Exit(th)
    PROVE  IInv'
<1>. USE NodeFacts DEF Exit, Goto, Running, Free, set_status
<1>1. TypeOK' BY DEF IInv, TypeOK, SchedTypeOK, Labels, task_status_t
<1>2. link' = link OBVIOUS
<1>3. LinksIntact' /\ RingsApart' BY <1>2, QuietStep
<1>4. RunnerUnlinked' BY <1>2 DEF IInv, RunnerUnlinked
<1>5. DeadUnlinked'
  BY <1>2 DEF IInv, OneThread, TypeOK, SchedTypeOK, RunnerUnlinked, DeadUnlinked
<1>6. FreedIsDead' BY DEF IInv, TypeOK, SchedTypeOK, RunnerUnlinked, FreedIsDead
<1>7. CallOK' BY <1>2 DEF IInv, RunnerUnlinked, CallOK
<1>8. CurrentOK' BY DEF IInv, OneThread, SchedTypeOK, FreedIsDead, CurrentOK
<1>. QED BY <1>1, <1>3, <1>4, <1>5, <1>6, <1>7, <1>8 DEF IInv

LEMMA ExitYieldInv ==
    ASSUME OneThread, IInv, NEW th \in Threads, ExitYield(th)
    PROVE  IInv'
<1>. USE NodeFacts DEF ExitYield, Goto, Running, Free, co_yield
<1>1. TypeOK' BY DEF IInv, TypeOK, SchedTypeOK, Labels, Places
<1>2. link' = link OBVIOUS
<1>3. LinksIntact' /\ RingsApart' BY <1>2, QuietStep
<1>4. RunnerUnlinked' BY <1>2 DEF IInv, RunnerUnlinked
<1>5. DeadUnlinked' BY <1>2 DEF IInv, RunnerUnlinked, DeadUnlinked
<1>6. FreedIsDead' BY DEF IInv, FreedIsDead
<1>7. CallOK' BY <1>2 DEF IInv, SchedTypeOK, CallOK
<1>8. CurrentOK'
  <2>1. /\ current' = current /\ where'[th] = "prev" /\ current[th] \in Tasks
        /\ status'[current[th]] # "FREED" /\ pc'[current[th]] # "killed"
    BY DEF IInv, TypeOK, SchedTypeOK, FreedIsDead
  <2>. QED BY <2>1 DEF OneThread, CurrentOK
<1>. QED BY <1>1, <1>3, <1>4, <1>5, <1>6, <1>7, <1>8 DEF IInv

LEMMA RR_enqueue_unlinkInv ==
    ASSUME OneThread, AddressFirst, IInv, NEW th \in Threads, RR_enqueue_unlink(th), UNCHANGED pc
    PROVE  IInv'
<1>. USE NodeFacts DEF RR_enqueue_unlink, Free
<1>. DEFINE t == enq[th].task
<1>1. /\ t \in Tasks 
      /\ link' = list_delete(link, t)
  BY DEF IInv, CallOK
<1>2. /\ link' \in Links(Nodes) /\ LinksIntact' /\ RingsApart'
      /\ list_empty(link', t)
      /\ \A x \in Tasks : list_empty(link, x) => list_empty(link', x)
  BY <1>1, UnlinkStep DEF Heads
<1>3. TypeOK' BY <1>1, <1>2 DEF IInv, TypeOK, SchedTypeOK, Calls
<1>4. RunnerUnlinked' BY <1>1, <1>2 DEF IInv, RunnerUnlinked, CurrentOK
<1>5. DeadUnlinked' BY <1>1, <1>2 DEF IInv, SchedTypeOK, DeadUnlinked
<1>6. FreedIsDead' BY <1>1 DEF IInv, FreedIsDead
<1>7. CallOK' BY <1>1, <1>2 DEF IInv, SchedTypeOK, CallOK
<1>8. CurrentOK' BY <1>1 DEF IInv, CurrentOK
<1>. QED BY <1>2, <1>3, <1>4, <1>5, <1>6, <1>7, <1>8 DEF IInv

LEMMA RR_enqueue_addInv ==
    ASSUME OneThread, AddressFirst, IInv, NEW th \in Threads, RR_enqueue_add(th), UNCHANGED pc
    PROVE  IInv'
<1>. USE NodeFacts DEF RR_enqueue_add, Free, NoCall
<1>. DEFINE t == enq[th].task
<1>1. /\ t \in Tasks /\ Home[t] \in Threads /\ list_empty(link, t)
      /\ link' = list_add_after(link, Home[t], t)
  BY DEF IInv, CallOK
<1>2. /\ link' \in Links(Nodes) /\ LinksIntact' /\ RingsApart'
      /\ \A x \in Tasks \ {t} : list_empty(link, x) => list_empty(link', x)
  BY <1>1, LinkStep DEF Heads
<1>3. TypeOK' BY <1>1, <1>2 DEF IInv, TypeOK, SchedTypeOK, Calls
<1>4. RunnerUnlinked'
  BY <1>1, <1>2
     DEF IInv, OneThread, TypeOK, SchedTypeOK, RunnerUnlinked, DeadUnlinked, FreedIsDead,
         CallOK, CurrentOK
<1>5. DeadUnlinked'
  BY <1>1, <1>2
     DEF IInv, OneThread, TypeOK, SchedTypeOK, RunnerUnlinked, DeadUnlinked, FreedIsDead,
         CallOK, CurrentOK
<1>6. FreedIsDead' BY <1>1 DEF IInv, FreedIsDead
<1>7. CallOK'
  BY <1>1, <1>2
     DEF IInv, OneThread, TypeOK, SchedTypeOK, RunnerUnlinked, DeadUnlinked, FreedIsDead,
         CallOK, CurrentOK
<1>8. CurrentOK' BY <1>1 DEF IInv, CurrentOK
<1>. QED BY <1>2, <1>3, <1>4, <1>5, <1>6, <1>7, <1>8 DEF IInv

LEMMA RR_dequeueInv ==
    ASSUME OneThread, AddressFirst, IInv, NEW th \in Threads, RR_dequeue(th), UNCHANGED pc
    PROVE  IInv'
<1>. USE NodeFacts DEF RR_dequeue, run_next, Free
<1>. DEFINE t == current[th]
<1>1. /\ t \in Tasks 
      /\ link' = list_delete(link, t)
  BY DEF IInv
<1>2. /\ link' \in Links(Nodes) /\ LinksIntact' /\ RingsApart'
      /\ list_empty(link', t)
      /\ \A x \in Tasks : list_empty(link, x) => list_empty(link', x)
  BY <1>1, UnlinkStep DEF Heads
<1>3. TypeOK' BY <1>1, <1>2 DEF IInv, TypeOK, SchedTypeOK, Places, task_status_t
<1>4. RunnerUnlinked'
  BY <1>1, <1>2 DEF IInv, SchedTypeOK, RunnerUnlinked, DeadUnlinked, CallOK, CurrentOK
<1>5. DeadUnlinked'
  BY <1>1, <1>2 DEF IInv, TypeOK, SchedTypeOK, RunnerUnlinked, DeadUnlinked, CurrentOK
<1>6. FreedIsDead' BY <1>1 DEF IInv, SchedTypeOK, FreedIsDead
<1>7. CallOK'
  BY <1>1, <1>2
     DEF IInv, OneThread, TypeOK, SchedTypeOK, RunnerUnlinked, DeadUnlinked, FreedIsDead,
         CallOK, CurrentOK
<1>8. CurrentOK'
  BY <1>1
     DEF IInv, OneThread, TypeOK, SchedTypeOK, RunnerUnlinked, DeadUnlinked, FreedIsDead,
         CallOK, CurrentOK
<1>. QED BY <1>2, <1>3, <1>4, <1>5, <1>6, <1>7, <1>8 DEF IInv

LEMMA WaitInv ==
    ASSUME OneThread, AddressFirst, IInv, NEW th \in Threads, Wait(th)
    PROVE  IInv'
<1>. USE NodeFacts DEF Goto, Running, Free
<1>0. PICK w \in WaitLists : Goto(th, {"run", "io"}, "linked") /\ wait_on(th, w)
  BY DEF Wait
<1>. USE <1>0 DEF wait_on
<1>. DEFINE t == current[th]
<1>1. /\ t \in Tasks /\ list_empty(link, t)
      /\ link' = list_add_before(link, w, t)
  BY <1>0 DEF IInv, RunnerUnlinked
<1>2. /\ link' \in Links(Nodes) /\ LinksIntact' /\ RingsApart'
      /\ \A x \in Tasks \ {t} : list_empty(link, x) => list_empty(link', x)
  BY <1>1, LinkStep DEF Heads
<1>3. TypeOK' BY <1>1, <1>2 DEF IInv, TypeOK, SchedTypeOK, Labels
<1>4. RunnerUnlinked' BY <1>1, <1>2 DEF IInv, TypeOK, RunnerUnlinked, CurrentOK
<1>5. DeadUnlinked'
  BY <1>1, <1>2
     DEF IInv, OneThread, TypeOK, SchedTypeOK, RunnerUnlinked, DeadUnlinked, FreedIsDead,
         CallOK, CurrentOK
<1>6. FreedIsDead' BY <1>1 DEF IInv, TypeOK, RunnerUnlinked, FreedIsDead
<1>7. CallOK'
  BY <1>1, <1>2
     DEF IInv, OneThread, SchedTypeOK, RunnerUnlinked, FreedIsDead, CallOK, CurrentOK
<1>8. CurrentOK' BY <1>1 DEF IInv, TypeOK, RunnerUnlinked, CurrentOK
<1>. QED BY <1>2, <1>3, <1>4, <1>5, <1>6, <1>7, <1>8 DEF IInv

LEMMA WakeInv ==
    ASSUME OneThread, AddressFirst, IInv, NEW th \in Threads, Wake(th)
    PROVE  IInv'
<1>. USE NodeFacts DEF Goto, Running, Free
<1>0. PICK w \in WaitLists : Goto(th, {"run", "io"}, "run") /\ wake_first(th, w)
  BY DEF Wake
<1>. USE <1>0 DEF wake_first, co_resume
<1>. DEFINE t == link[w].next
<1>1. /\ t \in Tasks /\ pc[t] \notin {"killed", "dead"}
      /\ link' = list_delete(link, t)
  BY <1>0, FirstOrLast DEF Heads
<1>2. /\ link' \in Links(Nodes) /\ LinksIntact' /\ RingsApart'
      /\ list_empty(link', t)
      /\ \A x \in Tasks : list_empty(link, x) => list_empty(link', x)
  BY <1>1, UnlinkStep DEF Heads
<1>3. TypeOK' BY <1>1, <1>2 DEF IInv, TypeOK, SchedTypeOK, Calls, Labels
<1>4. RunnerUnlinked' BY <1>1, <1>2 DEF IInv, TypeOK, RunnerUnlinked, CallOK, CurrentOK
<1>5. DeadUnlinked'
  BY <1>1, <1>2
     DEF IInv, TypeOK, SchedTypeOK, RunnerUnlinked, DeadUnlinked, FreedIsDead, CallOK,
         CurrentOK
<1>6. FreedIsDead' BY <1>1 DEF IInv, TypeOK, RunnerUnlinked, FreedIsDead, CallOK
<1>7. CallOK'
  BY <1>1, <1>2
     DEF IInv, TypeOK, SchedTypeOK, RunnerUnlinked, DeadUnlinked, FreedIsDead, CallOK,
         CurrentOK
<1>8. CurrentOK' BY <1>1 DEF IInv, TypeOK, RunnerUnlinked, CurrentOK
<1>. QED BY <1>2, <1>3, <1>4, <1>5, <1>6, <1>7, <1>8 DEF IInv

LEMMA WakeOtherInv ==
    ASSUME OneThread, AddressFirst, IInv, NEW th \in Threads, WakeOther(th)
    PROVE  IInv'
<1>. USE NodeFacts DEF Goto, Running, Free
<1>0. PICK w \in WaitLists : /\ Goto(th, {"linked"}, "linked")
                             /\ link[w].next # current[th] /\ wake_first(th, w)
  BY DEF WakeOther
<1>. USE <1>0 DEF wake_first, co_resume
<1>. DEFINE t == link[w].next
<1>1. /\ t \in Tasks /\ pc[t] \notin {"killed", "dead"}
      /\ link' = list_delete(link, t)
  BY <1>0, FirstOrLast DEF Heads
<1>2. /\ link' \in Links(Nodes) /\ LinksIntact' /\ RingsApart'
      /\ list_empty(link', t)
      /\ \A x \in Tasks : list_empty(link, x) => list_empty(link', x)
  BY <1>1, UnlinkStep DEF Heads
<1>3. TypeOK' BY <1>1, <1>2 DEF IInv, TypeOK, SchedTypeOK, Calls, Labels
<1>4. RunnerUnlinked' BY <1>1, <1>2 DEF IInv, TypeOK, RunnerUnlinked, CallOK, CurrentOK
<1>5. DeadUnlinked'
  BY <1>1, <1>2
     DEF IInv, TypeOK, SchedTypeOK, RunnerUnlinked, DeadUnlinked, FreedIsDead, CallOK,
         CurrentOK
<1>6. FreedIsDead' BY <1>1 DEF IInv, TypeOK, RunnerUnlinked, FreedIsDead, CallOK
<1>7. CallOK'
  BY <1>1, <1>2
     DEF IInv, TypeOK, SchedTypeOK, RunnerUnlinked, DeadUnlinked, FreedIsDead, CallOK,
         CurrentOK
<1>8. CurrentOK' BY <1>1 DEF IInv, TypeOK, RunnerUnlinked, CurrentOK
<1>. QED BY <1>2, <1>3, <1>4, <1>5, <1>6, <1>7, <1>8 DEF IInv

LEMMA SchedPrevInv ==
    ASSUME OneThread, AddressFirst, IInv, NEW th \in Threads, SchedPrev(th), UNCHANGED pc
    PROVE  IInv'
<1>. USE NodeFacts DEF SchedPrev, Free, co_resume, task_destory
<1>. DEFINE t == current[th]
<1>1. t \in Tasks /\ status[t] # "FREED" BY DEF IInv, CurrentOK
<1>2. /\ link' \in Links(Nodes) /\ LinksIntact' /\ RingsApart'
      /\ status[t] = "KILLED" => list_empty(link', t)
      /\ \A x \in Tasks : list_empty(link, x) => list_empty(link', x)
  <2>1. CASE status[t] = "KILLED"
    BY <1>1, <2>1, UnlinkStep
  <2>2. CASE status[t] # "KILLED"
    BY <2>2, QuietStep, ListFacts
  <2>. QED BY <2>1, <2>2
<1>3. TypeOK'
  BY <1>1, <1>2 DEF IInv, TypeOK, SchedTypeOK, Calls, Labels, Places, task_status_t, Links
<1>4. RunnerUnlinked'
  BY <1>1, <1>2 DEF IInv, TypeOK, SchedTypeOK, RunnerUnlinked, DeadUnlinked, CallOK, CurrentOK
<1>5. DeadUnlinked'
  BY <1>1, <1>2
     DEF IInv, TypeOK, SchedTypeOK, RunnerUnlinked, DeadUnlinked, FreedIsDead, CallOK,
         CurrentOK
<1>6. FreedIsDead'
  BY <1>1
     DEF IInv, TypeOK, SchedTypeOK, RunnerUnlinked, DeadUnlinked, FreedIsDead, CallOK,
         CurrentOK
<1>7. CallOK'
  BY <1>1, <1>2
     DEF IInv, OneThread, TypeOK, SchedTypeOK, RunnerUnlinked, DeadUnlinked, FreedIsDead,
         CallOK, CurrentOK
<1>8. CurrentOK'
  BY <1>1
     DEF IInv, OneThread, TypeOK, SchedTypeOK, RunnerUnlinked, DeadUnlinked, FreedIsDead,
         CallOK, CurrentOK
<1>. QED BY <1>2, <1>3, <1>4, <1>5, <1>6, <1>7, <1>8 DEF IInv

LEMMA NextInv ==
    ASSUME OneThread, AddressFirst, IInv, [Next]_vars
    PROVE  IInv'
<1>1. CASE UNCHANGED vars
  BY <1>1 DEF vars, IInv, TypeOK, SchedTypeOK, LinksIntact, RingsApart, RunnerUnlinked,
              DeadUnlinked, FreedIsDead, CallOK, CurrentOK, Free
<1>2. CASE Next
  <2>1. PICK th \in Threads :
            \/ Schedule(th) \/ Create(th) \/ Yield(th) \/ Wait(th) \/ Block(th)
            \/ Switch(th) \/ SwitchTill(th) \/ Wake(th) \/ WakeOther(th) \/ Poll(th) \/ PollYield(th)
            \/ Event(th) \/ Exit(th) \/ ExitYield(th)
    BY <1>2 DEF Next
  <2>2. CASE Schedule(th)
    BY <2>2, EnqueueStatusInv, RR_enqueue_unlinkInv, RR_enqueue_addInv, scheduleInv,
       SchedPrevInv, RR_picknextInv, RR_dequeueInv DEF Schedule, SchedStep
  <2>. QED
    BY <2>1, <2>2, CreateInv, YieldInv, WaitInv, BlockInv, SwitchInv, WakeInv, WakeOtherInv,
       PollInv, PollYieldInv, EventInv, ExitInv, ExitYieldInv
<1>. QED BY <1>1, <1>2

LEMMA SpecInv ==
    ASSUME OneThread, AddressFirst
    PROVE  Spec => []IInv
<1>. QED BY InitInv, NextInv, PTL DEF Spec

-----------------------------------------------------------------------------
(* Every variable keeps its type, with any number of tasks and wait lists.   *)
THEOREM TypeCorrect ==
    ASSUME OneThread, AddressFirst
    PROVE  Spec => []TypeOK
<1>1. IInv => TypeOK BY DEF IInv
<1>. QED BY <1>1, SpecInv, PTL

(* On one thread, whatever its tasks call in whatever order, list.c,         *)
(* sched_RR.c and schedule() never break a list.                             *)
THEOREM ListsStayIntact ==
    ASSUME OneThread, AddressFirst
    PROVE  Spec => []LinksIntact
<1>1. IInv => LinksIntact BY DEF IInv
<1>. QED BY <1>1, SpecInv, PTL

(* On one thread a running task is on no list when it calls a primitive: the *)
(* precondition of the list_add_before of co_mutex.c, co_cond.c and co_sem.c. *)
THEOREM RunnersAreUnlinked ==
    ASSUME OneThread, AddressFirst
    PROVE  Spec => []RunningUnlinked
<1>1. IInv => RunningUnlinked
  BY DEF IInv, RunningUnlinked, RunnerUnlinked, Running
<1>. QED BY <1>1, SpecInv, PTL

(* On one thread the memory task_destory has freed is not used again, and a  *)
(* task that has ended is never run.                                         *)
THEOREM FreedIsNotTouched ==
    ASSUME OneThread, AddressFirst
    PROVE  Spec => []TouchesLiveTasks
<1>1. IInv => TouchesLiveTasks
  BY DEF IInv, TouchesLiveTasks, DeadUnlinked, FreedIsDead, CallOK, CurrentOK
<1>. QED BY <1>1, SpecInv, PTL
=============================================================================
