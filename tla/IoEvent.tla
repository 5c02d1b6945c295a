------------------------------ MODULE IoEvent -------------------------------
(***************************************************************************)
(* One thread's event loop: the descriptor table (inner_fd.c), the epoll set *)
(* and its handlers (event.c), the time wheel and its task (time_wheel.c),   *)
(* timers (timer.c), and the hooked system calls that wait in it             *)
(* (sys_hook.c, sys_helper.c).  Of the scheduler only the order of the run   *)
(* queue matters here, so it is a sequence; on one thread the lists are      *)
(* intact (SchedClientProofs).                                               *)
(*                                                                         *)
(* A stretch of code between two switches sees no other task; a step is such *)
(* a stretch, or, in the loop of write, one system call.  What a descriptor  *)
(* is ready for changes between steps.                                       *)
(*                                                                         *)
(* The hooks are enabled, and a descriptor in the table is O_NONBLOCK, as     *)
(* socket, accept and open_timer leave it; a call on any other descriptor is *)
(* the system's own.                                                         *)
(***************************************************************************)
EXTENDS Integers, SequencesExt

CONSTANTS
    Tasks, timer_task,   (* the client's tasks, and the one that runs _timeout_task *)
    Fds, tick_fd,        (* the client's descriptors, and the timerfd of the wheel *)
    TimerFd,             (* TimerFd[t]: the descriptor open_timer gets for t   *)
    FD_TIMEOUT, WheelSize,
    Does, Sleepers,      (* Does[t][f]: the calls that t makes on f; who sleeps *)
    Arrivals,            (* Arrivals[f]: the events that happen to f            *)
    Bytes,               (* how much a write sends                             *)
    NULL

AllTasks == Tasks \cup {timer_task}
TimerFds == {TimerFd[t] : t \in Tasks}
AllFds == Fds \cup TimerFds \cup {tick_fd}
Slots == 0 .. WheelSize - 1

Calls == {"socket", "listen", "accept", "connect", "read", "write",
          "sendmsg", "close", "co_poll"}

(* The epoll events, and what events_to_error makes of each. *)
IE == [in |-> "IEREAD", out |-> "IEWRITE", err |-> "IEERR", rdhup |-> "IERDHUP", hup |-> "IEHUP"]
Events == DOMAIN IE
events_to_error(E) == {IE[e] : e \in E}

ASSUME IoAssumption ==
    /\ FD_TIMEOUT \in Nat /\ WheelSize \in Nat
    /\ FD_TIMEOUT + 1 < WheelSize
    /\ Bytes \in Nat \ {0} /\ Arrivals \in [Fds -> SUBSET Events]
    /\ Does \in [Tasks -> [Fds -> SUBSET Calls]] /\ Sleepers \subseteq Tasks
    /\ timer_task \notin Tasks /\ NULL \notin AllTasks \cup AllFds
    /\ TimerFd \in [Tasks -> TimerFds] /\ IsInjective(TimerFd)
    /\ tick_fd \notin Fds \cup TimerFds /\ Fds \cap TimerFds = {}

VARIABLES
    inner,     (* g_inner_fd_list: an inner_fd or NULL for every descriptor    *)
    ready,     (* the kernel: the events that hold of each descriptor, and      *)
    interest,  (*   those it is registered for with epoll, none if it is not    *)
    wheel, loc,
    run, rq,   (* the running task, NULL in RR_picknext, and the run queue      *)
    pc,        (* where a task is: its own code, a write, or waiting            *)
    op, uses,  (* the call it is in, and the descriptors that call waits for    *)
    len,       (* what a write has counted of the bytes that the kernel took    *)
    sent,      (* history: those bytes, by their place in the buffer, in order   *)
    waited     (* the ticks since it began to wait, up to FD_TIMEOUT            *)

vars == <<inner, ready, interest, wheel, loc, run, rq, pc, op,
          uses, sent, len, waited>>

InnerFd == [task : AllTasks \cup {NULL}, error : SUBSET (events_to_error(Events) \cup {"IETIMEOUT"}),
            timeout : {-1, FD_TIMEOUT}]
Ops == {"none", "read", "accept", "connect", "write", "sendmsg", "sleep", "co_poll"}

TypeOK ==
    /\ inner \in [AllFds -> InnerFd \cup {NULL}]
    /\ ready \in [AllFds -> SUBSET Events] /\ interest \in [AllFds -> SUBSET Events]
    /\ wheel \in [Slots -> Seq(AllFds)] /\ loc \in Slots
    /\ run \in AllTasks \cup {NULL} /\ rq \in Seq(AllTasks)
    /\ pc \in [AllTasks -> {"run", "write", "wait"}]
    /\ op \in [AllTasks -> Ops] /\ uses \in [AllTasks -> SUBSET AllFds]
    /\ len \in [Tasks -> 0 .. 2 * Bytes] /\ sent \in [Tasks -> Seq(1 .. Bytes)]
    /\ waited \in [Tasks -> 0 .. FD_TIMEOUT]

-----------------------------------------------------------------------------
(* inner_fd.c *)

new_inner_fd == [task |-> NULL, error |-> {}, timeout |-> FD_TIMEOUT]
timer_inner_fd(t) == [task |-> t, error |-> {}, timeout |-> -1]

Init ==
    /\ inner = [f \in AllFds |-> IF f = tick_fd THEN timer_inner_fd(timer_task) ELSE NULL]
    /\ ready = [f \in AllFds |-> {}] /\ interest = [f \in AllFds |-> {}]
    /\ wheel = [s \in Slots |-> <<>>] /\ loc = 0
    /\ run = NULL /\ rq \in {<<timer_task>> \o q : q \in SetToSeqs(Tasks)}
    /\ pc = [t \in AllTasks |-> "run"] /\ op = [t \in AllTasks |-> "none"]
    /\ uses = [t \in AllTasks |-> {}]
    /\ len = [t \in Tasks |-> 0] /\ sent = [t \in Tasks |-> <<>>] /\ waited = [t \in Tasks |-> 0]

(* time_wheel.c.  list_add puts an element in front. *)

wheel_rotate(l) == (l + 1) % WheelSize

wheel_delete_element(w, f) == [s \in Slots |-> Remove(w[s], f)]

(* Mutant: a slot too early. *)
wheel_update_element_early(w, f, timeout) ==
    IF timeout < 0 THEN w
    ELSE [wheel_delete_element(w, f) EXCEPT ![(loc + timeout) % WheelSize] = <<f>> \o @]

wheel_update_element(w, f, timeout) ==
    IF timeout < 0 THEN w
    ELSE [wheel_delete_element(w, f) EXCEPT ![(loc + timeout + 1) % WheelSize] = <<f>> \o @]

co_resume(q, t) == Append(Remove(q, t), t)

-----------------------------------------------------------------------------
(* event.c.  event_poll registers the descriptor, puts it in the wheel and   *)
(* switches; event_poll_end is what it does when it is back.  tab is the     *)
(* descriptor table its caller left.                                         *)

Caller(t) == run = t /\ pc[t] = "run"
Returns(t, o) == run = t /\ pc[t] = "wait" /\ op[t] = o
Idle(f) == \A t \in AllTasks : f \notin uses[t]

wait_for(t, F, o) ==
    /\ pc' = [pc EXCEPT ![t] = "wait"]
    /\ op' = [op EXCEPT ![t] = o] /\ uses' = [uses EXCEPT ![t] = F]
    /\ run' = NULL

(* Once the call has returned nothing reads what it found in error. *)
done_with(F) == [f \in AllFds |-> IF f \in F THEN [inner[f] EXCEPT !.error = {}] ELSE inner[f]]

leave(t) ==
    /\ pc' = [pc EXCEPT ![t] = "run"]
    /\ op' = [op EXCEPT ![t] = "none"] /\ uses' = [uses EXCEPT ![t] = {}]
    /\ len' = [u \in Tasks |-> IF u = t THEN 0 ELSE len[u]]
    /\ sent' = [u \in Tasks |-> IF u = t THEN <<>> ELSE sent[u]]
    /\ waited' = [u \in Tasks |-> IF u = t THEN 0 ELSE waited[u]]

(* Mutant: ifd->task is only set once. *)
event_poll_first(t, f, events, o, tab) ==
    /\ inner' = [tab EXCEPT ![f].error = {}, ![f].task = IF @ = NULL THEN t ELSE @]
    /\ interest' = [interest EXCEPT ![f] = events]
    /\ wheel' = wheel_update_element(wheel, f, tab[f].timeout)
    /\ wait_for(t, {f}, o)
    /\ UNCHANGED <<loc, rq, sent, len, waited>>

(* Mutant: ifd->task is not set. *)
event_poll_forgets(t, f, events, o, tab) ==
    /\ inner' = [tab EXCEPT ![f].error = {}]
    /\ interest' = [interest EXCEPT ![f] = events]
    /\ wheel' = wheel_update_element(wheel, f, tab[f].timeout)
    /\ wait_for(t, {f}, o)
    /\ UNCHANGED <<loc, rq, sent, len, waited>>

event_poll(t, f, events, o, tab) ==
    /\ inner' = [tab EXCEPT ![f].error = {}, ![f].task = t]
    /\ interest' = [interest EXCEPT ![f] = events]
    /\ wheel' = wheel_update_element(wheel, f, tab[f].timeout)
    /\ wait_for(t, {f}, o)
    /\ UNCHANGED <<loc, rq, sent, len, waited>>

poll_failed(f) == inner[f].error \cap {"IETIMEOUT", "IEERR", "IEHUP"} # {}

(* Mutant: the descriptor stays in the wheel. *)
event_poll_end_keeps(f) ==
    /\ interest' = [interest EXCEPT ![f] = {}]
    /\ UNCHANGED <<wheel, loc, run, rq>>

event_poll_end(f) ==
    /\ wheel' = wheel_delete_element(wheel, f)
    /\ interest' = [interest EXCEPT ![f] = {}]
    /\ UNCHANGED <<loc, run, rq>>

(* RR_picknext with its event_wait: every registered descriptor with an event *)
(* gets the event as its error, leaves the epoll set, and has its task       *)
(* resumed, in the order epoll_wait returns them; the first task of the      *)
(* queue runs.  With nothing to run the thread stays in epoll_wait.          *)
fired(f) == IF interest[f] = {} THEN {} ELSE ready[f] \cap (interest[f] \cup {"err", "hup"})

RR_picknext ==
    LET F == {f \in AllFds : fired(f) # {}}
        T == {inner[f].task : f \in F} \ {NULL}
    IN  /\ run = NULL
        /\ \E order \in SetToSeqs(T) :
              LET q == FoldLeft(co_resume, rq, order)
              IN  q # <<>> /\ run' = Head(q) /\ rq' = Tail(q)
        /\ inner' = [f \in AllFds |-> IF f \in F
                         THEN [inner[f] EXCEPT !.error = events_to_error(fired(f))] ELSE inner[f]]
        /\ interest' = [f \in AllFds |-> IF f \in F THEN {} ELSE interest[f]]
        /\ UNCHANGED <<ready, wheel, loc, pc, op, uses, sent, len, waited>>

(* _timeout_task reads the timerfd, which takes all its expirations at once, *)
(* turns the wheel by one and resumes the tasks of that slot.  The read of a  *)
(* timerfd that epoll reported cannot fail.                                  *)

(* Mutant: only the first descriptor of the slot is taken. *)
wheel_expire_first ==
    LET l == wheel_rotate(loc)
        L == IF wheel[l] = <<>> THEN <<>> ELSE <<Head(wheel[l])>>
    IN  /\ loc' = l
        /\ inner' = [f \in AllFds |-> IF f \in ToSet(L)
                         THEN [inner[f] EXCEPT !.error = @ \cup {"IETIMEOUT"}] ELSE inner[f]]
        /\ rq' = FoldLeft(co_resume, rq, [i \in DOMAIN L |-> inner[L[i]].task])
        /\ wheel' = [wheel EXCEPT ![l] = IF @ = <<>> THEN <<>> ELSE Tail(@)]

wheel_expire ==
    LET l == wheel_rotate(loc)
        L == wheel[l]
    IN  /\ loc' = l
        /\ inner' = [f \in AllFds |-> IF f \in ToSet(L)
                         THEN [inner[f] EXCEPT !.error = @ \cup {"IETIMEOUT"}] ELSE inner[f]]
        /\ rq' = FoldLeft(co_resume, rq, [i \in DOMAIN L |-> inner[L[i]].task])
        /\ wheel' = [wheel EXCEPT ![l] = <<>>]

_timeout_task_waits ==
    /\ Caller(timer_task) /\ ready[tick_fd] = {}
    /\ event_poll(timer_task, tick_fd, {"in", "rdhup", "err"}, "read", inner)
    /\ UNCHANGED ready

_timeout_task ==
    LET t == timer_task IN
    \/ _timeout_task_waits
    \/ /\ Caller(t) /\ ready[tick_fd] # {}
       /\ wheel_expire /\ ready' = [ready EXCEPT ![tick_fd] = {}]
       /\ UNCHANGED <<interest, run, pc, op, uses, sent, len, waited>>
    \/ /\ Returns(t, "read")
       /\ wheel_expire /\ ready' = [ready EXCEPT ![tick_fd] = {}]
       /\ interest' = [interest EXCEPT ![tick_fd] = {}]
       /\ leave(t)
       /\ UNCHANGED run

-----------------------------------------------------------------------------
(* sys_hook.c.  The client's rule: a descriptor is used by one task at a     *)
(* time, since event_poll keeps one task per descriptor.                     *)

READ  == {"in", "rdhup", "err"}
WRITE == {"out", "rdhup", "err"}

would_block(f, e) == ready[f] \cap {e, "err", "hup"} = {} /\ ~(e = "in" /\ "rdhup" \in ready[f])
May(t, f) == Caller(t) /\ inner[f] # NULL /\ Idle(f)
listening(f) == inner[f].timeout = -1
calls == <<pc, op, uses, sent, len, waited>>
loop == <<interest, wheel, loc, run, rq>>

(* A system call takes what there was, or leaves some. *)
consume(f, e) == ready' \in {ready, [ready EXCEPT ![f] = @ \ {e}]}

(* socket and in_set_nonblock. *)
socket(t, f) ==
    /\ Caller(t) /\ inner[f] = NULL
    /\ inner' = [inner EXCEPT ![f] = new_inner_fd]
    /\ UNCHANGED <<ready, loop, calls>>

listen(t, f) ==
    /\ May(t, f)
    /\ inner' = [inner EXCEPT ![f].timeout = -1]
    /\ UNCHANGED <<ready, loop, calls>>

(* delete_inner_fd unlinks it from the wheel, the kernel takes it out of the *)
(* epoll set.                                                                *)
close(t, f) ==
    /\ May(t, f)
    /\ inner' = [inner EXCEPT ![f] = NULL]
    /\ wheel' = wheel_delete_element(wheel, f)
    /\ interest' = [interest EXCEPT ![f] = {}]
    /\ ready' = [ready EXCEPT ![f] = {}]
    /\ UNCHANGED <<loc, run, rq, calls>>

(* read, recv, recvfrom, recvmsg: one attempt, and another after a wait that *)
(* did not fail.                                                             *)
read(t, f) ==
    /\ May(t, f) /\ ~listening(f)
    /\ \/ ~would_block(f, "in") /\ consume(f, "in") /\ UNCHANGED <<inner, loop, calls>>
       \/ /\ would_block(f, "in")
          /\ event_poll(t, f, READ, "read", inner) /\ UNCHANGED ready

read_return(t) ==
    \E f \in uses[t] :
        /\ t \in Tasks /\ Returns(t, "read") /\ event_poll_end(f) /\ leave(t)
        /\ \/ poll_failed(f) /\ UNCHANGED ready
           \/ ~poll_failed(f) /\ consume(f, "in")
        /\ inner' = done_with({f})

(* connect asks for the socket's error after the wait; the state is the same. *)
connect(t, f) ==
    /\ May(t, f) /\ ~listening(f) /\ would_block(f, "out")
    /\ event_poll(t, f, WRITE, "connect", inner)
    /\ UNCHANGED ready

connect_return(t) ==
    \E f \in uses[t] :
        /\ Returns(t, "connect") /\ event_poll_end(f) /\ leave(t)
        /\ inner' = done_with({f}) /\ UNCHANGED ready

(* accept: the descriptor of a new connection becomes O_NONBLOCK as well. *)
accept_now(f, g, tab) ==
    /\ "in" \in ready[f] /\ consume(f, "in")
    /\ inner[g] = NULL /\ inner' = [tab EXCEPT ![g] = new_inner_fd]

accept(t, f, g) ==
    /\ May(t, f) /\ listening(f)
    /\ \/ accept_now(f, g, inner) /\ UNCHANGED <<loop, calls>>
       \/ /\ would_block(f, "in")
          /\ event_poll(t, f, READ, "accept", inner) /\ UNCHANGED ready

accept_return(t, g) ==
    \E f \in uses[t] :
        /\ Returns(t, "accept") /\ event_poll_end(f) /\ leave(t)
        /\ \/ ~poll_failed(f) /\ accept_now(f, g, done_with({f}))
           \/ inner' = done_with({f}) /\ UNCHANGED ready   (* the wait or the second attempt failed *)

(* write, send, sendto: len = 0, then system calls that pass the buffer from  *)
(* len on, until the kernel has taken it all; after a wait that did not fail, *)
(* more of them.  sendmsg counts in the same way, and passes the same msghdr  *)
(* each time.                                                                *)
write(t, f, o) ==
    /\ May(t, f) /\ ~listening(f)
    /\ pc' = [pc EXCEPT ![t] = "write"]
    /\ op' = [op EXCEPT ![t] = o] /\ uses' = [uses EXCEPT ![t] = {f}]
    /\ len' = [len EXCEPT ![t] = 0]
    /\ UNCHANGED <<inner, ready, loop, sent, waited>>

write_some(t) ==
    \E f \in uses[t] :
        /\ run = t /\ pc[t] = "write" /\ len[t] < Bytes
        /\ \/ LET from == IF op[t] = "sendmsg" THEN 0 ELSE len[t]
              IN  \E ret \in 1 .. Bytes - from :
                 /\ "out" \in ready[f] /\ consume(f, "out")
                 /\ len' = [len EXCEPT ![t] = @ + ret]
                 /\ sent' = [sent EXCEPT ![t] = @ \o [i \in 1 .. ret |-> from + i]]
                 /\ UNCHANGED <<inner, loop, pc, op, uses, waited>>
           \/ /\ ready[f] \cap {"err", "hup"} # {} /\ leave(t)
              /\ UNCHANGED <<inner, ready, loop>>
           \/ /\ would_block(f, "out")
              /\ event_poll(t, f, WRITE, op[t], inner) /\ UNCHANGED ready

write_all(t) ==
    /\ run = t /\ pc[t] = "write" /\ len[t] >= Bytes
    /\ leave(t) /\ UNCHANGED <<inner, ready, loop>>

(* Mutant: len = 0 inside the outer loop. *)
write_return_restarts(t) ==
    \E f \in uses[t] :
        /\ run = t /\ pc[t] = "wait" /\ op[t] \in {"write", "sendmsg"}
        /\ event_poll_end(f) /\ inner' = done_with({f}) /\ UNCHANGED ready
        /\ \/ poll_failed(f) /\ leave(t)
           \/ /\ ~poll_failed(f)
              /\ pc' = [pc EXCEPT ![t] = "write"] /\ len' = [len EXCEPT ![t] = 0]
              /\ waited' = [waited EXCEPT ![t] = 0] /\ UNCHANGED <<op, uses, sent>>

write_return(t) ==
    \E f \in uses[t] :
        /\ run = t /\ pc[t] = "wait" /\ op[t] \in {"write", "sendmsg"}
        /\ event_poll_end(f) /\ inner' = done_with({f}) /\ UNCHANGED ready
        /\ \/ poll_failed(f) /\ leave(t)
           \/ /\ ~poll_failed(f)
              /\ pc' = [pc EXCEPT ![t] = "write"]
              /\ waited' = [waited EXCEPT ![t] = 0] /\ UNCHANGED <<op, uses, sent, len>>

-----------------------------------------------------------------------------
(* timer.c and sys_helper.c.  A timer that has expired before the task waits  *)
(* for it makes co_sleep return at once, which changes nothing.               *)

close_timer(t) ==
    /\ inner' = [inner EXCEPT ![TimerFd[t]] = NULL]
    /\ ready' = [ready EXCEPT ![TimerFd[t]] = {}]

co_sleep(t) ==
    /\ Caller(t) /\ t \in Tasks
    /\ event_poll(t, TimerFd[t], READ, "sleep", [inner EXCEPT ![TimerFd[t]] = timer_inner_fd(t)])
    /\ UNCHANGED ready

co_sleep_return(t) ==
    /\ Returns(t, "sleep") /\ event_poll_end(TimerFd[t]) /\ leave(t)
    /\ close_timer(t)
   

(* co_poll waits for all of F, or for a timer of its own if it was given a    *)
(* time-out other than 0 and -1; else the time-outs of the descriptors hold. *)
co_poll(t, F, e, use_timeout) ==
    /\ t \in Tasks /\ \A f \in F : May(t, f) /\ inner[f] # NULL
    /\ inner' = [f \in AllFds |->
                    IF f \in F THEN [inner[f] EXCEPT !.task = t, !.error = {}]
                    ELSE IF use_timeout /\ f = TimerFd[t] THEN timer_inner_fd(t)
                    ELSE inner[f]]
    /\ interest' = [f \in AllFds |-> IF f \in F THEN {e}
                                     ELSE IF use_timeout /\ f = TimerFd[t] THEN {"in"}
                                     ELSE interest[f]]
    /\ wheel' = IF use_timeout THEN wheel
                ELSE FoldLeft(LAMBDA w, f : wheel_update_element(w, f, inner[f].timeout),
                              wheel, SetToSeq(F))
    /\ wait_for(t, IF use_timeout THEN F \cup {TimerFd[t]} ELSE F, "co_poll")
    /\ UNCHANGED <<ready, loc, rq, sent, len, waited>>

(* Mutant: the descriptors without an event stay registered. *)
co_poll_return_keeps(t) ==
    LET T == TimerFd[t] IN
    /\ Returns(t, "co_poll")
    /\ interest' = [f \in AllFds |-> IF f \in uses[t] /\ inner[f].error # {}
                                     THEN {} ELSE interest[f]]
    /\ inner' = [done_with(uses[t]) EXCEPT ![T] = NULL]
    /\ ready' = [ready EXCEPT ![T] = {}]
    /\ wheel' = FoldLeft(wheel_delete_element, wheel, SetToSeq(uses[t]))
    /\ leave(t)
    /\ UNCHANGED <<loc, run, rq>>

(* The timer, if there is one, is closed; without one the descriptors leave   *)
(* the wheel.                                                                *)
co_poll_return(t) ==
    LET T == TimerFd[t] IN
    /\ Returns(t, "co_poll")
    /\ inner' = [done_with(uses[t]) EXCEPT ![T] = NULL]
    /\ ready' = [ready EXCEPT ![T] = {}]
    /\ interest' = [f \in AllFds |-> IF f \in uses[t] THEN {} ELSE interest[f]]
    /\ wheel' = IF T \in uses[t] THEN wheel
                ELSE FoldLeft(wheel_delete_element, wheel, SetToSeq(uses[t]))
    /\ leave(t)
    /\ UNCHANGED <<loc, run, rq>>

co_yield(t) ==
    /\ Caller(t) /\ t \in Tasks
    /\ rq' = co_resume(rq, t) /\ run' = NULL
    /\ UNCHANGED <<inner, ready, interest, wheel, loc, calls>>

-----------------------------------------------------------------------------
(* The kernel: an event on a descriptor, a second of the wheel's timerfd, the *)
(* end of a timer.                                                           *)

happens(f, e) ==
    /\ e \notin ready[f]
    /\ ready' = [ready EXCEPT ![f] = @ \cup {e}]
    /\ UNCHANGED <<inner, loop, pc, op, uses, sent, len>>

Arrive == \E f \in Fds : \E e \in Arrivals[f] :
             inner[f] # NULL /\ happens(f, e) /\ UNCHANGED waited

Expire(t) ==
    inner[TimerFd[t]] # NULL /\ happens(TimerFd[t], "in") /\ UNCHANGED waited

Tick ==
    /\ happens(tick_fd, "in")
    /\ waited' = [t \in Tasks |-> IF pc[t] = "wait" /\ waited[t] < FD_TIMEOUT
                                     THEN waited[t] + 1 ELSE waited[t]]

Resumed(t) ==
    \/ read_return(t) \/ connect_return(t) \/ (\E g \in Fds : accept_return(t, g))
    \/ write_some(t) \/ write_all(t) \/ write_return(t)
    \/ co_sleep_return(t) \/ co_poll_return(t)

Call(t) ==
    \/ \E f \in Fds :
          \/ "socket" \in Does[t][f] /\ socket(t, f)
          \/ "listen" \in Does[t][f] /\ listen(t, f)
          \/ "accept" \in Does[t][f] /\ \E g \in Fds : accept(t, f, g)
          \/ "connect" \in Does[t][f] /\ connect(t, f)
          \/ "read" \in Does[t][f] /\ read(t, f)
          \/ \E o \in {"write", "sendmsg"} \cap Does[t][f] : write(t, f, o)
          \/ "close" \in Does[t][f] /\ close(t, f)
    \/ \E F \in (SUBSET {f \in Fds : "co_poll" \in Does[t][f]}) \ {{}},
          e \in {"in", "out"}, use_timeout \in BOOLEAN : co_poll(t, F, e, use_timeout)
    \/ t \in Sleepers /\ co_sleep(t)
    \/ co_yield(t)

Next ==
    \/ RR_picknext \/ _timeout_task
    \/ \E t \in Tasks : Call(t) \/ Resumed(t) \/ Expire(t)
    \/ Arrive \/ Tick

Spec == Init /\ [][Next]_vars

-----------------------------------------------------------------------------
(* A task that comes back from the switch in event_poll or co_poll finds an  *)
(* event or a time-out on a descriptor it waits for: nothing it waited for    *)
(* before, and nobody else's descriptor, resumes it.                         *)
WokenForCause ==
    \A t \in AllTasks : run = t /\ pc[t] = "wait" => \E f \in uses[t] : inner[f].error # {}

(* A descriptor nobody waits for is neither in the epoll set nor in the       *)
(* wheel, so that no late event or time-out is delivered to a task that has  *)
(* gone on, or to a freed inner_fd.                                          *)
QuietWhenIdle ==
    \A f \in AllFds : Idle(f) => interest[f] = {} /\ \A s \in Slots : f \notin ToSet(wheel[s])

(* A task that waits is either on its way to run or can still be woken: one   *)
(* of its descriptors is registered with it as the task to resume.           *)
CanBeWoken ==
    \A t \in AllTasks :
        pc[t] = "wait" /\ run # t /\ t \notin ToSet(rq)
            => \E f \in uses[t] : interest[f] # {} /\ inner[f].task = t

(* The wheel does not time out a wait before FD_TIMEOUT ticks of the timerfd *)
(* since the wait began, although a tick may be pending at that moment.      *)
TimeoutNotEarly ==
    \A t \in Tasks : \A f \in uses[t] \cap Fds :
        pc[t] = "wait" /\ "IETIMEOUT" \in inner[f].error => waited[t] >= FD_TIMEOUT

(* However often a write, send or sendto waits and is resumed in between,     *)
(* the kernel has taken the first len bytes of the buffer, each once and in   *)
(* order, and never more than there are: what the call passes next, and what  *)
(* it returns, is right.  sendmsg counts right too, but the bytes the kernel  *)
(* has taken from it are not the first len: every system call starts again.   *)
WritesOnce ==
    \A t \in Tasks :
        /\ Len(sent[t]) = len[t]
        /\ op[t] = "write" => len[t] <= Bytes /\ \A i \in DOMAIN sent[t] : sent[t][i] = i

(* Every wait that the wheel is to time out has its descriptor in a slot that *)
(* the wheel reaches within FD_TIMEOUT + 1 turns, until the task is resumed:  *)
(* no turn, no event and no other wait makes the time-out go missing.        *)
TimeoutComes ==
    \A t \in Tasks : \A f \in uses[t] \cap Fds :
        ( /\ pc[t] = "wait" /\ run # t /\ t \notin ToSet(rq)
          /\ TimerFd[t] \notin uses[t] /\ ~listening(f) )
            => \E k \in 1 .. FD_TIMEOUT + 1 : f \in ToSet(wheel[(loc + k) % WheelSize])
=============================================================================
