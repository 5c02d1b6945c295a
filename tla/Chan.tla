-------------------------------- MODULE Chan --------------------------------
(***************************************************************************)
(* chan.c: a channel of nelems messages, or an unbuffered one (nelems = 0),  *)
(* under one mutex with two condition variables.  The deque of messages is  *)
(* a sequence, and a message is known by the task that sends it.            *)
(***************************************************************************)
EXTENDS CoCond

CONSTANTS
    chan_mutex, not_full, not_empty,   (* the heads of their wait lists      *)
    Capacities                         (* what chan_open may be given        *)

ASSUME ChanAssumption ==
    /\ chan_mutex \in Mutexes
    /\ not_full \in WaitLists \ Mutexes /\ not_empty \in WaitLists \ Mutexes
    /\ not_full # not_empty
    /\ Capacities \subseteq Nat

VARIABLES
    nelems,  (* chan->nelems                                                 *)
    msgs,    (* chan->msgs                                                   *)
    closed   (* whether chan_close has been called; the code keeps no trace  *)

chanVars == <<nelems, msgs, closed>>

ChanPlaces == {"send",         (* chan_send: the mutex is locked             *)
               "sent",         (* unbuffered: the message is in msgs         *)
               "send_end",     (* before the co_mutex_unlock of chan_send    *)
               "recv",         (* chan_recv: the mutex is locked             *)
               "recv_signal",  (* unbuffered: before the second signal       *)
               "recv_end"}

ChanTypeOK == nelems \in Nat /\ msgs \in Seq(Tasks) /\ closed \in BOOLEAN

chan_open == nelems \in Capacities /\ msgs = <<>> /\ closed = FALSE

chan_msgs_full == Len(msgs) = nelems \/ (nelems = 0 /\ Len(msgs) = 1)

chan_push_msg(t) == msgs' = Append(msgs, t) /\ UNCHANGED <<nelems, closed>>
chan_pop_msg == msgs' = Tail(msgs) /\ UNCHANGED <<nelems, closed>>

(* A step of chan.c while the task is in no call of its own. *)
quiet == UNCHANGED <<pc, mutexVars, cond>>

(* chan_send and chan_recv begin with co_mutex_lock and end with             *)
(* co_mutex_unlock.                                                          *)
chan_lock(th, t, op) ==
    /\ At(th, t, "out", op) /\ co_mutex_lock(th, t, chan_mutex)
    /\ UNCHANGED <<cond, chanVars>>

chan_unlock(th, t) ==
    /\ At(th, t, "send_end", "out") \/ At(th, t, "recv_end", "out")
    /\ co_mutex_unlock(th, t, chan_mutex)
    /\ UNCHANGED <<cond, chanVars>>

(* Mutant: a woken sender does not look at msgs again. *)
chan_buffer_send_once(th, t) ==
    /\ nelems > 0
    /\ \/ /\ At(th, t, "send", "sent") /\ chan_msgs_full
          /\ co_cond_wait(th, t, not_full, chan_mutex) /\ UNCHANGED chanVars
       \/ /\ At(th, t, "send", "send_end") /\ ~chan_msgs_full
          /\ chan_push_msg(t) /\ co_cond_signal(th, not_empty) /\ quiet
       \/ /\ At(th, t, "sent", "send_end")
          /\ chan_push_msg(t) /\ co_cond_signal(th, not_empty) /\ quiet

(* Mutant: the receivers are not told of the message. *)
chan_buffer_send_quiet(th, t) ==
    /\ nelems > 0
    /\ \/ /\ At(th, t, "send", "send") /\ chan_msgs_full
          /\ co_cond_wait(th, t, not_full, chan_mutex) /\ UNCHANGED chanVars
       \/ /\ At(th, t, "send", "send_end") /\ ~chan_msgs_full
          /\ chan_push_msg(t) /\ UNCHANGED schedVars /\ quiet

chan_buffer_send(th, t) ==
    /\ nelems > 0
    /\ \/ /\ At(th, t, "send", "send") /\ chan_msgs_full
          /\ co_cond_wait(th, t, not_full, chan_mutex) /\ UNCHANGED chanVars
       \/ /\ At(th, t, "send", "send_end") /\ ~chan_msgs_full
          /\ chan_push_msg(t) /\ co_cond_signal(th, not_empty) /\ quiet

chan_buffer_recv(th, t) ==
    /\ nelems > 0
    /\ \/ /\ At(th, t, "recv", "recv") /\ msgs = <<>>
          /\ co_cond_wait(th, t, not_empty, chan_mutex) /\ UNCHANGED chanVars
       \/ /\ At(th, t, "recv", "recv_end") /\ msgs # <<>>
          /\ chan_pop_msg /\ co_cond_signal(th, not_full) /\ quiet

(* Mutant: the sender leaves once its message is in. *)
chan_nobuffer_send_leaves(th, t) ==
    /\ nelems = 0
    /\ \/ /\ At(th, t, "send", "send_end") /\ msgs = <<>>
          /\ chan_push_msg(t) /\ co_cond_signal(th, not_empty) /\ quiet
       \/ /\ At(th, t, "send", "send") /\ msgs # <<>>
          /\ co_cond_wait(th, t, not_full, chan_mutex) /\ UNCHANGED chanVars

(* Both loops of the code lead back to its first test until the message is  *)
(* sent; after that the sender, which has held the mutex since, finds msgs  *)
(* not empty and waits once.                                                *)
chan_nobuffer_send(th, t) ==
    /\ nelems = 0
    /\ \/ /\ At(th, t, "send", "sent") /\ msgs = <<>>
          /\ chan_push_msg(t) /\ co_cond_signal(th, not_empty) /\ quiet
       \/ /\ At(th, t, "sent", "send_end")
          /\ co_cond_wait(th, t, not_full, chan_mutex) /\ UNCHANGED chanVars
       \/ /\ At(th, t, "send", "send") /\ msgs # <<>>
          /\ co_cond_wait(th, t, not_full, chan_mutex) /\ UNCHANGED chanVars

chan_nobuffer_recv(th, t) ==
    /\ nelems = 0
    /\ \/ /\ At(th, t, "recv", "recv") /\ msgs = <<>>
          /\ co_cond_wait(th, t, not_empty, chan_mutex) /\ UNCHANGED chanVars
       \/ /\ At(th, t, "recv", "recv_signal") /\ msgs # <<>>
          /\ chan_pop_msg /\ co_cond_signal(th, not_full) /\ quiet
       \/ /\ At(th, t, "recv_signal", "recv_end")
          /\ co_cond_signal(th, not_full) /\ quiet /\ UNCHANGED chanVars

(* chan_close takes no lock and wakes nobody.  It empties the deque element  *)
(* by element, which is one step only where no other thread is at it, so     *)
(* that this action is there for a single thread.                            *)
chan_close(th, t) ==
    /\ Threads = {th}
    /\ At(th, t, "out", "out")
    /\ msgs' = <<>> /\ closed' = TRUE
    /\ UNCHANGED <<schedVars, nelems>> /\ quiet

ChanStep(th, t) ==
    \/ chan_unlock(th, t)
    \/ chan_buffer_send(th, t) \/ chan_buffer_recv(th, t)
    \/ chan_nobuffer_send(th, t) \/ chan_nobuffer_recv(th, t)

-----------------------------------------------------------------------------
(* A channel never holds more messages than chan_open allowed, or one if it *)
(* is unbuffered: every sender that was woken looks again before it pushes. *)
CapacityKept == Len(msgs) <= IF nelems = 0 THEN 1 ELSE nelems

(* The sender on an unbuffered channel returns only when its message was    *)
(* taken, whichever of the two signals of a receiver woke it.               *)
SendHandsOver ==
    (nelems = 0 /\ ~closed)
        => \A t \in Tasks : at[t] \in {"out", "send_end"} /\ cond[t] = NoWait /\ pc[t] = "idle"
                               => \A i \in DOMAIN msgs : msgs[i] # t

(* No thread has a task to run, or is about to have one. *)
NothingRuns ==
    \A th \in Threads : where[th] = "pick" /\ Free(th) /\ list_empty(link, link[th].prev)

(* When nothing runs, a sender and a receiver do not both wait. *)
NoStuckPair ==
    NothingRuns => ~ (~list_empty(link, not_full) /\ ~list_empty(link, not_empty))

(* The signals of a buffered channel suffice: a message and a waiting       *)
(* receiver, room and a waiting sender, or a waiting pair, do not remain.   *)
BufferedNotStuck ==
    (nelems > 0 /\ ~closed /\ NothingRuns)
        => /\ ~list_empty(link, not_empty) => msgs = <<>>
           /\ ~list_empty(link, not_full) => chan_msgs_full

(* "wake up sender and succssor": on an unbuffered channel the receiver's   *)
(* two signals never leave a sender and a receiver waiting for each other.  *)
UnbufferedNotStuck == (nelems = 0 /\ ~closed) => NoStuckPair
=============================================================================
