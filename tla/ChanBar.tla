------------------------------- MODULE ChanBar ------------------------------
(***************************************************************************)
(* Tasks as in test_channel.c: they meet at a barrier, then send to and      *)
(* receive from a channel.  Any of them may close the channel or destroy     *)
(* the barrier.                                                             *)
(***************************************************************************)
EXTENDS Chan, CoBar

CONSTANTS Senders, Receivers, Closers, Destroyers   (* which tasks may do what *)

goVars == <<link, status, where, current, enq, pc, lock, arg, held, at, cond,
            nelems, msgs, closed, count, arrived, passed, destroyed>>

GoTypeOK ==
    /\ CondTypeOK /\ ChanTypeOK /\ BarTypeOK
    /\ at \in [Tasks -> {"out"} \cup ChanPlaces \cup BarPlaces]

GoInit == CondInit /\ at = [t \in Tasks |-> "out"] /\ chan_open /\ co_bar_init

(* The calls of a task that has passed the barrier. *)
ClientCall(th, t) ==
    /\ t \in passed
    /\ \/ t \in Senders /\ chan_lock(th, t, "send")
       \/ t \in Receivers /\ chan_lock(th, t, "recv")
       \/ t \in Closers /\ chan_close(th, t)
    /\ UNCHANGED barVars

ClientRest(th, t) ==
    /\ at[t] = "out" /\ cond[t] = NoWait
    /\ task_yield(th, t) \/ task_exit(th, t)
    /\ UNCHANGED <<at, cond, chanVars, barVars>>

CallStep(th, t) ==
    \/ ChanStep(th, t) /\ UNCHANGED barVars
    \/ BarStep(th, t) /\ UNCHANGED chanVars
    \/ t \in Destroyers /\ co_bar_destory(th, t) /\ UNCHANGED chanVars
    \/ SyncStep(th, t) /\ UNCHANGED <<chanVars, barVars>>

GoThreadStep(th) ==
    /\ \/ SchedStep(th)
       \/ /\ where[th] = "task" => /\ at[current[th]] = "out" /\ cond[current[th]] = NoWait
                                  /\ pc[current[th]] = "idle"
          /\ \E t \in Tasks : co_create(th, t)
    /\ UNCHANGED <<pc, mutexVars, at, cond, chanVars, barVars>>

GoNext ==
    \E th \in Threads :
        \/ GoThreadStep(th)
        \/ \E t \in Tasks : ClientCall(th, t) \/ ClientRest(th, t) \/ CallStep(th, t)

GoSpec == GoInit /\ [][GoNext]_goVars

(* The scheduler's loop and the code of libcask go on; a client that gets   *)
(* to run again and again yields now and then.                              *)
GoFairness ==
    \A th \in Threads :
        /\ WF_goVars(SchedStep(th) /\ GoThreadStep(th))
        /\ \A t \in Tasks : /\ WF_goVars(CallStep(th, t))
                            /\ WF_goVars(pc[t] = "killed" /\ ClientRest(th, t))
                            /\ SF_goVars(pc[t] = "idle" /\ task_yield(th, t) /\ ClientRest(th, t))

GoFairSpec == GoSpec /\ GoFairness

-----------------------------------------------------------------------------
(* Condition variables, channels and barriers are clients of the scheduler  *)
(* that keep to its protocol: the waiter that unlocks its mutex while it is *)
(* on the list of the condition variable included.                          *)
CondClientSpec == CondClient!Spec
=============================================================================
