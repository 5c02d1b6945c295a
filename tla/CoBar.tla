-------------------------------- MODULE CoBar -------------------------------
(***************************************************************************)
(* co_bar.h: a barrier for Parties tasks, a counter under a mutex with a     *)
(* condition variable.                                                      *)
(***************************************************************************)
EXTENDS CoCond

CONSTANTS
    bar_mutex, bar_cond,   (* the heads of their wait lists                  *)
    Parties                (* what co_bar_init is given                      *)

ASSUME BarAssumption ==
    /\ bar_mutex \in Mutexes
    /\ bar_cond \in WaitLists \ Mutexes
    /\ Parties \in Nat

VARIABLES
    count,      (* bar->count                                                *)
    arrived,    (* the tasks that have called co_bar_wait                    *)
    passed,     (* the tasks for which it has returned                       *)
    destroyed   (* whether co_bar_destory has cleared the count              *)

barVars == <<count, arrived, passed, destroyed>>

BarPlaces == {"bar",          (* co_bar_wait: the mutex is locked            *)
              "bar_loop",     (* before the test of the while                *)
              "bar_all",      (* in co_cond_broadcast                        *)
              "bar_end",      (* before co_mutex_unlock                      *)
              "destroy", "destroy_all", "destroy_end"}

BarTypeOK ==
    /\ count \in Nat
    /\ arrived \subseteq Tasks /\ passed \subseteq Tasks
    /\ destroyed \in BOOLEAN

co_bar_init == count = Parties /\ arrived = {} /\ passed = {} /\ destroyed = FALSE

(* co_bar_wait returns at once when the count is 0. *)
co_bar_wait(th, t) ==
    /\ t \notin arrived
    /\ arrived' = arrived \cup {t}
    /\ UNCHANGED <<count, destroyed, cond>>
    /\ \/ /\ count = 0 /\ At(th, t, "out", "out")
          /\ passed' = passed \cup {t} /\ UNCHANGED <<schedVars, pc, mutexVars>>
       \/ /\ count # 0 /\ At(th, t, "out", "bar") /\ co_mutex_lock(th, t, bar_mutex)
          /\ UNCHANGED passed

(* Mutant: the last one waits for the others, too. *)
co_bar_wait_arrive_waits(th, t) ==
    /\ UNCHANGED <<pc, mutexVars, cond, arrived, passed, destroyed>>
    /\ UNCHANGED schedVars
    /\ \/ count = 0 /\ At(th, t, "bar", "bar_end") /\ UNCHANGED count
       \/ count >= 1 /\ At(th, t, "bar", "bar_loop") /\ count' = count - 1

(* Mutant: the count is not looked at again under the mutex. *)
co_bar_wait_arrive_trusts(th, t) ==
    /\ UNCHANGED <<pc, mutexVars, cond, arrived, passed, destroyed>>
    /\ UNCHANGED schedVars
    /\ \/ count = 1 /\ At(th, t, "bar", "bar_all") /\ count' = 0
       \/ count # 1 /\ At(th, t, "bar", "bar_loop") /\ count' = count - 1

co_bar_wait_arrive(th, t) ==
    /\ UNCHANGED <<pc, mutexVars, cond, arrived, passed, destroyed>>
    /\ UNCHANGED schedVars
    /\ \/ count = 0 /\ At(th, t, "bar", "bar_end") /\ UNCHANGED count
       \/ count = 1 /\ At(th, t, "bar", "bar_all") /\ count' = 0
       \/ count > 1 /\ At(th, t, "bar", "bar_loop") /\ count' = count - 1

(* Mutant: a waiter that is woken does not look at the count. *)
co_bar_wait_loop_once(th, t) ==
    /\ UNCHANGED barVars
    /\ At(th, t, "bar_loop", "bar_end")
    /\ UNCHANGED <<schedVars, pc, mutexVars, cond>>

co_bar_wait_loop(th, t) ==
    /\ UNCHANGED barVars
    /\ \/ /\ count > 0 /\ At(th, t, "bar_loop", "bar_loop")
          /\ co_cond_wait(th, t, bar_cond, bar_mutex)
       \/ /\ count = 0 /\ At(th, t, "bar_loop", "bar_end")
          /\ UNCHANGED <<schedVars, pc, mutexVars, cond>>

(* co_cond_broadcast: one turn of its loop after the other. *)
co_cond_broadcast(th, t, from, to) ==
    /\ UNCHANGED <<pc, mutexVars, cond, barVars>>
    /\ \/ At(th, t, from, from) /\ wake_first(th, bar_cond)
       \/ /\ At(th, t, from, to) /\ list_empty(link, link[bar_cond].next)
          /\ UNCHANGED schedVars

co_bar_wait_return(th, t) ==
    /\ At(th, t, "bar_end", "out") /\ co_mutex_unlock(th, t, bar_mutex)
    /\ passed' = passed \cup {t}
    /\ UNCHANGED <<cond, count, arrived, destroyed>>

(* Called while the barrier is not destroyed, by one task or by several. *)
co_bar_destory(th, t) ==
    /\ UNCHANGED <<cond, arrived, passed>>
    /\ \/ /\ ~destroyed
          /\ At(th, t, "out", "destroy") /\ co_mutex_lock(th, t, bar_mutex)
          /\ UNCHANGED <<count, destroyed>>
       \/ /\ At(th, t, "destroy", "destroy_all") /\ count' = 0 /\ destroyed' = TRUE
          /\ UNCHANGED <<schedVars, pc, mutexVars>>
       \/ /\ At(th, t, "destroy_end", "out") /\ co_mutex_unlock(th, t, bar_mutex)
          /\ UNCHANGED <<count, destroyed>>

BarStep(th, t) ==
    \/ co_bar_wait(th, t) \/ co_bar_wait_arrive(th, t) \/ co_bar_wait_loop(th, t)
    \/ co_cond_broadcast(th, t, "bar_all", "bar_end") \/ co_bar_wait_return(th, t)
    \/ co_cond_broadcast(th, t, "destroy_all", "destroy_end")

-----------------------------------------------------------------------------
(* Nobody passes the barrier before Parties tasks have arrived, or it is    *)
(* destroyed; a task that is woken early goes back to wait.                 *)
BarrierHolds ==
    passed # {} => destroyed \/ \E S \in SUBSET arrived : Cardinality(S) = Parties

(* A released barrier releases everyone: once the count is 0, each task     *)
(* that waits at it gets past.                                              *)
BarrierReleases ==
    \A t \in Tasks : (count = 0 /\ t \in arrived) ~> t \in passed
=============================================================================
