--------------------------- MODULE ChanBarProofs ----------------------------
(***************************************************************************)
(* Nobody passes a barrier early, on any number of threads and for any      *)
(* tasks and parties.                                                       *)
(***************************************************************************)
EXTENDS ChanBar, FiniteSetTheorems, TLAPS

(* The tasks whose arrival co_bar_wait has dealt with. *)
Counted == {t \in arrived : at[t] # "bar"}

(* As long as nobody destroys the barrier, the count is what is missing; a    *)
(* count of 0 stays, while later arrivals are no longer counted down.         *)
CountOK ==
    \/ destroyed
    \/ count > 0 /\ Cardinality(Counted) = Parties - count
    \/ count = 0 /\ \E S \in SUBSET Counted : Cardinality(S) = Parties

Released == count = 0 \/ destroyed

PlacesOK ==
    \A t \in Tasks : /\ at[t] = "bar" => t \in arrived
                     /\ at[t] \in {"bar_all", "bar_end"} => Released
                     /\ at[t] \in {"destroy_all", "destroy_end"} => destroyed

BarInv ==
    /\ BarTypeOK /\ at \in [Tasks -> {"out"} \cup ChanPlaces \cup BarPlaces]
    /\ IsFiniteSet(arrived)
    /\ CountOK /\ PlacesOK
    /\ passed # {} => Released

-----------------------------------------------------------------------------
(* A step that moves one task between places other than "bar". *)
LEMMA BarFrame ==
    ASSUME BarInv, NEW t \in Tasks,
           NEW to \in ({"out"} \cup ChanPlaces \cup BarPlaces) \ {"bar"},
           at[t] # "bar", at' = [at EXCEPT ![t] = to],
           UNCHANGED <<count, arrived, destroyed>>,
           passed' \in SUBSET Tasks, passed' # {} => Released,
           to \in {"bar_all", "bar_end"} => Released,
           to \in {"destroy_all", "destroy_end"} => destroyed
    PROVE  BarInv'
<1>1. Counted' = Counted BY DEF Counted, BarInv
<1>2. CountOK' BY <1>1 DEF BarInv, CountOK
<1>3. PlacesOK' BY DEF BarInv, PlacesOK, Released
<1>. QED BY <1>2, <1>3 DEF BarInv, BarTypeOK, Released

LEMMA BarQuiet ==
    ASSUME BarInv, UNCHANGED at, UNCHANGED barVars
    PROVE  BarInv'
BY DEF BarInv, BarTypeOK, Counted, CountOK, PlacesOK, Released, barVars

(* The places a step of chan.c can lead to. *)
LEMMA ChanMoves ==
    ASSUME BarInv, NEW th \in Threads, NEW t \in Tasks, UNCHANGED barVars,
           ChanStep(th, t) \/ chan_lock(th, t, "send") \/ chan_lock(th, t, "recv")
              \/ chan_close(th, t)
    PROVE  BarInv'
<1>1. PICK to \in {"out"} \cup ChanPlaces : at[t] # "bar" /\ at' = [at EXCEPT ![t] = to]
  <2>1. CASE chan_unlock(th, t) BY <2>1 DEF chan_unlock, At, ChanPlaces
  <2>2. CASE chan_buffer_send(th, t) BY <2>2 DEF chan_buffer_send, At, ChanPlaces
  <2>3. CASE chan_buffer_recv(th, t) BY <2>3 DEF chan_buffer_recv, At, ChanPlaces
  <2>4. CASE chan_nobuffer_send(th, t) BY <2>4 DEF chan_nobuffer_send, At, ChanPlaces
  <2>5. CASE chan_nobuffer_recv(th, t) BY <2>5 DEF chan_nobuffer_recv, At, ChanPlaces
  <2>6. CASE chan_lock(th, t, "send") \/ chan_lock(th, t, "recv")
    BY <2>6 DEF chan_lock, At, ChanPlaces
  <2>7. CASE chan_close(th, t) BY <2>7 DEF chan_close, At
  <2>. QED BY <2>1, <2>2, <2>3, <2>4, <2>5, <2>6, <2>7 DEF ChanStep
<1>2. to \in ({"out"} \cup ChanPlaces \cup BarPlaces) \ {"bar"}
  BY <1>1 DEF ChanPlaces
<1>3. to \notin {"bar_all", "bar_end", "destroy", "destroy_all", "destroy_end"}
  BY <1>1 DEF ChanPlaces
<1>4. UNCHANGED <<count, arrived, destroyed>> /\ passed' \in SUBSET Tasks
      /\ (passed' # {} => Released)
  BY DEF BarInv, BarTypeOK, barVars
<1>. QED BY <1>1, <1>2, <1>3, <1>4, BarFrame

(* t has arrived, and is counted unless it goes to lock the mutex. *)
LEMMA ArriveInv ==
    ASSUME BarInv, NEW th \in Threads, NEW t \in Tasks, co_bar_wait(th, t)
    PROVE  BarInv'
<1>. USE DEF BarInv
<1>1. /\ t \notin arrived /\ arrived' = arrived \cup {t} /\ at[t] = "out"
      /\ count' = count /\ destroyed' = destroyed
  BY DEF co_bar_wait, At
<1>2. IsFiniteSet(arrived') BY <1>1, FS_AddElement
<1>3. CASE count = 0 /\ At(th, t, "out", "out") /\ passed' = passed \cup {t}
  <2>1. at' = at BY <1>3 DEF At
  <2>2. Counted \in SUBSET Counted' BY <1>1, <2>1 DEF Counted
  <2>3. CountOK' BY <1>1, <1>3, <2>2 DEF CountOK
  <2>4. PlacesOK' BY <1>1, <2>1 DEF PlacesOK, Released
  <2>5. BarTypeOK' BY <1>1, <1>3 DEF BarTypeOK
  <2>. QED BY <1>1, <1>2, <1>3, <2>1, <2>3, <2>4, <2>5 DEF Released
<1>4. CASE At(th, t, "out", "bar") /\ UNCHANGED passed
  <2>1. at' = [at EXCEPT ![t] = "bar"] BY <1>4 DEF At
  <2>2. Counted' = Counted BY <1>1, <2>1 DEF Counted, BarTypeOK
  <2>3. CountOK' BY <1>1, <2>2 DEF CountOK
  <2>4. PlacesOK' BY <1>1, <2>1 DEF PlacesOK, Released
  <2>5. BarTypeOK' BY <1>1, <1>4 DEF BarTypeOK
  <2>6. at' \in [Tasks -> {"out"} \cup ChanPlaces \cup BarPlaces]
    BY <2>1 DEF BarPlaces
  <2>. QED BY <1>1, <1>2, <1>4, <2>3, <2>4, <2>5, <2>6 DEF Released
<1>. QED BY <1>3, <1>4 DEF co_bar_wait

(* t, with the mutex, counts itself. *)
LEMMA CountInv ==
    ASSUME BarInv, NEW th \in Threads, NEW t \in Tasks, co_bar_wait_arrive(th, t)
    PROVE  BarInv'
<1>. USE DEF BarInv
<1>1. at[t] = "bar" /\ t \in arrived /\ t \notin Counted
  BY DEF co_bar_wait_arrive, At, PlacesOK, Counted
<1>2. UNCHANGED <<arrived, passed, destroyed>> BY DEF co_bar_wait_arrive
<1>3. PICK to \in {"bar_end", "bar_all", "bar_loop"} :
         /\ at' = [at EXCEPT ![t] = to]
         /\ \/ count = 0 /\ count' = 0
            \/ count = 1 /\ count' = 0
            \/ count > 1 /\ to = "bar_loop" /\ count' = count - 1
  BY DEF co_bar_wait_arrive, At
<1>4. Counted' = Counted \cup {t} BY <1>1, <1>2, <1>3 DEF Counted, BarTypeOK
<1>5. IsFiniteSet(Counted) BY FS_Subset DEF Counted
<1>6. Cardinality(Counted') = Cardinality(Counted) + 1 /\ Cardinality(Counted) \in Nat
  BY <1>1, <1>4, <1>5, FS_AddElement, FS_CardinalityType
<1>7. CountOK'
  <2>1. CASE destroyed BY <2>1, <1>2 DEF CountOK
  <2>2. CASE ~destroyed /\ count = 0
    BY <2>2, <1>2, <1>3, <1>4 DEF CountOK
  <2>3. CASE ~destroyed /\ count = 1
    <3>1. Cardinality(Counted') = Parties
      BY <2>3, <1>6, BarAssumption DEF CountOK
    <3>. QED BY <2>3, <3>1, <1>3 DEF CountOK
  <2>4. CASE ~destroyed /\ count > 1
    <3>1. count' > 0 /\ Cardinality(Counted') = Parties - count'
      BY <2>4, <1>3, <1>6, BarAssumption DEF CountOK, BarTypeOK
    <3>. QED BY <3>1 DEF CountOK
  <2>. QED BY <2>1, <2>2, <2>3, <2>4 DEF BarTypeOK
<1>8. BarTypeOK' BY <1>2, <1>3 DEF BarTypeOK
<1>9. PlacesOK' BY <1>2, <1>3 DEF PlacesOK, Released
<1>10. at' \in [Tasks -> {"out"} \cup ChanPlaces \cup BarPlaces]
  BY <1>3 DEF BarPlaces
<1>. QED BY <1>2, <1>3, <1>7, <1>8, <1>9, <1>10 DEF Released

(* The other steps of co_bar_wait, and the broadcasts. *)
LEMMA WaitInv ==
    ASSUME BarInv, NEW th \in Threads, NEW t \in Tasks,
           \/ co_bar_wait_loop(th, t) \/ co_bar_wait_return(th, t)
           \/ co_cond_broadcast(th, t, "bar_all", "bar_end")
           \/ co_cond_broadcast(th, t, "destroy_all", "destroy_end")
    PROVE  BarInv'
<1>1. passed \in SUBSET Tasks /\ (passed # {} => Released)
  BY DEF BarInv, BarTypeOK
<1>2. CASE co_bar_wait_loop(th, t)
  <2>1. PICK to \in {"bar_loop", "bar_end"} :
           at' = [at EXCEPT ![t] = to] /\ (to = "bar_end" => Released)
    BY <1>2 DEF co_bar_wait_loop, At, Released
  <2>. QED BY <1>1, <1>2, <2>1, BarFrame DEF co_bar_wait_loop, At, barVars, BarPlaces
<1>3. CASE co_bar_wait_return(th, t)
  <2>1. at[t] = "bar_end" /\ at' = [at EXCEPT ![t] = "out"] BY <1>3 DEF co_bar_wait_return, At
  <2>2. Released BY <2>1 DEF BarInv, PlacesOK
  <2>. QED BY <1>1, <1>3, <2>1, <2>2, BarFrame DEF co_bar_wait_return
<1>4. CASE co_cond_broadcast(th, t, "bar_all", "bar_end")
  <2>1. PICK to \in {"bar_all", "bar_end"} : at' = [at EXCEPT ![t] = to]
    BY <1>4 DEF co_cond_broadcast, At
  <2>2. at[t] = "bar_all" BY <1>4 DEF co_cond_broadcast, At
  <2>3. Released BY <2>2 DEF BarInv, PlacesOK
  <2>. QED BY <1>1, <1>4, <2>1, <2>2, <2>3, BarFrame DEF co_cond_broadcast, barVars, BarPlaces
<1>5. CASE co_cond_broadcast(th, t, "destroy_all", "destroy_end")
  <2>1. PICK to \in {"destroy_all", "destroy_end"} : at' = [at EXCEPT ![t] = to]
    BY <1>5 DEF co_cond_broadcast, At
  <2>2. at[t] = "destroy_all" BY <1>5 DEF co_cond_broadcast, At
  <2>3. destroyed BY <2>2 DEF BarInv, PlacesOK
  <2>. QED BY <1>1, <1>5, <2>1, <2>2, <2>3, BarFrame DEF co_cond_broadcast, barVars, BarPlaces
<1>. QED BY <1>2, <1>3, <1>4, <1>5

LEMMA DestroyInv ==
    ASSUME BarInv, NEW th \in Threads, NEW t \in Tasks, co_bar_destory(th, t)
    PROVE  BarInv'
<1>1. UNCHANGED <<arrived, passed>> BY DEF co_bar_destory
<1>2. CASE At(th, t, "destroy_end", "out") /\ UNCHANGED <<count, destroyed>>
  BY <1>1, <1>2, BarFrame DEF At, BarInv, BarTypeOK
<1>3. CASE At(th, t, "out", "destroy") /\ UNCHANGED <<count, destroyed>>
  BY <1>1, <1>3, BarFrame DEF At, BarInv, BarTypeOK, BarPlaces
<1>4. CASE At(th, t, "destroy", "destroy_all") /\ count' = 0 /\ destroyed' = TRUE
  BY <1>1, <1>4 DEF At, BarInv, BarTypeOK, BarPlaces, CountOK, PlacesOK, Released
<1>. QED BY <1>2, <1>3, <1>4 DEF co_bar_destory

LEMMA BarNext ==
    ASSUME BarInv, [GoNext]_goVars
    PROVE  BarInv'
<1>1. CASE UNCHANGED goVars BY <1>1, BarQuiet DEF goVars, barVars
<1>2. ASSUME NEW th \in Threads, GoThreadStep(th) PROVE BarInv'
  BY <1>2, BarQuiet DEF GoThreadStep
<1>3. ASSUME NEW th \in Threads, NEW t \in Tasks, ClientCall(th, t) PROVE BarInv'
  BY <1>3, ChanMoves DEF ClientCall
<1>4. ASSUME NEW th \in Threads, NEW t \in Tasks, ClientRest(th, t) PROVE BarInv'
  BY <1>4, BarQuiet DEF ClientRest
<1>5. ASSUME NEW th \in Threads, NEW t \in Tasks, CallStep(th, t) PROVE BarInv'
  <2>1. CASE SyncStep(th, t) /\ UNCHANGED barVars
    BY <2>1, BarQuiet DEF SyncStep, co_cond_wait_unlock, co_cond_wait_block
  <2>2. CASE BarStep(th, t)
    BY <2>2, ArriveInv, CountInv, WaitInv DEF BarStep
  <2>. QED BY <1>5, <2>1, <2>2, ChanMoves, DestroyInv DEF CallStep
<1>. QED BY <1>1, <1>2, <1>3, <1>4, <1>5 DEF GoNext

(* BarrierHolds: co_bar_wait returns to nobody before Parties tasks have     *)
(* called it, or the barrier is destroyed, although it reads the count before *)
(* it has the mutex.                                                          *)
THEOREM BarrierKeepsBack == GoSpec => []BarrierHolds
<1>1. GoInit => BarInv
  <2>. SUFFICES ASSUME GoInit PROVE BarInv OBVIOUS
  <2>1. /\ count = Parties /\ arrived = {} /\ passed = {} /\ destroyed = FALSE
        /\ at = [t \in Tasks |-> "out"]
    BY DEF GoInit, co_bar_init
  <2>2. Counted = {} BY <2>1 DEF Counted
  <2>3. Cardinality({}) = 0 /\ IsFiniteSet({}) BY FS_EmptySet
  <2>4. CountOK
    <3>1. CASE Parties = 0 BY <2>1, <2>2, <2>3, <3>1 DEF CountOK
    <3>2. CASE Parties > 0 BY <2>1, <2>2, <2>3, <3>2, BarAssumption DEF CountOK
    <3>. QED BY <3>1, <3>2, BarAssumption
  <2>5. PlacesOK BY <2>1 DEF PlacesOK
  <2>. QED BY <2>1, <2>3, <2>4, <2>5, BarAssumption DEF BarInv, BarTypeOK
<1>2. BarInv /\ [GoNext]_goVars => BarInv' BY BarNext
<1>3. BarInv => BarrierHolds
  <2>. SUFFICES ASSUME BarInv, passed # {}, ~destroyed
                PROVE  \E S \in SUBSET arrived : Cardinality(S) = Parties
    BY DEF BarrierHolds
  <2>1. count = 0 BY DEF BarInv, Released
  <2>2. PICK S \in SUBSET Counted : Cardinality(S) = Parties
    BY <2>1 DEF BarInv, CountOK
  <2>. QED BY <2>2 DEF Counted
<1>. QED BY <1>1, <1>2, <1>3, PTL DEF GoSpec

=============================================================================
