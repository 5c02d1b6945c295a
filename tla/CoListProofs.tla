---------------------------- MODULE CoListProofs ----------------------------
(***************************************************************************)
(* What the operations of list.c preserve, for any set of nodes.  They hold *)
(* of a build that computes the address p->next first (AddressFirst).       *)
(***************************************************************************)
EXTENDS CoList, TLAPS

(* Every operation leaves every pointer pointing at a node. *)
LEMMA ListTypes ==
    ASSUME NEW N, NEW l \in Links(N), NEW ls \in N, NEW elm \in N
    PROVE  /\ list_init(l, elm) \in Links(N)
           /\ list_add_before(l, ls, elm) \in Links(N)
           /\ list_add_after(l, ls, elm) \in Links(N)
           /\ list_delete(l, elm) \in Links(N)
<1>1. ASSUME NEW k \in Links(N), NEW n \in N, NEW v \in N
      PROVE  set_prev(k, n, v) \in Links(N) /\ set_next(k, n, v) \in Links(N)
  BY DEF Links, set_prev, set_next
<1>2. ASSUME NEW k \in Links(N), NEW n \in N
      PROVE  k[n].prev \in N /\ k[n].next \in N
  BY DEF Links
<1>3. list_init(l, elm) \in Links(N)
  BY <1>1 DEF list_init
<1>4. list_add_before(l, ls, elm) \in Links(N)
  <2>. DEFINE l1 == set_prev(l, elm, l[ls].prev)
              l2 == set_next(l1, elm, ls)
              l3 == set_prev(l2, ls, elm)
              p  == IF AddressFirst THEN l2[ls].prev ELSE l3[ls].prev
  <2>1. l1 \in Links(N) BY <1>1, <1>2
  <2>2. l2 \in Links(N) BY <2>1, <1>1
  <2>3. l3 \in Links(N) BY <2>2, <1>1
  <2>4. p \in N BY <2>2, <2>3, <1>2
  <2>. HIDE DEF l1, l2, l3, p
  <2>5. set_next(l3, p, elm) \in Links(N) BY <2>3, <2>4, <1>1
  <2>. QED BY <2>5 DEF list_add_before, l1, l2, l3, p
<1>5. list_add_after(l, ls, elm) \in Links(N)
  <2>. DEFINE l1 == set_prev(l, elm, ls)
              l2 == set_next(l1, elm, l1[ls].next)
              l3 == set_prev(l2, l2[ls].next, elm)
  <2>1. l1 \in Links(N) BY <1>1, <1>2
  <2>2. l2 \in Links(N) BY <2>1, <1>1, <1>2
  <2>3. l3 \in Links(N) BY <2>2, <1>1, <1>2
  <2>. HIDE DEF l1, l2, l3
  <2>4. set_next(l3, ls, elm) \in Links(N) BY <2>3, <1>1
  <2>. QED BY <2>4 DEF list_add_after, l1, l2, l3
<1>6. list_delete(l, elm) \in Links(N)
  <2>. DEFINE l1 == set_next(l, l[elm].prev, l[elm].next)
              l2 == set_prev(l1, l1[elm].next, l1[elm].prev)
  <2>1. l1 \in Links(N) BY <1>1, <1>2
  <2>2. l2 \in Links(N) BY <2>1, <1>1, <1>2
  <2>. HIDE DEF l1, l2
  <2>3. list_init(l2, elm) \in Links(N) BY <2>2, <1>1 DEF list_init
  <2>. QED BY <2>3 DEF list_delete, l1, l2
<1>. QED BY <1>3, <1>4, <1>5, <1>6

(* list_delete, read pointer by pointer: the neighbours of elm become       *)
(* neighbours of each other, elm points at itself.                          *)
LEMMA DeleteLinks ==
    ASSUME NEW N, NEW l \in Links(N), NEW elm \in N, NEW x \in N
    PROVE  /\ list_delete(l, elm)[x].next =
                IF x = elm THEN elm
                ELSE IF x = l[elm].prev THEN l[elm].next ELSE l[x].next
           /\ list_delete(l, elm)[x].prev =
                IF x = elm THEN elm
                ELSE IF x = l[elm].next THEN l[elm].prev ELSE l[x].prev
BY SMTT(30) DEF list_delete, list_init, set_next, set_prev, Links

(* list_add_after of an element that is on no list. *)
LEMMA AddAfterLinks ==
    ASSUME NEW N, NEW l \in Links(N), NEW ls \in N, NEW elm \in N, NEW x \in N,
           elm # ls, l[ls].next # elm
    PROVE  /\ list_add_after(l, ls, elm)[x].next =
                IF x = elm THEN l[ls].next ELSE IF x = ls THEN elm ELSE l[x].next
           /\ list_add_after(l, ls, elm)[x].prev =
                IF x = elm THEN ls ELSE IF x = l[ls].next THEN elm ELSE l[x].prev
BY DEF list_add_after, set_next, set_prev, Links

(* list_add_before of an element that is on no list. *)
LEMMA AddBeforeLinks ==
    ASSUME NEW N, NEW l \in Links(N), NEW ls \in N, NEW elm \in N, NEW x \in N,
           elm # ls, l[ls].prev # elm, AddressFirst
    PROVE  /\ list_add_before(l, ls, elm)[x].next =
                IF x = elm THEN ls ELSE IF x = l[ls].prev THEN elm ELSE l[x].next
           /\ list_add_before(l, ls, elm)[x].prev =
                IF x = elm THEN l[ls].prev ELSE IF x = ls THEN elm ELSE l[x].prev
BY SMTT(30) DEF list_add_before, set_next, set_prev, Links

(* Unlinking an element keeps every list intact, whatever list it was on,   *)
(* and leaves it on none.                                                   *)
LEMMA DeleteIntact ==
    ASSUME NEW N, NEW l \in Links(N), list_intact(l, N), NEW elm \in N
    PROVE  list_intact(list_delete(l, elm), N) /\ list_empty(list_delete(l, elm), elm)
<1>. DEFINE k == list_delete(l, elm)
<1>1. \A x \in N : /\ k[x].next = IF x = elm THEN elm
                                ELSE IF x = l[elm].prev THEN l[elm].next ELSE l[x].next
                   /\ k[x].prev = IF x = elm THEN elm
                                ELSE IF x = l[elm].next THEN l[elm].prev ELSE l[x].prev
  BY DeleteLinks
<1>2. \A x \in N : l[x].next \in N /\ l[x].prev \in N
  BY DEF Links
<1>. HIDE DEF k
<1>3. list_intact(k, N)
  <2>. SUFFICES ASSUME NEW n \in N PROVE k[k[n].next].prev = n /\ k[k[n].prev].next = n
    BY DEF list_intact
  <2>1. /\ l[n].next \in N /\ l[l[n].next].prev = n
        /\ l[n].prev \in N /\ l[l[n].prev].next = n
        /\ l[elm].next \in N /\ l[l[elm].next].prev = elm
        /\ l[elm].prev \in N /\ l[l[elm].prev].next = elm
    BY <1>2 DEF list_intact
  <2>2. CASE n = elm BY <1>1, <2>2
  <2>3. CASE n # elm
    <3>1. k[k[n].next].prev = n
      <4>1. CASE n = l[elm].prev BY <1>1, <2>1, <2>3, <4>1
      <4>2. CASE n # l[elm].prev BY <1>1, <2>1, <2>3, <4>2
      <4>. QED BY <4>1, <4>2
    <3>2. k[k[n].prev].next = n
      <4>1. CASE n = l[elm].next BY <1>1, <2>1, <2>3, <4>1
      <4>2. CASE n # l[elm].next BY <1>1, <2>1, <2>3, <4>2
      <4>. QED BY <4>1, <4>2
    <3>. QED BY <3>1, <3>2
  <2>. QED BY <2>2, <2>3
<1>4. list_empty(k, elm) BY <1>1 DEF list_empty
<1>. QED BY <1>3, <1>4 DEF k

(* Linking an element that is on no list keeps every list intact. *)
LEMMA AddIntact ==
    ASSUME NEW N, NEW l \in Links(N), list_intact(l, N), NEW ls \in N, NEW elm \in N,
           elm # ls, list_empty(l, elm), AddressFirst
    PROVE  /\ list_intact(list_add_after(l, ls, elm), N)
           /\ list_intact(list_add_before(l, ls, elm), N)
<1>1. \A x \in N : l[x].next \in N /\ l[x].prev \in N
  BY DEF Links
<1>2. l[ls].next # elm /\ l[ls].prev # elm
  BY <1>1 DEF list_intact, list_empty
<1>3. list_intact(list_add_after(l, ls, elm), N)
  <2>. DEFINE k == list_add_after(l, ls, elm)
  <2>1. \A x \in N :
          /\ k[x].next = IF x = elm THEN l[ls].next ELSE IF x = ls THEN elm ELSE l[x].next
          /\ k[x].prev = IF x = elm THEN ls ELSE IF x = l[ls].next THEN elm ELSE l[x].prev
    BY <1>2, AddAfterLinks
  <2>. HIDE DEF k
  <2>2. list_intact(k, N) BY <1>1, <1>2, <2>1, SMTT(30) DEF list_intact, list_empty
  <2>. QED BY <2>2 DEF k
<1>4. list_intact(list_add_before(l, ls, elm), N)
  <2>. DEFINE k == list_add_before(l, ls, elm)
  <2>1. \A x \in N :
          /\ k[x].next = IF x = elm THEN ls ELSE IF x = l[ls].prev THEN elm ELSE l[x].next
          /\ k[x].prev = IF x = elm THEN l[ls].prev ELSE IF x = ls THEN elm ELSE l[x].prev
    BY <1>2, AddBeforeLinks
  <2>. HIDE DEF k
  <2>2. list_intact(k, N) BY <1>1, <1>2, <2>1, SMTT(30) DEF list_intact, list_empty
  <2>. QED BY <2>2 DEF k
<1>. QED BY <1>3, <1>4

-----------------------------------------------------------------------------
(* No two heads are on one ring: the nodes can be labelled so that a head   *)
(* labels itself and neighbours have the same label.                        *)
rings_apart(l, N, H) ==
    \E L \in [N -> N] : /\ \A h \in H : L[h] = h
                        /\ \A n \in N : L[l[n].next] = L[n]

(* Unlinking elm: every property of the lists is kept, elm is on none, and  *)
(* a node that was on no list still is on none.                             *)
LEMMA DeleteLemma ==
    ASSUME NEW N, NEW H \in SUBSET N, NEW l \in Links(N), list_intact(l, N),
           rings_apart(l, N, H), NEW elm \in N, elm \notin H
    PROVE  LET k == list_delete(l, elm) IN
           /\ k \in Links(N) /\ list_intact(k, N) /\ rings_apart(k, N, H)
           /\ list_empty(k, elm)
           /\ \A x \in N : list_empty(l, x) => list_empty(k, x)
<1>. DEFINE k == list_delete(l, elm)
<1>1. \A x \in N : /\ k[x].next = IF x = elm THEN elm
                                ELSE IF x = l[elm].prev THEN l[elm].next ELSE l[x].next
                   /\ k[x].prev = IF x = elm THEN elm
                                ELSE IF x = l[elm].next THEN l[elm].prev ELSE l[x].prev
  BY DeleteLinks
<1>2. \A x \in N : l[x].next \in N /\ l[x].prev \in N
  BY DEF Links
<1>3. k \in Links(N) /\ list_intact(k, N) /\ list_empty(k, elm)
  BY ListTypes, DeleteIntact
<1>. HIDE DEF k
<1>4. \A x \in N : list_empty(l, x) => list_empty(k, x)
  BY <1>1, <1>2 DEF list_empty, list_intact
<1>5. rings_apart(k, N, H)
  <2>1. PICK L \in [N -> N] : /\ \A h \in H : L[h] = h
                             /\ \A n \in N : L[l[n].next] = L[n]
    BY DEF rings_apart
  <2>. DEFINE M == [L EXCEPT ![elm] = elm]
  <2>2. M \in [N -> N] /\ \A h \in H : M[h] = h
    BY <2>1
  <2>3. ASSUME NEW n \in N PROVE M[k[n].next] = M[n]
    BY <1>1, <1>2, <2>1 DEF list_intact
  <2>. QED BY <2>2, <2>3 DEF rings_apart
<1>. QED BY <1>3, <1>4, <1>5 DEF k

(* Linking elm, which is on no list, after or before ls: every property of  *)
(* the lists is kept, and the other nodes on no list but ls still are.      *)
LEMMA AddLemma ==
    ASSUME NEW N, NEW H \in SUBSET N, NEW l \in Links(N), list_intact(l, N),
           rings_apart(l, N, H), NEW ls \in N, NEW elm \in N, elm \notin H,
           elm # ls, list_empty(l, elm), AddressFirst,
           NEW k \in {list_add_after(l, ls, elm), list_add_before(l, ls, elm)}
    PROVE  /\ k \in Links(N) /\ list_intact(k, N) /\ rings_apart(k, N, H)
           /\ \A x \in N \ {elm, ls} : list_empty(l, x) => list_empty(k, x)
<1>1. \A x \in N : l[x].next \in N /\ l[x].prev \in N
  BY DEF Links
<1>2. l[ls].next # elm /\ l[ls].prev # elm
  BY <1>1 DEF list_intact, list_empty
<1>3. k \in Links(N) /\ list_intact(k, N)
  BY ListTypes, AddIntact
<1>4. PICK p \in N, q \in N :
          /\ l[p].next = q /\ p # elm /\ q # elm /\ (p = ls \/ q = ls)
          /\ \A x \in N :
              /\ k[x].next = IF x = elm THEN q ELSE IF x = p THEN elm ELSE l[x].next
              /\ k[x].prev = IF x = elm THEN p ELSE IF x = q THEN elm ELSE l[x].prev
  <2>1. CASE k = list_add_after(l, ls, elm)
    <3>. DEFINE n == l[ls].next
    <3>1. \A x \in N :
            /\ k[x].next = IF x = elm THEN n ELSE IF x = ls THEN elm ELSE l[x].next
            /\ k[x].prev = IF x = elm THEN ls ELSE IF x = n THEN elm ELSE l[x].prev
      BY <1>2, <2>1, AddAfterLinks
    <3>2. n \in N /\ l[ls].next = n /\ n # elm BY <1>1, <1>2
    <3>. HIDE DEF n
    <3>. QED BY <3>1, <3>2
  <2>2. CASE k = list_add_before(l, ls, elm)
    <3>. DEFINE n == l[ls].prev
    <3>1. \A x \in N :
            /\ k[x].next = IF x = elm THEN ls ELSE IF x = n THEN elm ELSE l[x].next
            /\ k[x].prev = IF x = elm THEN n ELSE IF x = ls THEN elm ELSE l[x].prev
      BY <1>2, <2>2, AddBeforeLinks
    <3>2. n \in N /\ l[n].next = ls /\ n # elm BY <1>1, <1>2 DEF list_intact
    <3>. HIDE DEF n
    <3>. QED BY <3>1, <3>2
  <2>. QED BY <2>1, <2>2
<1>5. \A x \in N \ {elm, ls} : list_empty(l, x) => list_empty(k, x)
  BY <1>1, <1>4 DEF list_empty, list_intact
<1>6. rings_apart(k, N, H)
  <2>1. PICK L \in [N -> N] : /\ \A h \in H : L[h] = h
                             /\ \A n \in N : L[l[n].next] = L[n]
    BY DEF rings_apart
  <2>. DEFINE M == [L EXCEPT ![elm] = L[ls]]
  <2>2. M \in [N -> N] /\ \A h \in H : M[h] = h
    BY <2>1
  <2>3. L[p] = L[ls] /\ L[q] = L[ls]
    BY <1>4, <2>1
  <2>4. ASSUME NEW n \in N PROVE M[k[n].next] = M[n]
    <3>1. CASE n = elm
      <4>1. k[n].next = q BY <3>1, <1>4
      <4>. QED BY <3>1, <4>1, <2>1, <2>3, <1>4
    <3>2. CASE n = p
      <4>1. k[n].next = elm /\ n # elm BY <3>2, <1>4
      <4>. QED BY <3>2, <4>1, <2>1, <2>3
    <3>3. CASE n # elm /\ n # p
      <4>1. k[n].next = l[n].next BY <3>3, <1>4
      <4>2. l[n].next # elm BY <3>3, <1>1 DEF list_intact, list_empty
      <4>. QED BY <3>3, <4>1, <4>2, <2>1, <1>1
    <3>. QED BY <3>1, <3>2, <3>3
  <2>. QED BY <2>2, <2>4 DEF rings_apart
<1>. QED BY <1>3, <1>5, <1>6

(* What stands first or last on the list of a head h is on h's list and no  *)
(* other head: list_to_task is only applied to the link of a task.          *)
LEMMA NeighbourOfHead ==
    ASSUME NEW N, NEW H \in SUBSET N, NEW l \in Links(N), list_intact(l, N),
           rings_apart(l, N, H), NEW h \in H,
           NEW x, x = l[h].next \/ x = l[h].prev, ~list_empty(l, x)
    PROVE  x \in N /\ x \notin H
<1>1. x \in N BY DEF Links
<1>2. PICK L \in [N -> N] : /\ \A g \in H : L[g] = g
                           /\ \A n \in N : L[l[n].next] = L[n]
  BY DEF rings_apart
<1>3. L[x] = h
  <2>1. CASE x = l[h].next BY <2>1, <1>2
  <2>2. CASE x = l[h].prev BY <2>2, <1>1, <1>2 DEF list_intact
  <2>. QED BY <2>1, <2>2
<1>4. x # h
  <2>. SUFFICES ASSUME x = h PROVE FALSE OBVIOUS
  <2>1. l[h].next = h /\ l[h].prev = h BY DEF list_intact
  <2>. QED BY <2>1 DEF list_empty
<1>. QED BY <1>1, <1>2, <1>3, <1>4
=============================================================================
