------------------------------- MODULE CoList -------------------------------
(***************************************************************************)
(* The intrusive, circular, doubly linked lists of list.c.  A link map l   *)
(* gives the two pointers of every list_t in memory: l[n].prev, l[n].next. *)
(* An operation is a function from the link map before the call to the one *)
(* after it, one LET per store, in the order the code makes them.          *)
(***************************************************************************)

EXTENDS Naturals

CONSTANT AddressFirst
    (* _list_add ends with p->next = n->prev = elm, and list_add_before     *)
    (* passes ls->prev for p and ls for n: C leaves open whether the address *)
    (* of ls->prev->next is computed before (TRUE) or after (FALSE) the      *)
    (* store to ls->prev.  A build does one or the other.                    *)

ASSUME AddressFirstAssumption == AddressFirst \in BOOLEAN

Links(N) == [N -> [prev : N, next : N]]

set_prev(l, n, v) == [l EXCEPT ![n] = [prev |-> v, next |-> l[n].next]]
set_next(l, n, v) == [l EXCEPT ![n] = [prev |-> l[n].prev, next |-> v]]

list_init(l, ls) == set_next(set_prev(l, ls, ls), ls, ls)

list_add_before(l, ls, elm) ==
    LET l1 == set_prev(l, elm, l[ls].prev)
        l2 == set_next(l1, elm, ls)
        l3 == set_prev(l2, ls, elm)
        p  == IF AddressFirst THEN l2[ls].prev ELSE l3[ls].prev
    IN  set_next(l3, p, elm)

list_add_after(l, ls, elm) ==
    LET l1 == set_prev(l, elm, ls)
        l2 == set_next(l1, elm, l1[ls].next)
        l3 == set_prev(l2, l2[ls].next, elm)
    IN  set_next(l3, ls, elm)

(* Mutant: list_delete without its list_init. *)
list_delete_dangling(l, elm) ==
    LET l1 == set_next(l, l[elm].prev, l[elm].next)
    IN  set_prev(l1, l1[elm].next, l1[elm].prev)

list_delete(l, elm) ==
    LET l1 == set_next(l, l[elm].prev, l[elm].next)
        l2 == set_prev(l1, l1[elm].next, l1[elm].prev)
    IN  list_init(l2, elm)

(* The lists among the nodes N are intact: next and prev undo each other, so *)
(* the nodes form disjoint rings.                                            *)
list_intact(l, N) == \A n \in N : l[l[n].next].prev = n /\ l[l[n].prev].next = n

(* The elements of the list headed by h, first to last: what list_next       *)
(* visits before it is back at h, or after k steps if it never is.           *)
list_elements(l, h, k) ==
    LET visit[i \in 0 .. k] == IF i = 0 THEN h ELSE l[visit[i - 1]].next
        back == {i \in 1 .. k : visit[i] = h}
        len == IF back = {} THEN k ELSE (CHOOSE i \in back : \A j \in back : i <= j) - 1
    IN  [i \in 1 .. len |-> visit[i]]

list_empty(l, ls) == l[ls].prev = l[ls].next /\ l[ls].prev = ls
=============================================================================
