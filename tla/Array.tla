------------------------------- MODULE Array -------------------------------
(***************************************************************************)
(* The growing vectors of array.c, indexed from 0.  A vector is the        *)
(* sequence of the elements below its size, and its capacity; the cells    *)
(* beyond size are never read.                                             *)
(***************************************************************************)

EXTENDS Integers, SequencesExt

CONSTANTS
    MIN_ARRAY_CAPCITY,
    NULL

ASSUME MinCapacityAssumption == MIN_ARRAY_CAPCITY \in Nat \ {0}

array_init == [vector |-> <<>>, capcity |-> 0]

array_size(a) == Len(a.vector)

realloc_array(a) ==
    [a EXCEPT !.capcity = IF @ = 0 THEN MIN_ARRAY_CAPCITY ELSE 2 * @]

(* Mutant: the vector grows only once an element was stored beyond its end. *)
array_insert_late(a, idx, elm) ==
    IF idx > array_size(a) THEN a
    ELSE LET b == IF a.capcity < array_size(a) THEN realloc_array(a) ELSE a
         IN  [b EXCEPT !.vector = InsertAt(@, idx + 1, elm)]

array_insert(a, idx, elm) ==
    IF idx > array_size(a) THEN a
    ELSE LET b == IF a.capcity <= array_size(a) THEN realloc_array(a) ELSE a
         IN  [b EXCEPT !.vector = InsertAt(@, idx + 1, elm)]

array_put(a, idx, elm) ==
    IF idx < array_size(a) THEN [a EXCEPT !.vector[idx + 1] = elm] ELSE a

array_get(a, idx) ==
    IF idx < array_size(a) THEN a.vector[idx + 1] ELSE NULL

array_del(a, idx) ==
    IF idx < array_size(a) THEN [a EXCEPT !.vector = RemoveAt(@, idx + 1)] ELSE a

=============================================================================
