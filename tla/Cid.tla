-------------------------------- MODULE Cid --------------------------------
(***************************************************************************)
(* Task ids: the allocator of cid.c, one per thread, and the heap of freed *)
(* ids it keeps (heap.c, on array.c).  Ids are given out from 0 up to      *)
(* max_id, after that the least freed one is used again.                   *)
(***************************************************************************)

EXTENDS Array

CONSTANTS
    max_id,     \* THREAD_MAX_TASK_SIZE, ids per thread
    SIZE_BITS,  \* width of size_t and of cid_t
    INT_BITS    \* width of int, less than SIZE_BITS

ASSUME CidAssumption ==
    /\ max_id \in Nat \ {0}
    /\ INT_BITS \in Nat \ {0}
    /\ SIZE_BITS \in Nat
    /\ INT_BITS < SIZE_BITS

(* alloc_cid returns -1 when it has no id; cid_t is unsigned. *)
NO_CID == 2 ^ SIZE_BITS - 1

(* The conversion of a size_t to an int. *)
to_int(u) ==
    LET low == u % 2 ^ INT_BITS
    IN  IF low < 2 ^ (INT_BITS - 1) THEN low ELSE low - 2 ^ INT_BITS

(* parent(heap_size(hp) - 1): of an empty heap, heap_size - 1 wraps around. *)
last_parent(size) ==
    LET idx == (size - 1) % 2 ^ SIZE_BITS
    IN  to_int(IF idx <= 0 THEN 0 ELSE (idx - 1) \div 2)

swap(a, l, r) ==
    array_put(array_put(a, l, array_get(a, r)), r, array_get(a, l))

(* Compares the elements of root and of its children; the result says where *)
(* the element of root went.                                                *)
heapify(a, root) ==
    LET size  == array_size(a)
        child(i) == IF 2 * root + i < size THEN 2 * root + i ELSE -1
        less(i, j) == i > 0 /\ array_get(a, i) < array_get(a, j)
        max1 == IF less(child(1), root) THEN child(1) ELSE root
        max2 == IF less(child(2), max1) THEN child(2) ELSE max1
    IN  IF root < size
        THEN [array |-> IF max2 # root THEN swap(a, max2, root) ELSE a, max |-> max2]
        ELSE [array |-> a, max |-> 0]

(* Mutant: the root is left out. *)
heap_fixup_shallow(a) ==
    LET start == last_parent(array_size(a))
    IN  FoldLeft(LAMBDA b, i : heapify(b, start + 1 - i).array, a,
                 [i \in 1 .. start |-> i])

heap_fixup(a) ==
    LET start == last_parent(array_size(a))
    IN  FoldLeft(LAMBDA b, i : heapify(b, start + 1 - i).array, a,
                 [i \in 1 .. start + 1 |-> i])

heap_fixdown(a) ==
    LET stop == last_parent(array_size(a))
        RECURSIVE down(_, _)
        down(b, root) ==
            LET h == heapify(b, root)
            IN  IF root > stop THEN b
                ELSE IF h.max = root THEN h.array
                ELSE down(h.array, h.max)
    IN  down(a, 0)

heap_push(a, elm) == heap_fixup(array_insert(a, array_size(a), elm))

(* The heap without its first element, which is array_get(a, 0). *)
heap_pop(a) ==
    LET last == array_size(a) - 1
    IN  heap_fixdown(array_put(array_del(a, last), 0, array_get(a, last)))

-----------------------------------------------------------------------------
VARIABLES
    base,       \* the next id never given out
    recycle     \* the heap of freed ids

alloc_init ==
    /\ base = 0
    /\ recycle = array_init

(* alloc_cid() returning id. *)
alloc_cid(id) ==
    \/ /\ base < max_id
       /\ id = base
       /\ base' = base + 1
       /\ UNCHANGED recycle
    \/ /\ base >= max_id
       /\ array_size(recycle) = 0
       /\ id = NO_CID
       /\ UNCHANGED <<base, recycle>>
    \/ /\ base >= max_id
       /\ array_size(recycle) # 0
       /\ id = array_get(recycle, 0)
       /\ recycle' = heap_pop(recycle)
       /\ UNCHANGED base

free_cid(id) ==
    /\ recycle' = heap_push(recycle, id % max_id)
    /\ UNCHANGED base

=============================================================================
