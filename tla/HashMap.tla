------------------------------ MODULE HashMap ------------------------------
(***************************************************************************)
(* The hash map of hash_map.c: a table (array.c) of lists of nodes, hung   *)
(* up by the hash of their keys.  Every operation is a function on maps.   *)
(* A key is a sequence of characters, a value what the caller's bytes      *)
(* are; nodes hold copies of both.  The count of a bucket, which nothing   *)
(* reads, is left out.                                                     *)
(***************************************************************************)

EXTENDS Array

CONSTANTS
    Keys,
    HASH_MAP_DEFALUT_CAPCITY,   \* buckets of a new map, a power of two
    HASH_BITS                   \* width of hash_key_t

string_hash ==
    [keyname \in Keys |->
        FoldLeft(LAMBDA key, c : (key * 31 + c) % 2 ^ HASH_BITS, 0, keyname)]

(* Keys are compared by their hashes and over the length of the key looked   *)
(* for.  No key is taken for a longer one as long as the two differ in hash; *)
(* so do ASCII strings too short for the hash to wrap around.                *)
ASSUME HashMapAssumption ==
    /\ HASH_MAP_DEFALUT_CAPCITY \in Nat \ {0}
    /\ \A k \in Keys : k \in Seq(Nat)
    /\ \A k1, k2 \in Keys :
          IsPrefix(k1, k2) /\ string_hash[k1] = string_hash[k2] => k1 = k2

(* key & (capcity - 1) *)
index(map, key) == key % map.capcity

bucket(map, key) == array_get(map.table, index(map, key))

alloc_buckets(table, from, to) ==
    FoldLeft(LAMBDA t, i : array_insert(t, i, <<>>), table,
             [j \in 1 .. to - from |-> from + j - 1])

hash_map_init ==
    [capcity |-> HASH_MAP_DEFALUT_CAPCITY,
     table   |-> alloc_buckets(array_init, 0, HASH_MAP_DEFALUT_CAPCITY),
     count   |-> 0]

(* Mutant: keys are compared by their hashes only. *)
find_by_hash(map, keyname) ==
    SelectInSeq(bucket(map, string_hash[keyname]),
                LAMBDA node : node.key = string_hash[keyname])

(* The place in its bucket of the first node that matches keyname, or 0. *)
find(map, keyname) ==
    SelectInSeq(bucket(map, string_hash[keyname]),
                LAMBDA node : /\ node.key = string_hash[keyname]
                              /\ IsPrefix(keyname, node.keyname))

hash_map_get(map, keyname) ==
    LET at == find(map, keyname)
    IN  IF at = 0 THEN NULL ELSE bucket(map, string_hash[keyname])[at].value

with_bucket(map, key, nodes) ==
    [map EXCEPT !.table = array_put(@, index(map, key), nodes)]

(* One bucket of hash_map_resize: its nodes that belong elsewhere move to *)
(* the end of their new buckets.                                          *)
rehash(map, i) ==
    LET nodes == array_get(map.table, i)
        stays(node) == index(map, node.key) = i
        goes(node) == ~stays(node)
        left == [map EXCEPT !.table = array_put(@, i, SelectSeq(nodes, stays))]
    IN  FoldLeft(LAMBDA mp, node :
                     with_bucket(mp, node.key, Append(bucket(mp, node.key), node)),
                 left, SelectSeq(nodes, goes))

(* Mutant: the nodes stay in the buckets they were in. *)
hash_map_resize_only(map) ==
    [map EXCEPT !.capcity = 2 * @,
                !.table = alloc_buckets(@, map.capcity, 2 * map.capcity)]

hash_map_resize(map) ==
    LET grown == [map EXCEPT !.capcity = 2 * @,
                             !.table = alloc_buckets(@, map.capcity, 2 * map.capcity)]
    IN  FoldLeft(rehash, grown, [j \in 1 .. map.capcity |-> j - 1])

hash_map_put(map, keyname, value) ==
    LET key   == string_hash[keyname]
        at    == find(map, keyname)
        nodes == bucket(map, key)
        room  == IF 4 * map.count >= 3 * map.capcity THEN hash_map_resize(map) ELSE map
        node  == [key |-> key, keyname |-> keyname, value |-> value]
    IN  IF at # 0
        THEN with_bucket(map, key, [nodes EXCEPT ![at].value = value])
        ELSE [with_bucket(room, key, Append(bucket(room, key), node))
                 EXCEPT !.count = @ + 1]

hash_map_del(map, keyname) ==
    LET key == string_hash[keyname]
        at  == find(map, keyname)
    IN  IF at = 0 THEN map
        ELSE [with_bucket(map, key, RemoveAt(bucket(map, key), at))
                 EXCEPT !.count = @ - 1]

(* hash_map_clearall(map, 0); with 1 the map is gone. *)
hash_map_clear(map) ==
    LET nodes == FoldLeft(LAMBDA n, b : n + Len(b), 0, map.table.vector)
    IN  [map EXCEPT !.table.vector = [i \in DOMAIN @ |-> <<>>],
                    !.count = @ - nodes]

=============================================================================
