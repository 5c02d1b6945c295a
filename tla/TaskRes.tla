------------------------------ MODULE TaskRes ------------------------------
(***************************************************************************)
(* What a task owns besides its stack: an id of its thread's allocator and *)
(* its task-local storage, a hash map made when it is first used           *)
(* (co_define.h, co_specs.c).  task_create and task_destory of task.c, as  *)
(* far as these go.                                                        *)
(***************************************************************************)

EXTENDS Cid, HashMap

CONSTANTS
    Tasks,
    Values

VARIABLES
    cid,        \* the id of every task, NULL while the task does not exist
    specs,      \* the task-local storage of every task, NULL before its use
    kept,       \* history: what KeyMap holds after the same calls
    exhausted   \* history: alloc_cid has returned -1 at some time

res_vars == <<base, recycle, cid, specs, kept, exhausted>>

Pool == INSTANCE IdPool WITH Owners <- Tasks, NoId <- NULL, held <- cid, fresh <- base

Storage == INSTANCE KeyMap WITH Owners <- Tasks, NoValue <- NULL, store <- kept

res_init ==
    /\ alloc_init
    /\ cid = [t \in Tasks |-> NULL]
    /\ specs = [t \in Tasks |-> NULL]
    /\ Storage!Init
    /\ exhausted = FALSE

task_create(t) ==
    /\ cid[t] = NULL
    /\ \E id \in 0 .. max_id - 1 \cup {NO_CID} :
          /\ alloc_cid(id)
          /\ cid' = [cid EXCEPT ![t] = id]
          /\ exhausted' = (exhausted \/ id = NO_CID)
    /\ UNCHANGED <<specs, kept>>

task_destory(t) ==
    /\ cid[t] # NULL
    /\ free_cid(cid[t])
    /\ cid' = [cid EXCEPT ![t] = NULL]
    /\ specs' = [specs EXCEPT ![t] = NULL]
    /\ Storage!ForgetAll(t)
    /\ UNCHANGED exhausted

(* The storage of t, made by alloc_co_specs where there is none. *)
specs_of(t) == IF specs[t] = NULL THEN hash_map_init ELSE specs[t]

spec_call(t, map) ==
    /\ cid[t] # NULL
    /\ specs' = [specs EXCEPT ![t] = map]
    /\ UNCHANGED <<base, recycle, cid, exhausted>>

co_spec_set(t, k, v) ==
    /\ spec_call(t, hash_map_put(specs_of(t), k, v))
    /\ Storage!Set(t, k, v)

(* What it returns is hash_map_get(specs_of(t), key). *)
co_spec_get(t) ==
    /\ spec_call(t, specs_of(t))
    /\ UNCHANGED kept

(* co_specs_del(NULL, key) panics. *)
co_key_del(t, k) ==
    /\ specs[t] # NULL
    /\ spec_call(t, hash_map_del(specs[t], k))
    /\ Storage!Forget(t, k)

(* hash_map_clear has no wrapper in co_specs.c; the callers of hash_map.h use it. *)
spec_clear(t) ==
    /\ specs[t] # NULL
    /\ spec_call(t, hash_map_clear(specs[t]))
    /\ Storage!ForgetAll(t)

-----------------------------------------------------------------------------
(* As long as no more than max_id tasks are alive, two live tasks never have  *)
(* the same id, no id is lost, and an id used again is the least one free:    *)
(* cid.c with its heap does what a set of free ids would.  Once alloc_cid has *)
(* failed, its -1 is freed like an id, and an id in use is given out again.   *)
IdPoolSpec == Pool!Init /\ [][exhausted' \/ Pool!Next]_<<cid, base>>

(* co_spec_get after any calls returns what was last set for that very key by  *)
(* that very task, and nothing once it was deleted: neither a collision, nor a *)
(* resize of the table, nor the removal of another key changes it.             *)
SpecsKept ==
    \A t \in Tasks :
        IF specs[t] = NULL THEN kept[t] = Storage!Empty
        ELSE \A k \in Keys : hash_map_get(specs[t], k) = kept[t][k]

(* A map counts its nodes, each in the bucket of its hash, and has as many    *)
(* buckets as its mask assumes: otherwise hash_map_resize, which asks the     *)
(* count, comes at the wrong time or forgets nodes.                           *)
MapSound ==
    \A t \in Tasks : specs[t] # NULL =>
        LET map == specs[t]
            v   == map.table.vector
        IN  /\ Len(v) = map.capcity
            /\ map.count = FoldLeft(LAMBDA n, b : n + Len(b), 0, v)
            /\ \A i \in DOMAIN v : \A j \in DOMAIN v[i] :
                  index(map, v[i][j].key) = i - 1

(* No vector has more elements than cells: array_insert grows it in time.  *)
WithinCapacity ==
    /\ array_size(recycle) <= recycle.capcity
    /\ \A t \in Tasks : specs[t] # NULL =>
          array_size(specs[t].table) <= specs[t].table.capcity

=============================================================================
