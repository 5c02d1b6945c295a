# libcask in TLA+

libcask is a coroutine library in C: tasks with their own stacks, one scheduler
per thread, synchronization primitives that block tasks instead of threads, and
hooks that turn blocking system calls into waits in an epoll loop.  This
directory models its core, checks it with TLC and proves part of it with TLAPS.

## The system

| part | state | operations | interacts with |
|---|---|---|---|
| lists (`list.c`) | `prev`/`next` of every `run_link`, `run_list`, `wait_list` | init, add before/after, delete | everything: a task has one `run_link` and is on one list at a time, by convention only |
| tasks (`task.c`, `co_define.h`) | status word, stack, id | create, yield, block, exit, destroy | scheduler, ids |
| scheduler (`task_sched.c`, `sched_RR.c`) | per thread: run queue, current task | `schedule()`, enqueue, dequeue, picknext | any thread may enqueue a task on the thread that created it |
| mutex (`co_mutex.c`) | lock word, wait list, `wait_lock` | lock, try_lock, lock_wait, unlock | resumes tasks |
| semaphore (`co_sem.c`, `atomic.h`) | counter, wait list, `wait_lock` | wait, try_wait, post | resumes tasks |
| condition variable, barrier (`co_cond.c`, `co_bar.h`) | wait list; count | wait, wait_till, signal, broadcast; wait, destroy | mutex |
| channel (`chan.c`, `deque.c`, `queue.h`) | queue, capacity | send, recv, close | mutex, condition variables |
| event loop (`event.c`, `inner_fd.c`, `time_wheel.c`, `timer.c`) | epoll set, descriptor table, wheel | poll, wait, time out | scheduler |
| hooks (`sys_hook.c`, `sys_helper.c`) | descriptor flags, time-outs | read, write, connect, accept, close, sleep, poll, ... | event loop |
| await (`co_await.c`) | the wake-up pipe of a thread | run a call on a POSIX thread | resumes tasks from outside: run queue, event loop |
| ids (`cid.c`, `heap.c`, `array.c`) | next id, heap of freed ids | alloc, free | tasks |
| task-local storage (`co_specs.c`, `hash_map.c`) | buckets | get, put, delete, resize | tasks |
| spin lock (`co_spin_lock.c`) | lock word, or tickets | lock, trylock, unlock | run queues, primitives |

What is hard about it: a task is linked and unlinked by its own code, by its
scheduler and by wakers on other threads, and nothing but the order of these
steps keeps its single `run_link` on one list; a waiter is visible to wakers
before it has left its thread; the status word is written by three parties
without a lock; wake-ups can be lost between a failed attempt and the wait
list; tasks are freed while addresses of them are in flight.  PROJECT.json lists
each of these hazards with its line and the property that watches it.

## Modules

    CoList          list.c, store by store
      TaskSched     schedule(), the run queue, what a task may call
        SchedClient   the scheduler under arbitrary clients: the protocol
        CoMutex       co_mutex.c on TaskSched; implements SchedClient
          CoCond        co_cond.c on CoMutex
            Chan          chan.c and its deque on CoCond
            CoBar         co_bar.h on CoCond
              ChanBar       tasks that use both; implements SchedClient
        CoSem         co_sem.c on TaskSched; implements SchedClient
    IoEvent         one thread's event loop, time wheel and hooked system calls
    ThreadParts     parts of a thread that share no state
      TaskRes         what a task owns: its id and its task-local storage
        Cid             cid.c and heap.c; implements IdPool, a set of ids in use
        HashMap         hash_map.c; agrees with KeyMap, a function on keys
          Array           array.c
      FdTable         descriptor flags: fcntl and what opens and closes
      Await           async_wait, the run queue store by store, the wake-up pipe
    MC_*            instances for TLC
    *Proofs         theorems about the module of the same name

**CoList.** A link map gives the two pointers of every list node; an operation
is a function on link maps with one LET per store.  `_list_add` contains an
unsequenced read and store; the constant `AddressFirst` says which way the
compiler went.  The runs, and the theorems about lists, take the order the author
meant.  With the other one (`AddressFirst = FALSE`), which gcc 12 chooses with and
without -O2 for `list_add_before`, `ls->prev` is stored before the address of
`ls->prev->next` is computed: the new element points to itself, is not reachable from
the head, and `LinksIntact` is violated by the first task that waits.

**TaskSched.** A thread is in `main`, in a task, or at one of three places of
`schedule()`: it deals with the task it came from (`prev`), picks the next one
(`pick`), unlinks it and switches (`dequeue`).  `enq[th]` is the progress of
`sched_rq_enqueue` in thread th, which is three steps: store RUNNABLE, unlink,
link under the lock of the run queue.  These are the points at which another
thread's steps make a difference.  A list operation is one step, and so is the look
of `RR_picknext` at the queue, which in the code is two reads without the lock
(`sched_RR.c:83` and `84`).  How these reads and the individual stores of two threads
on neighbouring nodes interleave (RR_enqueue unlinks outside the lock, dequeue takes
none) is left to Await, so the two-thread results of the modules on TaskSched hold for
threads whose list operations overlap neither each other nor such a look.  A step that would treat a list head as a task is left out
(undefined behaviour); `TouchesLiveTasks` says one thread never gets there.
Waiting in epoll with nothing to do is a thread that takes no step; for that
reason the cfgs of the modules built on TaskSched switch deadlock checking off: a system whose tasks have all
ended, or all wait, really stops.

**SchedClient.** Tasks that call anything: yield, create, wait on a list and
block, with a timer or without, poll a descriptor, resume the first waiter of any list,
end.  A task that waits with a timer (`co_cond_wait_till`) may be resumed by its waker,
by the event, or by one after the other before it runs.  It is the
abstract specification of what a primitive may ask of the scheduler.

**CoMutex, CoSem.** The primitives on the scheduler, one action per stretch of
code between two accesses to shared memory.  A section under `wait_lock` is one
step: the lock is never held across a switch, and what is read in it and changed
outside it is a single word changed by atomic instructions.  The client
calls in any order, with the two rules the code itself enforces by PANIC (no
recursive lock, unlock only what one owns) and a third, that a
task does not end with a mutex locked.  `co_mutex_lock_wait` is part of the fair
specification only: it answers with the state of the mutex, so that its caller may take
another task's mutex for its own, and mutual exclusion as the clients see it is a
property of the other calls.  `ClientSpec` is the specification of
SchedClient under the refinement mapping of the labels.

**CoCond, Chan, CoBar, ChanBar.**  A task that is in no call of `co_mutex.c` has
a second place, `at`, in the code that calls it; `cond` is its progress in
`co_cond_wait`: on the list of the condition variable, unlocking, blocked, and
then a locker of the mutex like any other.  Chan has the loops of the buffered and
the unbuffered send and receive, with a message known by its sender.  `chan_close`
takes no lock and empties the deque element by element; that is one step as long as
nothing else runs meanwhile, so the action exists only where there is one thread.  CoBar has the two tests of the count, before and
under the mutex, the loop, and the broadcast one wake-up at a time.  ChanBar lets
each task wait once at a barrier and then send and receive, as the tasks of
`test/test_channel.c` do, and close the channel or destroy the barrier.
`CondClientSpec` is the specification of SchedClient with a task in `co_cond_wait`
mapped to one that is on a list and still runs.  On one thread nobody switches with a mutex of a channel or a barrier
locked, so these mutexes are contended only in the two-thread run.

**IoEvent.**  One thread with its descriptor table (`inner`), the kernel's side of it
(`ready`, and `interest`, the epoll set), the wheel, and the run queue, here a
sequence.  A wait is two actions, the code before the switch (`event_poll`) and the
code after it (`event_poll_end` and the rest of the call); in between
`RR_picknext`, which contains `event_wait`, and `_timeout_task` act on the table.
The kernel makes descriptors ready, lets timers expire and ticks at any moment; a
tick while one is pending is lost, as the timerfd's count is read and dropped.  Client
rule: a descriptor is used by one task at a time and not closed while a task waits
for it, since the table holds one task per descriptor and `event_poll` uses
the entry after the switch.  A write has the code's `len`, which decides where the next
system call starts and what is returned; `sent` is what the kernel took.  `sendmsg`
counts with `len` as well and starts at the first byte each time.  `Does` says which calls a task makes on which
descriptor.  `error` is cleared when the call returns: every wait starts by clearing
it, so nothing reads the old value.  Every descriptor of the table is O_NONBLOCK here,
which is what FdTable shows.  Outside the model: failing `epoll_ctl`, names.

**Array, Cid, HashMap, TaskRes.**  Arrays, heaps and maps are values, their operations
functions on them; `task_create`, `task_destory` and the macros of `co_define.h` are the
actions.  Sizes and ids have a width, since `heap_size(hp) - 1` of an empty heap wraps
around and becomes -1 as an int, and since a failed `alloc_cid` returns -1 as a `cid_t`.
A key is a sequence of characters, hashed as in the code.  `IdPool` says which id
a task may get: one never used while there is one, then the least one that is free.
`IdPoolSpec` is its specification, with `exhausted` for the steps after a failed
`alloc_cid`.  `KeyMap` is a function from keys to values; the history variable `kept`
follows it call by call, and `SpecsKept` compares.  HashMapAssumption excludes two keys
of one hash one of which begins the other: `hash_map_get` compares over the length of
the key it looks for.

**FdTable.**  `file` and `f_flags` are the kernel's (a duplicated descriptor shares its
file), `g_inner_fd_list` is the library's.  Every `fcntl(F_SETFL)`, `F_DUPFD`, socket,
accept, timer and close is an action, by hooked code or by unhooked code.  Client rules:
unhooked code leaves O_NONBLOCK to files of the table and does not close its
descriptors, and O_NONBLOCK is cleared on descriptors of the table only (the code
dereferences the entry).

**Await.**  The scheduler thread, its tasks, the task that reads the wake-up pipe, and a
POSIX thread per call of `async_wait`.  A step is one read of a pointer
that another thread may change, one store to a `list_t` or the lock, or a system call;
memory is sequentially consistent (`build.sh` compiles without -O, so that every read in
the source is a read, `ls->next` of `list_add_after` twice).  Only a `list_delete` of a task
that is on no list is one step.  `ins` is the place of
a thread in `_await_task` and `RR_enqueue`, `spc` that of the scheduler in `schedule()`
and `RR_picknext`.  `fifo` is history: the tasks on the run queue; an insertion takes
effect with its store to the first element, a removal with its store to the head.
`RR_picknext` and `RR_dequeue` take no lock, and there are two ways in which this damages
the queue, together `Clash`: an insertion has read the queue while its only task is being
taken off, or `RR_picknext` has read the head, finds a task inserted behind it and takes
the head for that task.  The threads go on after a clash with the list as it is; only a
scheduler that switches to what is no task, the head or a freed `task_t`, stops
(`stray`).  The history variable `clash` says whether there was one.  `QueueSound`,
`AwaitFrameLive` and `NoSleepOnWork` say that nothing else goes wrong with the queue, the
frames and the wake-ups, in any order of the steps; that clashes do happen, and what they cost, is the
finding of `await_lost`.

**ThreadParts** is the sum of these: `part` says which one moves.  The parts have no
variable in common, so an interleaving of two of them reaches, in each, only states that
it reaches alone, and the properties, each about one part, are not weakened.

## Runs

| run | instance | result |
|---|---|---|
| `sched_one_thread` | 1 thread, 4 tasks, 2 wait lists | lists intact, running tasks unlinked, no freed task touched, every resumed task runs |
| `mutex_one_thread` | 1 thread, 3 tasks, 1 mutex, with co_mutex_lock_wait | FIFO wait list, every waiter served, implements SchedClient |
| `mutex_two_threads` | 2 threads, 2 tasks, 1 mutex | mutual exclusion, no lost wake-up, implements SchedClient |
| `mutex_two_threads_home` | 2 threads, 3 tasks, 1 mutex | **violated**: a task runs on a thread that is not its own |
| `sem_two_threads` | 2 threads, 3 tasks, count 1 | never more successes than permits, implements SchedClient |
| `chan_bar` | 1 thread, 3 tasks, barrier for 2, capacity 0, 1 or 2 | capacity kept, unbuffered sends hand over, no one blocked in vain on a buffered channel, barrier holds and releases, implements SchedClient |
| `bar_two_threads` | 2 threads, 2 tasks, barrier for 2 | nobody passes early, the count does not wrap |
| `chan_unbuffered` | 1 thread, 4 senders, 1 receiver | **violated**: a sender and a receiver wait for each other for ever |
| `io_event` | 2 tasks and the timer task, 2 descriptors, a timer each, time-out 1, wheel of 3 | a wait is ended only by its own descriptors, leaves nothing in epoll or wheel, can always be ended, times out neither early nor never; a write passes each byte once |
| `thread_parts` | 5 tasks and 4 ids; 5 keys; 3 descriptors on 2 files; 2 awaiting tasks, one with 2 calls | ids and task-local storage do what a set of ids and a function would, arrays and maps stay sound; what the table calls non-blocking is; as long as there was no clash: the run queue is a queue at every store, a helper uses only frames that exist, no sleep with work to do |
| `await_lost` | 2 awaiting tasks with one call each | **violated**: after a clash `async_wait` does not return |
| `sem_waiter` | 1 thread, 2 tasks, count 1 | **violated**: a post does not reach the only waiter |

Bounds.  Four tasks and two wait lists on one thread let one task run, one be in
the run queue, one on each list, and every pair meet on one list.  Three tasks
are a mutex's owner, a waiter and a task that barges in or queues behind; two
tasks on two threads have every race of one locker with one unlocker.  Three
tasks on two threads reach corrupted lists (the finding below), after which the
state space no longer fits; the passing run has two.  For semaphores, `MaxPosts`
= 3 is what it takes for a post to find the wait list empty with the counter
negative; `MaxDebt` = 4 bounds the counter from below, which corrupted lists would
otherwise let fall for ever.  The corrupted states are part of that run:
SafePermits holds in them too.  On a channel, three tasks are two senders and two
receivers (one is both), and capacities 0, 1 and 2 are no buffer, a buffer that
every message fills, and one that it does not.  The two-thread run has the barrier
alone: the double enqueue below corrupts lists there as well, and with a channel
in use TLC had not finished after nine million states.  Four senders are
what it takes for the unbuffered channel to block; with three it does not.  In the
event loop one task reads, on a descriptor that may become readable, and the other
makes every other call on both, so that two waits, by wheel and by timer, overlap in
every order with events, ticks and each other; a wheel of 3 slots is the smallest
that keeps a time-out of 1 apart from the slot being served (the code has 60 and
600), and 2 bytes make a write partial.  Two descriptors with every call by both
tasks do not fit.  With one task more than ids, `alloc_cid` fails; four freed ids make a
heap of three levels.  The keys are such that two collide, a new table fills up and it
is resized twice.  Three descriptors and two files are two that share a file and one
that does not, with descriptor 0, which the code treats on its own.  In Await two tasks,
one with two calls of `async_wait` or `co_yield` and one with one, have two helper threads
at once that insert while the scheduler inserts, removes or sleeps, and a helper that is
still in `spin_unlock` when its task makes the next call.  With two calls each Await passes
as well (1,952,976 states); the run has less so that the parts fit together.

Fairness.  `schedule()` and straight-line library code go on while they can: weak
fairness.  A client that gets to run again and again yields in the end, and
unlocks what it locked: strong fairness, since a task is at such a point only
while it runs.  Nothing is assumed about which of its calls a client makes.  In Await the
system runs the scheduler thread and every helper (weak fairness), and a function given
to `async_wait` returns; the expiry of `epoll_wait` and the ticks of the timer, which
would hide a lost wake-up for a minute or a second, are not relied on.

### Findings

* **Double enqueue across threads** (`task_sched.c:171`).  Task B of thread 2
  is on a mutex's wait list, not yet switched out.  Thread 1 unlocks, takes B off
  and stores RUNNABLE.  Thread 2 reaches `schedule()`, sees RUNNABLE, enqueues
  B and runs it.  Thread 1 goes on with its enqueue and links the running B.  When
  B next waits, `list_add_before` links it a second time; lists of the two
  threads merge, and a thread runs a task of the other.  `SendHandsOver`,
  `BarrierReleases` and `CondClientSpec` fail on two threads for the same reason.
* **Semaphore posts lost** (`co_sem.c:39`).  The post that takes the counter from
  -1 to 0 wakes nobody, and a woken waiter decrements again.
* **Run queue read and changed without its lock** (`sched_RR.c:62`, `76`, `83`).  The
  queue holds only B, and the helper thread of A, in `RR_enqueue` with the lock, has read
  B as the first element.  The scheduler takes B off and runs it.  The helper stores to B
  and to the head: following `prev` from the head, the scheduler does not find A.  Or: the
  queue is empty, `RR_picknext` reads `ls = rq->run_list.prev`, the head; a helper inserts
  A; `list_empty(ls)` is now false, and the head is unlinked and switched to as if it were
  a task.  In both cases `async_wait` of A does not return, and the byte in the pipe does not
  help.  TLC's trace for `await_lost` ends in the second.
* **Unbuffered channel blocks** (`chan.c:69`).  After a receive the first two tasks
  of `not_full` are woken, meant to be the sender and its successor.  A sends and
  waits; B, C, D queue behind it.  R takes A's message and wakes A and B; B sends
  and queues behind C and D.  R takes B's message and wakes C and D; C sends, and
  both queue behind B.  R takes C's message and wakes B and C, which return.  D
  waits to send, R to receive, the channel is empty, and nobody is left to signal.

## Proofs

**CoListProofs.**  `list_delete` and the insertions keep lists intact and rings
apart: no two heads on one ring.  Being on one ring is a reachability property;
it is stated as a labelling of the nodes that is constant along `next` and
separates the heads, which a step can update without induction.

**SchedClientProofs** (`OneThread`, `AddressFirst`; any tasks and wait lists).
`TypeOK`, `LinksIntact`, `RunningUnlinked`, `TouchesLiveTasks`.  The inductive
invariant `IInv` adds to them: rings are apart (so that the task picked is
never a head), an ended task is on no list (so that it is never picked or woken), a
freed one has ended, and, per place of the thread, what the task of `current`
and of the pending enqueue can be (a task being enqueued has not ended, is not
the running one, and is unlinked before it is linked).  One thread is needed: the finding above
is a counterexample on two.

**CoMutexProofs** (any threads, tasks, mutexes, Home).  `MutualExclusion`; the
invariant adds that a task in the middle of a call has a mutex as its argument and
that a thread runs a task.  `MutexIsClient`: every step of CoMutex is a step
or a stutter of SchedClient.  Neither assumes that the lists are intact.  Both are about
`Spec`, without co_mutex_lock_wait, for which `mutex_one_thread` checks the refinement.

**CoSemProofs** (any constants).  `SafePermits` is not inductive: the counter is
not count + posts - successes, since decrements of blocked and woken waiters are
left behind.  The invariant `SemInv` is that it is at most that, minus the
calls in flight: those that have decremented and not yet looked under the lock.
`SemIsClient`: every step of CoSem is a step or a stutter of SchedClient.

**ChanBarProofs** (any threads, tasks, parties).  `BarrierHolds` is not inductive: the
invariant `BarInv` adds that, until the barrier is destroyed, the count is Parties minus
the tasks whose arrival has been counted, that a count of 0 was reached by Parties of them
(a task that arrives later is not counted down), and that a task past the loop, or
returned, has seen 0 or a destroyed barrier.  It does not need the lists to be intact: a
stretch of code under the mutex is one step.

**FdTableProofs** (any descriptors, files and flags).  `NeverBlocksThread` is not
inductive: a descriptor that is opened again would meet the entry of the one before
it, and not be made non-blocking.  `FdInv` adds that only open descriptors have an O_NONBLOCK entry.

**TaskSchedProofs** holds the type lemmas of the scheduler's steps, for the other two.

Only model-checked: liveness (`ResumedRuns`, `WaiterServed`, `BarrierReleases`), `NoLostWakeup` and
`WaitersFifo` (they speak of the sequence of elements of a list, an inductive
notion), the other properties of condition variables, channels and barriers, the
event loop, Await, and the ids and maps (Cid has a recursive operator, and what the heap
and the resize compute for every size is an induction over data).

## Not modelled

* What `co_cond_wait_till` (`co_cond.c:21`) answers.  Nothing calls it, and nothing says what
  its caller is told when timer and signal meet; SchedClient has its wait.
* What a scheduler does once it has switched to a list head or a freed task, the stores
  of list operations of two threads in the modules on TaskSched, and `chan_close` while
  another thread uses the channel.
* Name resolution (`co_gethostbyname`, `getaddrinfo`): the system's resolver under a
  mutex.  `pthread_create` that fails in `async_wait`; `async_wait` outside a task.
* The ticket lock and the shutdown under `CO_SCHED_STOP`, which `build.sh` does not
  compile; `spin_trylock`, `close_all_inner_fd`, `set_inner_fd_timeout` (no caller, or no effect).
* Stacks and context switches (a task's identity stands for them), logging, `bit_map.c`,
  `stack.h` (unused), `co_rwlock.h`, `sched_ctl.h` (unfinished), preemption by
  `__cyg_profile_func_enter` (only `sched_ctl.h` sets `force_sched`).
