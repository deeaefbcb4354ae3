# EmbeddedMiddle in TLA+

EmbeddedMiddle is a C middleware library for embedded Linux programs: thin
wrappers over pthread and POSIX primitives, containers built on them (memory
pool, message queue, heap, keyed data), managers for tasks, timers, events and
commands built on the containers, and clients for MQTT, HTTP and sockets.  This
directory holds a formal model of it, the configurations that check it with TLC,
and proofs of the properties of its foundation with TLAPS.

Paths below are relative to `src/src/`.

## 1. The system

| component | state | operations | used by |
|---|---|---|---|
| em_mutex, em_semaphore | a pthread mutex, a POSIX semaphore | lock and wait (for ever, until a timeout, without waiting), unlock, post | everything |
| em_mempool | `num_used`, the permutation `block_ptr`, its inverse `block[].index_ptr`, the mirror `data_ptr`; a semaphore that counts free blocks; a mutex | alloc (may sleep), free by pointer or index, unlocked `get_dataptr`, listing | em_malloc, em_list, em_gdatamng, em_mtxmng, em_semmng, em_evtmng, em_timer |
| em_queue | ring with `head_ptr`, `tail_ptr`, `num_used`; semaphores `sem_in`, `sem_out`; a mutex | enqueue, dequeue (both may sleep), getnum (does not wait) | em_task messages, em_command |
| em_malloc | list of pieces in address order between two dummies, records from two pools, `minfo_ptr`, `mem_used_bsize`; a mutex, a condition variable with its own mutex | malloc, trymalloc (sleeps for a free), free | applications, em_system |
| em_eventflag | an event (condition variable without predicate); a flag word with a condition variable; a pool of events | wait, set, broadcast, clear, reset on return | em_mqttc, applications |
| em_gdatamng, em_idatamng | a pool of data, key and count per block | add with a duplicate mode, find, remove | em_task, em_command |
| em_task | registry of tasks (em_idatamng), each with a queue; one start semaphore | create, delete (join), send and receive messages | applications |
| em_timer, em_mtxmng, em_semmng | pools of timers, mutexes, semaphores addressed by index | create, delete, set, lock, unlock | em_system |
| em_ringbuf, em_upload | ring of records; records being filled and sent | newest and oldest element, overwrite; append, add, send | em_upload, applications |
| em_command | registry of commands, running flag, queue of asynchronous commands | register, start, stop, execute | applications |
| em_list, em_oalloc, em_buf, em_time | doubly linked list over a pool; bump allocator; bounded buffer; timestamps | the usual ones; not thread safe | all |
| em_mqttc, em_httpc, em_ether | connections of other libraries and of the kernel | connect, publish, post, send, receive | em_upload, applications |
| em_system | all managers | create and destroy them in order | applications |
| em_geojson, em_print | formatting | | applications |
| system programs (`src/sample/system_sample01.c`, `02`) | shutdown and pause flags | three tasks, timers, MQTT clients, commands | |

How they interact: plain calls and shared memory.  A manager's records live in
blocks of an em_mempool and are named by the block's index; threads pass those
indices around and look them up without a lock.  Threads meet in semaphores
(pool, queue), mutexes and condition variables (heap, events), in callbacks from
timers (threads made by the kernel) and from the MQTT library.

What is hard: reads outside the lock (pool lookup), two semaphores moved outside
the mutex (queue), two mutexes around one condition variable (heap), waits
without a predicate (event), unlocking between answering and clearing (event
flag), sharing one start semaphore (task), callbacks that outlive their record
(timer), objects destroyed under a user (task queue, mutex registry, socket),
pointers that are not kept up (heap), flags tested and used without a lock
(command loop, MQTT client), and what failures leave behind (HTTP handles,
descriptors, records of an upload).  `PROJECT.json` lists each hazard at its line.

What makes each component correct:

* pool: no block is handed out twice, none is lost, the counts of the semaphore
  and of the blocks agree, a lookup answers for the block asked, nobody sleeps
  beside a free block;
* queue: first in, first out, nothing lost or doubled, nobody sleeps with reason
  gone, the two semaphores and the ring agree;
* heap: pieces do not overlap, all memory is in exactly one piece, the reported
  size is right, a sleeping request is retried when memory is freed;
* event flag: no wake-up lost, a flag set is answered;
* ring buffer, upload: newest and oldest are what the names say; a record added is
  queued or sent, in order;
* keyed data: at most one entry per key, counts agree with adds and removes;
* task: every created task starts, and should do so only when its creator has registered
  it (it does not always, section 6); it finds its own id; a message reaches a live task
  or its sender is told;
* timer, mutex and semaphore registries: an id names the same object until it is
  deleted, and the object admits as many as it should;
* commands: what is queued is executed once and in its turn, a stop ends the loops;
* MQTT, HTTP, sockets: a connect reports what happened, a reply is the caller's own,
  a call works on its own descriptor, only what is known to leak leaks;
* list, allocator, time, GeoJSON: what a sequential reader expects at every edge;
* system: no manager is used outside its life, and the program ends when told to.

## 2. The modules

| module | models | uses | promise it implements |
|---|---|---|---|
| `Mempool` | em_mempool.c, store by store | | `BlockPool` |
| `MsgQueue` | em_queue.c | | `BoundedFifo` |
| `MemMng` | em_malloc.c | `Pools` | |
| `EventFlag` | em_eventflag.c, event flag | | |
| `MqttConnect` | em_mqttc.c over the event of em_eventflag.c | | |
| `DataMng` | em_gdatamng.c, em_idatamng.c | `Pools`, `KeyedBlocks` | `KeyedMap` |
| `TaskMng` | em_task.c | `Pools`, `KeyedBlocks` | |
| `TimerMng` | em_timer.c | `Pools` | |
| `SyncMng` | em_mtxmng.c, em_semmng.c, em_evtmng of em_eventflag.c | `Pools` | |
| `Command` | em_command.c | | |
| `SysSample` | em_system.c under system_sample01.c and 02 | | |
| `RingBuf` | em_ringbuf.c | | |
| `Upload` | em_upload.c | `RingBuf`, `Buf` | |
| `Http`, `Buf` | em_httpc.c, em_buf.c | | |
| `Ether` | em_ether.c | | |
| `ListMng` | em_list.c | `Pools` | |
| `OAlloc`, `TimeCalc`, `GeoJson` | em_oalloc.c, em_time.c, em_geojson.c | | |

`Mempool` (em_mempool.c).  One variable per field of `em_mpool_t`; a block is its
index, so pointers to `block[i]` and `block[i].index` are the number `i`.
`pc[t]` says what thread `t` is about to do.  Critical sections whose
intermediate states a lookup can observe are broken up store by store
(`FreeTake`, `FreeSwap`, `FreeDel`, `FreePtrs`); the others are one action.  The
lookup's two reads may come in either order because C does not order the
operands of `>=`.  `ret` is the outcome of the call under way; `steady` and
`touched` are history variables about the block looked up.

`BlockPool` is what the pool promises: a set of live blocks, each call one step.
`Mempool` implements it with `live <- Live`.

`MsgQueue` (em_queue.c).  Ring, two semaphores, mutex; one action per critical
section and per semaphore operation, the branches the code calls fatal included.
`BoundedFifo` is what it promises; the mapping reads the ring from `tail_ptr`.

`Pools` is a pool as an owner sees it who calls it only under a mutex of its own
and never waits.  `Mempool` justifies it: its critical sections do not overlap.

`MemMng` (em_malloc.c).  `mm` is `em_memmng_t`: the records (`info`), the two
pools of records (`used`, `free`, both `Pools`), `minfo_ptr` and
`mem_used_bsize`.  Records keep their contents after they are returned, since
the code reads through pointers it has not updated.  `_em_malloc` is the operator
`Malloc` (the last record in the pool that is long enough, exact fit or split),
the body of `em_free` the operator `Free` (four ways to join).  The actions take
them through the mutexes, the wait on the condition variable and the broadcast.
The caller is modelled by `held`: it frees only what it holds.

`EventFlag` (em_eventflag.c).  A set of flags, and per thread its request and
whether its deadline has passed.  `em_eventflag_wait` unlocks between finding a
flag and resetting it, so `Answer` is a step apart from `Check`; condition
variables may wake for nothing (`SpuriousWake`).

`MqttConnect` (em_mqttc.c).  The owner of a client and the library's thread that runs
the callbacks; publishing reads `is_connected`, changes nothing and is left out.  The
owner starts the connection, then the library's thread, and only then goes to sleep on an
event that has no predicate: the broadcast may come before.  The test of `sub_callback`
is a step apart from its use.  What the library does (reconnects until told to disconnect,
one callback at a time, its thread cancelled only where pthreads allow) is external;
`called_back` and `spurious` are histories.

`RingBuf` (em_ringbuf.c with the way em_upload.c fills a slot).  Sequential; the
point is the index arithmetic in unsigned ints, hence `Word`.  `added` is the
sequence of records a reader of the comments expects.  The two properties also say that
what is read is a slot of the ring.

`Upload` (em_upload.c).  Extends `RingBuf` by `num_sendbuf`, the pointers `sendbuf`
with what earlier requests left in them (`Wild` where nothing was ever written), the
buffer of each slot (`Buf`), a collecting and a sending thread.  The code marks where
a lock belongs and takes none; the model lets callers hold one in every call but not
during the network request, the least a program must do, and finds what goes wrong then.

`Buf` is a buffer of fixed capacity of which only the number of bytes is kept.
`Http` (em_httpc.c) uses it for replies.  Handles of libcurl are numbered by request;
each byte of the reply buffer remembers its request.  A failed request leaves its
handle (`failed` says so), a common header is also set on a handle that no request will
use (`SetOption`), and that is memory libcurl does not own if there is none.

`Ether` (em_ether.c).  The kernel gives out its lowest closed descriptor; each socket
has an owner that opens and closes it, and workers that send and receive through it in
up to three steps (test, select, transfer), each reading `sk->sock` as it is then.

`KeyedBlocks` and `DataMng` (em_gdatamng.c; em_idatamng.c only passes the address
of an integer key).  Key, count and datum of a block; the search goes through
`block_ptr` in order.  Addition and last removal are two steps, because
`em_gdatamng_get_keyval_by_idx` reads without the mutex; it is itself three.
Pointers handed out by `em_gdatamng_get_data_ptr` are kept in `ptr` until the
caller drops them.  Calls that change nothing are no
actions: a refused addition is left out, the copying searches (`GetData`, `GetDataCnt`,
`GetDataByFunc`, `KeyByFunc`) are operators that a property compares with the entries.
`KeyedMap` is the promise: a map with counts, of bounded size, in one of three modes.

`TaskMng` (em_task.c).  The registry is the data of `KeyedBlocks`; its calls are
atomic, as `DataMng` shows, but the pointers they return are used later, each use
a step of its own.  A queue is a sequence (`BoundedFifo` shows that it may be).
`em_task_create` is five steps: reading the count without the mutex, the queue,
the thread, storing the thread id, the post; it may fail at the second, with no
block left, and at the third, when it leaves the task registered.
`em_task_delete` copies the record, joins, destroys the queue and removes the
record.  A thread id is free again after the join, as pthreads allow.  A new
record has an arbitrary thread id, as its memory is not initialised.  An
application creates only ids that do not exist and deletes only ids it created.
`Announced` says of a task how far its calls are: its thread id is stored and the join
has not returned.  `stale`, `misled` and `raced` are histories of what the code does not
prevent: a queue used while its task was being deleted, a thread that took for its own
the id of a task not `Announced`, and messages sent with a stale pointer.

`TimerMng` (em_timer.c).  `setting` and `linux_timer_id` are the fields of
`em_timerinfo_t` in each block of the pool `mp`, whose calls are atomic (`Pools`).
`kernel` is what the operating system keeps: which block each timer points to and
whether it runs.  `KernelIds` is finite, `CreateFails` stands for a refusal at any
time, and `timer_settime` may refuse an interval too (`CreateArmFails`, `SetFails`).
Each call is broken up at its calls of the kernel and of the pool.  `Expire` starts a
thread with a pointer to the settings; it reads `timer_func` and `arg` in two steps,
at any time later, whatever has happened to the block.  An application uses only ids
that it got and has not given up (`owned`), and two applications never the same id
at a time.  `leaked`, `meant` and `stale` are histories: kernel timers whose block
was freed without them, the setting a callback was started for, and whether that
timer was given up since.

`SyncMng` (em_mtxmng.c, em_semmng.c, the event manager of em_eventflag.c).  One
registry, of the kind `kind`.  Objects are blocks; `permits` is what the mutex or
semaphore in a block has to give.  Locking is looking up, acquiring and setting
`islock`, unlocking is clearing it and releasing, each a step; deleting is destroying
and freeing the block.  Any thread may delete what others hold or wait for: pthreads
refuse to destroy a mutex that is held, POSIX semaphores do not, and in either case the
block is freed.  `torn` marks objects this happened to; of them nothing is promised.

`Command` (em_command.c).  Lines are short sequences of words.  The console reads
lines (a typed line, a timeout, or the end of the input), the background loop takes
them from the queue, and a third thread has lines executed (an MQTT callback, as in
system_sample02.c).  `is_running` is written by `em_cmd_start` and `em_cmd_stop` and
read by both loops, without a lock.

`SysSample` (em_system.c, system_sample01.c, system_sample02.c).  `main` creates the
managers in the order of the code, starts three tasks, waits, joins and destroys.  Each
manager is alive or not; each task is at one of the points where it calls a manager.
Timers fire and their callbacks run at any time, also after the timer is deleted
(`late`).  The two programs differ in what they wait for, what they join, how `App2`
works and whether there are MQTT clients; the differences are conditions on `program`.

`ListMng`, `OAlloc`, `TimeCalc`, `GeoJson` are sequential.  In `TimeCalc` the clock is
a number of half milliseconds, so that truncation shows, and may be set at any time;
an int has `IntWord` values.  In `GeoJson` a piece of text is a name and a length, and
every call of snprintf is one `Snprintf`.

`MempoolProofs`, `MsgQueueProofs`, `DataMngProofs` and `TaskMngProofs` hold the theorems
about the module they are named after; `LibraryProofs`, `TransferProofs` and
`SystemProofs` those about the components that `MCLibrary`, `MCTransfer` and `MCSystem`
instantiate, the heap among those of `MCTransfer`; `CommonLemmas` what several of them
need: counting threads at a label, the operators of `Pools` and `KeyedBlocks`, the places
of a ring, doubly linked lists.  `MC*` modules instantiate.  Operators whose name has an
underscore and a commented "Mutant" are wrong versions of the definition that follows;
putting one in its place makes a run fail, as `PROJECT.json` lists under "mutants".

`MCLibrary`, `MCTransfer` and `MCSystem` hold several components that share no state.
A variable `part`, chosen at the start and never changed, says which of them runs;
the others keep one initial state.  So the number of states is the sum and not the
product of theirs, and a property of one part says nothing of the others: they rest in
an initial state, in which it holds.  `Ended` stands for the ends a part can come to,
so that deadlock stays checked everywhere else: a program that has crashed, `main`
halted or waiting for ever, a feature that is printed, threads of `SyncMng` waiting for
semaphores nobody posts.

`Recreate` (in `EventFlag`, `ListMng`, `SyncMng`, `Command`, `MqttConnect` and `Http`)
is the component's destruction followed by its initialisation for the next use.  It is
taken only when no call is under way, as the callers must see to; what the new
initialisation does not set (`islock`, `sub_callback`) keeps an old or any value.

## 3. The runs

| run | instance | question |
|---|---|---|
| pool | 2 threads, 3 blocks | accounting, arrays inverse, sound lookups, implements `BlockPool`, no sleep beside a free block |
| pool_lookup (violation) | 2 threads, 2 blocks | a live block is found |
| queue | 3 threads, 2 slots, 2 messages | accounting, fatal branches unreachable, ring shape, implements `BoundedFifo`, no sleep without reason |
| heap_overlap (violation) | 4 units, exact fits anywhere | free memory is not held |
| heap_no_timeout (violation) | 2 threads, 2 units | waiting without a timeout |
| ring_odd (violation) | 3 slots | newest and oldest, for a number of slots that is not a power of two |
| data | 2 threads, 3 keys, 2 data, 2 blocks, three modes | one block per key, pointers and pairs stay good, searches answer what is stored, implements `KeyedMap` |
| tasks | 2 applications, 3 ids, 2 blocks, 2 threads, queues of 1 | start semaphore, registry, own id, messages reach their task |
| task_start (violation) | 1 application, 2 ids, 2 blocks, 2 threads | a thread that runs is named by its taskinfo |
| library | timers: 2 applications, 1 callback, 2 settings, 2 blocks, 3 kernel timers; registry: 3 threads, 2 objects; list of 3; areas of 0, 7 and 9 bytes in units of 1 and 4; 12 clock readings, an int of 14 bits; 19 sizes of buffer | timers, blocks and kernel timers belong together, a callback calls its own function; permits and blocks of a registry add up; a list is a sequence; allocations are disjoint; times are exact; text is complete |
| transfer | heap: 2 threads, 5 units, 3 records per pool, requests of 0, 1 and 3 bytes; ring and upload of 4 slots and 6 records; 3 HTTP requests, buffer of 2; 4 sockets, 1 worker, 3 descriptors | list of the heap in address order, pieces disjoint, records suffice, reported size, no wake-up lost; order of a ring, records sent or queued, replies, descriptors, what is left behind |
| system | 3 threads and 2 flags; 1 handler; 2 commands, 2 asynchronous lines, a queue of 2; both system programs | no wake-up lost, waiters answered, timeouts kept; connect; commands; life of the managers; end of the program |

Each component's structural invariants are one property with named parts (`PoolSound`,
`QueueSound`, `HeapSound`, `DataSound`, `Registered`, `TimersSound`, `ReadsInOrder`,
`ResourcesAccounted`), so that a counterexample names the part and the list of
properties stays one per question.

Why the bounds are enough.  In the pool one thread stands between the stores of a
free while the other looks up, allocates or frees; three blocks are the least for
which a free moves a block that is neither the freed one nor the only other one.
In the queue three threads let one hold the mutex, one stand between semaphore and
mutex, and one sleep; more threads only repeat these roles, and the theorems of
section 4 cover any number.  In the heap two threads do: one that has found no memory
and is anywhere on its way to sleep, and one that frees.  A ring of two
slots wraps at different times on both sides.  Five units with three records
produce all four joins, splits of every remainder, exhaustion of memory before
records and of records before memory.  Three keys over two blocks, like three task
ids, exhaust the pool while one entry can still be added in place of another, and
let a removal move a block; two applications race for the last block, and take
each other's post.  Queues of one message are full after one.  Two blocks of timers
let one block be deleted and reused while a callback still reads it; callbacks touch
nothing that another reads, so one is enough, and a third kernel timer leaves one to
create when another has been left behind.  In a registry one thread holds, one waits and
one deletes; its second object takes the block of the first.  A list of three has a
first, a middle and a last item.  The areas, units and requests are multiples of each
other and not; the clock readings lie around every second and around the overflow of an
int of 14 bits, where 32 behave alike; the buffers have every size at which some piece
just fits or just does not.  Six records fill a ring of four and go once round; three
requests let one fail, one follow it and one use what both left.  Three descriptors are
fewer than the sockets, so that one closed is opened for another at once.  Two
queued commands show their order and fill a queue of two, and a third, from the thread
that was already executing a line, is turned away.

Bounds of the models: `MaxUsed` caps `mem_used_bsize`, which grows without bound
when allocations fail for lack of a record; `MaxCount` caps the count of a key
added again and again; `MaxRecords`, `MaxRequests`, `MaxHeaders`, `MaxAsync`, `QueueLen`
and `MaxValue` cap records, requests, headers, queued lines, messages and initial values.
`Beyond` says whether an exact fit in front of another piece is explored.  After such a
fit the list is broken (see section 6), so the run transfer sets it to FALSE and
examines everything else; `misfit` records that it has happened.  `Word` is 65536: the
arithmetic is the same for every power of two.  Deadlock checking is off for the pool
and the queue, where every thread may rightly sleep; it is on everywhere else.  In the
heap `Quiet` lets the model end, when `MaxUsed` stops it, with both mutexes free; a
deadlock of the two would be found.

`HeapView` leaves out which record of a pool a piece got and what a record not in
use last held.  Two states with the same view have the same successors up to that
choice as long as every link leads to a live record; links that lead elsewhere
show in the view, so no state with one is taken for another.

Symmetry is used in transfer (threads of the heap), ring_odd, data, tasks and library, none of which has a
liveness property; threads, records, keys, data and ids are compared only for equality
there.  In library the configuration gives the users of a registry the same values as the
kernel's timers, and the data of a list those of the settings of a timer: no part has
both, and one permutation serves two parts.

Fairness: in `Mempool` and `MsgQueue` (`FairSpec`) weak fairness of every step of a
call already under way, as the scheduler runs every thread that can run, a lock
that is free is eventually obtained and a posted semaphore eventually wakes a
sleeper.  In `EventFlag` weak fairness of each thread's steps and of the passing of
its deadline; in `MqttConnect` of the owner's steps and its deadline, not of the broker
or the library; in `Command` of the two loops, where reading the console returns
because it has a time limit; in `SysSample` of every thread, of timers that run and of
their callbacks.  Nobody is obliged to call, to type or to send; spurious wake-ups and,
in pool and queue, timeouts need never happen.  The liveness properties of pool and
queue speak of systems in which the other threads have fallen silent, so they do not
depend on the order in which semaphores serve their sleepers.

## 4. Proofs

TLAPS proves, for every value of the constants that the assumptions admit, all safety
properties of the passing runs and the three refinements.

| module | theorem | states |
|---|---|---|
| `MempoolProofs` | `PoolTypeCorrect`, `PoolAccounts`, `PoolNeverOverruns`, `PoolIndexInverse`, together `PoolSoundness` | `PoolSound` |
| | `PoolLookupSound` | `LookupSound` |
| | `PoolImplementsBlockPool` | `ImplementsBlockPool` |
| `MsgQueueProofs` | `QueueTypeCorrect`, `QueueClaimsAccounted`, `QueueNeverFatal`, `QueueRingShape`, together `QueueSoundness` | `QueueSound` |
| | `QueueImplementsFifo` | `ImplementsBoundedFifo` |
| `DataMngProofs` | `TablesSound`, `PointersStay`, `PairsBelong` | `DataSound`, `PointerKept`, `PairBelongsTogether` |
| | `DataImplementsMap` | `ImplementsKeyedMap` |
| `TaskMngProofs` | `TasksStayRegistered`, `OwnIdIsFound`, `MessagesStayOwn` | `Registered`, `OwnIdFound`, `MessagesAreOwn` |
| `LibraryProofs` | `TimersStaySound`, `CallbacksCallTheirOwn` | `TimersSound`, `CallbackCallsOwn` |
| | `PermitsStayAccounted`, `BlocksStayAccounted` | `PermitsAccounted`, `BlocksAccounted` |
| | `AllocationsNeverOverlap` | `AllocationsDisjoint` |
| | `TimesAlwaysExact`, `DeadlineNormal` | `TimesExact` |
| | `ListsAreSequences` | `ListIsSequence` |
| | `TextIsComplete` | `TextComplete` |
| `SystemProofs` | `NoLostWakeup` | `SleepersUnserved` |
| | `ConnectNeverLies` | `ConnectReported` |
| | `LinesTakenInTurn` | `AsyncInOrder` |
| | `ManagersAliveWhenUsed` | `AliveWhenUsed` |
| | `SystemTypes` | `Types` |
| `TransferProofs` | `HeapSoundBeforeMisfit`, `HeapStaysSound`, `SleepersAreWoken` | `HeapSound`, `SleepersCannotBeServed` |
| | `OldestComesFirst`, `RingReadInOrder` | `OldestFirst`, `ReadsInOrder` |
| | `RecordsSentOrQueued` | `SentOrQueued` |
| | `RepliesAreOwn`, `DescriptorsAreOwn` | `ReplyIsOwn`, `OwnDescriptor` |
| | `NothingElseLeaks` | `ResourcesAccounted` |

The assumptions are named in the module that declares the constants, and TLC evaluates
them on the instances: a pool has a block and a queue a slot (`PoolAssumption`,
`QueueAssumption`, `DataAssumption`, `TaskAssumption`, `TimerAssumption`); threads,
applications and users are finite sets where they are counted; `NoThread`, `NoTid` and
the like are none of what they stand beside; sizes, capacities and bounds are natural
numbers, a unit has bytes, a printed piece of text has characters (its quotes, colon or
comma at least), the clock is not before 1970 (`LibraryAssumption`,
`TransferAssumption`, `SystemAssumption`); a call names at least one flag
(`MasksAssumption`).  Two hypotheses the code does not see to, and without them the
statements are false.  `RingReadInOrder` wants the number of slots to divide the range of
an unsigned int (run ring_odd shows why); the half that `em_ring_get_dataptr_tail` is
about, `OldestComesFirst`, needs no such hypothesis.  `HeapStaysSound` and
`SleepersAreWoken` are about executions in which no exact fit is made in front of another
piece (`~Beyond`; run heap_overlap shows why); `HeapSoundBeforeMisfit` says the same of
every execution up to the first such fit.

A module that composes parts has one lemma that says which invariants hold at the start
(`StartsAll`) and one that a step is a step of one part and a stutter of the others
(`StepsAll`); `LibraryProofs` does this for each part (`TimersRun`,
`SyncRun`, `AreaRun`, `ClockRun`, `ListRun`, `JsonRun`).

*Pool.*  None of the properties is inductive alone.  `MutexHeld` (whoever is
between lock and unlock owns the mutex) makes the moving thread unique.  `Arrays`
says what is true in the middle of a free: the entries of the freed and of the
moved block are the two out of order, and which of them each store has already put
right (`Hole`); outside it says that `block_ptr` and `index_ptr` are inverse.
`LookupInRange` keeps the unlocked read inside the array.  `SemAccounting` is
inductive given types, by counting how many threads a step moves into or out of a
set of labels, and bounds the semaphore.  Types need the range facts, and the range
facts need the arrays, which is why they are proved together.

*Lookup.*  On top of that invariant, `LookupInv`: a block that a lookup has not seen
live lies behind the blocks in use, no free is moving it, and what the lookup has
already read of `index_ptr` is still true and of `num_used` not beyond it
(`Untouched`).  Every store of every other thread preserves this, so the
comparison, made of two values read at different times, fails.

*Pool as a set of blocks.*  `Live` is the blocks in front of `num_used`, with the one a
free is moving and without the one it frees.  `CallsPending` says which calls have no
outcome yet.  A free takes effect at its first store; at the others `LiveMoving` and
`LiveKept` show that the set stays the same although the array in which it is read is out
of order, and `FrontGrows` that an allocation adds the one block behind the front.

*Queue.*  `IInv` is `TypeBase`, `MutexHeld`, `Window`, `Accounts`, `NeverFatal`.
They depend on each other: that a ring is not full at the store needs the count of
slots, which holds only as long as each critical section finds the ring as its
semaphore promised; that the two semaphores stay within `num_max` follows from both
counts; `Window` (head is tail plus `num_used` modulo `num_max`) needs the ring
never to overrun.

*Queue as a sequence.*  The messages are the slots from `tail_ptr` on, `num_used` of
them (`WindowedIs`).  A store at the head appends one (`StoreAppends`), a fetch at the
tail takes the first (`TakeIsHead`), wrapped or not, because `Window` ties the two
pointers; `CallsOK` keeps the message and outcome of each call under way.

*Keyed data.*  `DInv`.  Types do not carry themselves through a removal, which lowers a
count that must not be zero; counts above zero need each key in one block
(`OneBlockPerKey`), and that needs what an addition found out before it took its block
(`Working`).  Between the two steps of a removal the pool is read as it was before
(`Whole`).  The map is what the blocks in use hold, a block being filled excepted; each
addition and removal takes effect at one of its two steps.

*Tasks.*  `TaskInv` is eight parts: the registry (`RegistryOK`), types, which task an
application is creating or deleting, so that no other does (`ClaimsOK`), where a thread
is in its life and who joins it (`ThreadsOK`), what a block holds at each step of its
creation and deletion (`BlocksOK`), what the pointers taken without a lock still lead to
(`PointersOK`), the messages, and the sum of posts and waiting threads
(`StartsAccounted`).  The properties rest on `PointersOK` and `MessagesOK`, these on the
blocks, the blocks on the threads, and these on the claims.  `OwnIdFound` needs both ways
between threads and blocks: the taskinfo of an `Announced` task names the thread that runs
it (`AnnouncedNames`, `AnnouncedHas`), and no two of them name the same one, as a thread
runs one task; so the first block a search finds may be another's only if that task is half
created or half deleted (`OwnIdIs`).

*Timers.*  `TimersInv`: for every block on its way from `PoolAlloc` to `PoolFree`, whose
it is, whether the kernel has a timer for it yet, and that no other block has that one;
and for a callback, that the setting it was started for is still in its block unless it
is `stale`.  *Registries.*  `SyncInv`: an object nobody has deleted has a block of its
own (`SyncBlocks`), whose permits and holders add up (`PermitsOf`); a block that is being
freed is no other thread's to free.

*Allocator.*  All allocations end in front of `next_alloc_index` (`AreaBehindFront`), which
keeps a new one clear of them, and the units never exceed the area (`AreaFront`);
`UnitsSuffice` is the rounding up.  *Time.*  A carry of one second is enough for a sum
(`SumExact`), a borrow of one for a difference (`DifferenceExact`).

*List.*  `ListInv`: there is a sequence of items, without repetition, that `next` and `back`
follow in both directions, that holds the expected data in order and has just the items in
use (`Chained`).  An addition makes it longer (`ListAdd`), a removal at any position shorter
(`ListRemove`).  The property itself is about walking, a recursive function; that
`k` steps from either end arrive at the item `k` places from there is `ForwardReaches` and
`BackwardReaches`.  *Text.*  `Printed` says what has been written once given pieces have
been asked for: all of them if they fit together, and nothing that counts from the first
that does not.  One `snprintf` keeps it (`PrintedAppends`), and it is carried along the
elements, of which there may be any number (`ObjWalk`), to the bracket that takes the place
of the last comma (`LastReplaced`).  `JsonInv` says so of the whole feature.

Both are about recursive functions on data of any length, and the induction theorems of the
prover's library cannot be used for that.  In their place, `IntervalInduction`
(`CommonLemmas`) takes the numbers up to a bound for which the claim holds as a set and looks
at the least one outside it.  With it follows first that a function with the recursive
equations exists and is the only one (`ForwardReaches`, `LengthWalk`, `SeparatedWalk`,
`ObjWalk`), and then what its values are.

*Heap.*  `HeapInv` is six parts.  `HeapOver`: the pieces in use of both pools form a
`Chain`, linked both ways in the order they lie in, without hole, the marks are right and
no two free ones are neighbours (`Listed`).  That a piece lies where its neighbours say and
nowhere else (`ChainLinks`) makes it possible to argue about the whole list from the fields
of the two or three records a step writes: a split puts a piece in front of another
(`ChainSplit`), an exact fit replaces one (`ChainReplace`), a join gives one the room of its
neighbour (`ChainJoinNext`, `ChainJoinBack`), and the operators of the model come down to
these (`CarveKeeps`, `JoinKeeps`).  An exact fit in front of another piece does not: its
neighbour keeps a wrong link, so everything is claimed `~misfit`.  `HeapClaims`: a piece
that is held or on its way into `em_free` is a used one, found by its address, and one
caller's only.  `HeapUnits`: the reported size is the number of units covered by used pieces
plus what failed allocations lost.  That a freed piece between two used ones finds a record
follows from counting: the free pieces in the list are then fewer than the used ones,
which are at most `alloc_max_num` (`HeapHasRecords`).  `HeapWaits`: a thread that waits or
is about to cannot be served, unless some thread is about to broadcast.  Only a free can
make a request servable, and it holds `mutex` from there until after the broadcast;
`HeapLocks` says that a thread keeps `mutex` until it has `cond_mutex` and that until it
sleeps, so no free and no broadcast comes in between.

*Event flag.*  A thread asleep has looked at the flags after the last `Set` woke it,
and the other steps only take flags away.

*MQTT client.*  `YesIsConnected` ties `is_connected` to the history of the callbacks, and
`AnnouncedAfterCall` says that neither a thread about to broadcast nor an owner woken
by it is ahead of a callback.

*Commands.*  `LinesInOrder` runs the history of posted lines through their places: those
executed, the one the background loop has taken, those in the queue, in this order.
*System programs.*  `SampleInv`: how far `main` is in the two orders says which managers
are alive (`Created`) and where tasks can be (`TasksFollowMain`).

*Ring and upload.*  `RingInv`: the queued records are the last ones added, from
`tail_ptr` on, and a slot being filled is the one behind them.  On it stands `UploadInv`:
the queue holds the last records made and those before it were sent or are known to be
lost (`InOrder`); a request carries queued records from the oldest on and `sendbuf` still
points to them (`Carried`); a slot's buffer is allocated while its record waits or is being
collected, if no record has been added too late (`Allocated`).
*HTTP.*  `HttpInv`: the buffer holds the reply of the request under way from its beginning
(`Buffered`), and requests that failed came before that one (`Before`).
*Sockets.*  `SocketInv`: a socket that its owner is not done with has its descriptor and
no other has it (`Held`), every other open descriptor was left behind (`NoneLost`), and a
call whose socket was not closed under it finds it open (`Underway`).

Only model-checked: the liveness properties (`SleepsOnlyOnFullPool`, `SleepsOnlyWithReason`,
`WaitersAnswered`, `TimedWaitsReturn`, `TimedConnectReturns`, `StopEndsLoops`, `Halts`),
which rest on fairness and so on `ENABLED`, out of the prover's reach; and the five
properties that the runs of section 6 find violated, which are not true.

## 5. Not modelled, and the plan

Still to come: destroying a manager while calls are under way, beyond what `SysSample`
says of it.

Left out for good: `em_print` and `em_cmndefs.h`, reading GeoJSON, the splitting of a
line into words, the MQTT and HTTP protocols, addresses and the bytes of a transfer.
They are formatting or other libraries' work, and no state of this one depends on them.

Left out of the models so far: destroying a pool, queue, heap, keyed table, or the
task or timer manager as a whole, interruption of a wait by a signal handler, a free of
an address the caller does not hold, tasks without messages (`msgdata_size` not
positive), creating a task id that exists or deleting one that does not,
`em_gdatamng_get_key`.  These are calls that give a component up, or that the code leaves undefined; in a program that
ends in order (`SysSample`) nobody uses the component any more.

## 6. Disagreements found

With a run of their own:

* `em_mempool.c:195`: a lookup of a live block can answer NULL ("invalid index")
  while another block is being freed (run pool_lookup).
* `em_malloc.c:202-206`: an exact fit in front of another piece does not set that
  piece's `back_meminfo`; freeing it later joins memory into a stale record, and
  free memory overlaps held memory (run heap_overlap).
* `em_malloc.c:284`: `EM_NO_TIMEOUT` gives up at the first wake-up (run
  heap_no_timeout).
* `em_ringbuf.c:119`: with a number of slots that is not a power of two, reading
  back from the newest record across slot 0 names another record (run ring_odd).
* `em_task.c:42,44,187`: the wait that is to synchronise the start of a thread is on one
  semaphore for all; the post of one creation may start the thread of another, whose own
  record does not name it yet, so that it cannot find its own id (run task_start).

Seen while modelling, and part of what the models say:

* `em_malloc.c:188`: the size of an allocation that fails for lack of a record
  stays counted; `UsedSizeExact` says by how much (`lost`).
* `em_task.c:100,241`: a task that is being created, or whose thread has been joined, may
  name another's thread by accident, and that thread then takes its id for its own
  (`misled`); `OwnIdFound` says that no other task ever passes for its own.
* `em_task.c:239,275`: a sender that has found a queue may use it after the queue is
  destroyed, or after its block belongs to another task (`stale`, `raced`).
* `em_gdatamng.c:290`: `em_gdatamng_get_key` takes the place in `block_ptr` for the
  block; the mutant `KeyByFunc_Place` shows what that does to a search.
* `em_timer.c:145`: a refused change of the interval frees the block of a timer that
  goes on running and calls whatever the block is used for next (`leaked`, `stale`);
  `em_timer.c:94` frees the block at a refused first interval and leaves the timer in
  the kernel.
* `em_mqttc.c:179`: the broadcast may come before the wait; a connect without a timeout
  then sleeps although it is connected (`TimedConnectReturns` speaks of timed ones only).
  `em_mqttc.c:90`: `sub_callback` is read twice, and unsubscribing between calls NULL.
* `em_command.c:163`: a stop before `em_cmd_start` is forgotten.  `em_command.c:199`:
  a stop leaves what is still queued unexecuted.
* `em_upload.c:116`: adding the record that fills the ring asks for a slot of a full
  ring, gets NULL and initialises it.  `em_upload.c:170`: records added during a request
  that succeeds are dropped unsent, and buffers of records sent before, or a wild
  pointer, destroyed in their place.  `em_upload.c:84,118` pass version and type in the
  order in which `em_uldata_init` (31) does not take them.
* `em_mtxmng.c:61`: the mutex a lookup has missed, which it may while another block is
  freed, is destroyed as a null pointer.  `em_semmng.c:51`: the block of a semaphore
  that cannot be initialised is not given back.
* `em_httpc.c:87,104`: options and headers are set on the handle of the last request,
  which no later one uses and which may be cleaned up or not set at all; `em_httpc.c:137`
  and its like leave the handle of a failed request with libcurl.
* `em_ether.c:117`: a destination that is refused leaves the bound socket open.
* `em_system.c:49`: the pool of timers is sized by the number of mutexes.
* `src/sample/system_sample01.c:357`: `main` waits while `b_shutdown` is set, not until;
  it joins at once, and waits for ever if the flag is set before.  Sample 02 neither joins
  the command task nor stops the MQTT threads before it destroys what they use.
