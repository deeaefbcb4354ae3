------------------------------ MODULE Mempool ------------------------------
(***************************************************************************)
(* em_mempool.c: a pool of num_max blocks shared by threads.  block_ptr is *)
(* a permutation of the blocks whose first num_used entries are in use;    *)
(* index_ptr is meant to be its inverse and data_ptr its mirror.  A        *)
(* counting semaphore holds back allocations, a mutex guards the arrays,   *)
(* and em_mpool_get_dataptr reads them without it.                         *)
(*                                                                         *)
(* A block is its data index (0 .. num_max-1): its address is rawdata plus *)
(* a multiple of the index, so block[i].index, block[i].data_ptr and the   *)
(* pointers to block[i] are all the number i.  Ids are global (em_mtxmng,  *)
(* em_timer hand them out), so any thread may free or look up any index.   *)
(***************************************************************************)
EXTENDS Integers, FiniteSets

CONSTANTS Threads,   \* the threads that share the pool
          num_max,   \* the number of blocks
          NoThread   \* the owner of a mutex nobody holds

ASSUME PoolAssumption == /\ num_max \in Nat \ {0}
                         /\ IsFiniteSet(Threads)
                         /\ NoThread \notin Threads

Blocks == 0 .. num_max - 1
Unread == -1

VARIABLES
  num_used, block_ptr, index_ptr, data_ptr,  \* em_mpool_t
  sem,        \* value of mp->sem
  mutex,      \* owner of mp->mutex
  pc,         \* what each thread is about to do
  data_idx,   \* the argument of its free or lookup
  del,        \* del_search_index
  swap,       \* swap_offset
  seenIndex, seenUsed,  \* what a lookup has read of index_ptr and num_used
  ret,        \* outcome of the call under way, once decided
  steady,     \* history: the looked up block was live all through the lookup
  touched     \* history: it was live, or being freed, at some moment of it

shared  == <<num_used, block_ptr, index_ptr, data_ptr>>
frees   == <<del, swap>>
lookups == <<seenIndex, seenUsed, steady, touched>>
vars == <<shared, sem, mutex, pc, data_idx, frees, lookups, ret>>

Outcome(kind, bs) == [kind |-> kind, blocks |-> bs]
Pending == Outcome("pending", {})
Decide(t, kind, bs) == ret' = [ret EXCEPT ![t] = Outcome(kind, bs)]
Goto(t, l) == pc' = [pc EXCEPT ![t] = l]

\* The call returns: its locals are gone.
Leave(t) == /\ pc' = [pc EXCEPT ![t] = "idle"]
            /\ data_idx' = [data_idx EXCEPT ![t] = 0]
            /\ del' = [del EXCEPT ![t] = 0]
            /\ swap' = [swap EXCEPT ![t] = 0]
            /\ seenIndex' = [seenIndex EXCEPT ![t] = Unread]
            /\ seenUsed' = [seenUsed EXCEPT ![t] = Unread]
            /\ ret' = [ret EXCEPT ![t] = Pending]
            /\ steady' = [steady EXCEPT ![t] = FALSE]
            /\ touched' = [touched EXCEPT ![t] = FALSE]

\* Threads between the store of num_used and the stores of block_ptr.
Swapping == {t \in Threads : pc[t] \in {"free_swap", "free_del", "free_ptrs"}}

\* The blocks in use.  While a free is moving the last block into the hole
\* the array names the wrong block: the moved one is live, the freed one not.
Live == ({block_ptr[i] : i \in 0 .. num_used - 1} \cup {swap[t] : t \in Swapping})
          \ {data_idx[t] : t \in Swapping}

Init == /\ num_used = 0
        /\ block_ptr = [i \in Blocks |-> i]
        /\ index_ptr = [i \in Blocks |-> i]
        /\ data_ptr  = [i \in Blocks |-> i]
        /\ sem = num_max
        /\ mutex = NoThread
        /\ pc = [t \in Threads |-> "idle"]
        /\ data_idx = [t \in Threads |-> 0]
        /\ del = [t \in Threads |-> 0]
        /\ swap = [t \in Threads |-> 0]
        /\ seenIndex = [t \in Threads |-> Unread]
        /\ seenUsed = [t \in Threads |-> Unread]
        /\ ret = [t \in Threads |-> Pending]
        /\ steady = [t \in Threads |-> FALSE]
        /\ touched = [t \in Threads |-> FALSE]

----------------------------------------------------------------------------
(* The mutex. *)

Lock(t)   == mutex = NoThread /\ mutex' = t
Unlock(t) == mutex' = NoThread

----------------------------------------------------------------------------
(* em_mpool_alloc_block.  em_sem_wait takes the semaphore at once when it   *)
(* can; otherwise the caller sleeps, for ever or until its timeout, which   *)
(* may strike even as a post arrives.                                       *)

AllocCall(t, timed) ==
  /\ pc[t] = "idle"
  /\ IF sem > 0
       THEN sem' = sem - 1 /\ Goto(t, "alloc_lock")
       ELSE UNCHANGED sem /\ Goto(t, IF timed THEN "sem_timedwait" ELSE "sem_wait")
  /\ UNCHANGED <<shared, mutex, data_idx, frees, lookups, ret>>

SemWake(t) ==
  /\ pc[t] \in {"sem_wait", "sem_timedwait"}
  /\ sem > 0
  /\ sem' = sem - 1
  /\ Goto(t, "alloc_lock")
  /\ UNCHANGED <<shared, mutex, data_idx, frees, lookups, ret>>

SemTimeout(t) ==
  /\ pc[t] = "sem_timedwait"
  /\ Decide(t, "failed", {})
  /\ Goto(t, "return")
  /\ UNCHANGED <<shared, sem, mutex, data_idx, frees, lookups>>

AllocLock(t) ==
  /\ pc[t] = "alloc_lock"
  /\ Lock(t)
  /\ Goto(t, "alloc_take")
  /\ UNCHANGED <<shared, sem, data_idx, frees, lookups, ret>>

\* _em_mpool_alloc_blockmng: on -1 the caller has kept its semaphore count.
\* A lookup of the block under way sees it live from here on.
AllocTake(t) ==
  /\ pc[t] = "alloc_take"
  /\ Goto(t, "alloc_unlock")
  /\ IF num_used >= num_max
       THEN Decide(t, "failed", {}) /\ UNCHANGED <<num_used, touched>>
       ELSE LET b == block_ptr[num_used] IN
            /\ num_used' = num_used + 1
            /\ Decide(t, "ok", {b})
            /\ touched' = [u \in Threads |-> touched[u] \/
                             (pc[u] = "lookup" /\ data_idx[u] = b)]
  /\ UNCHANGED <<block_ptr, index_ptr, data_ptr, sem, mutex, data_idx, frees,
                 seenIndex, seenUsed, steady>>

AllocUnlock(t) ==
  /\ pc[t] = "alloc_unlock"
  /\ Unlock(t)
  /\ Leave(t)
  /\ UNCHANGED <<shared, sem>>

----------------------------------------------------------------------------
(* em_mpool_free_block_by_dataidx, store by store. *)

FreeCall(t, idx) ==
  /\ pc[t] = "idle"
  /\ data_idx' = [data_idx EXCEPT ![t] = idx]
  /\ Goto(t, "free_lock")
  /\ UNCHANGED <<shared, sem, mutex, frees, lookups, ret>>

FreeLock(t) ==
  /\ pc[t] = "free_lock"
  /\ Lock(t)
  /\ Goto(t, "free_check")
  /\ UNCHANGED <<shared, sem, data_idx, frees, lookups, ret>>

NotInUse(idx) == idx < num_max => (num_used = 0 \/ index_ptr[idx] >= num_used)

\* Mutant: a refused free posts the semaphore all the same.
FreeReject_Posts(t) ==
  /\ pc[t] = "free_check"
  /\ NotInUse(data_idx[t])
  /\ Decide(t, "failed", {})
  /\ Unlock(t)
  /\ Goto(t, "return")
  /\ sem' = sem + 1
  /\ UNCHANGED <<shared, data_idx, frees, lookups>>

FreeReject(t) ==
  /\ pc[t] = "free_check"
  /\ NotInUse(data_idx[t])
  /\ Decide(t, "failed", {})
  /\ Unlock(t)
  /\ Goto(t, "return")
  /\ UNCHANGED <<shared, sem, data_idx, frees, lookups>>

\* num_used-- : from here on the block no longer counts as live.
FreeTake(t) ==
  /\ pc[t] = "free_check"
  /\ ~NotInUse(data_idx[t])
  /\ num_used' = num_used - 1
  /\ del' = [del EXCEPT ![t] = index_ptr[data_idx[t]]]
  /\ swap' = [swap EXCEPT ![t] = block_ptr[num_used - 1]]
  /\ Decide(t, "ok", {data_idx[t]})
  /\ steady' = [u \in Threads |-> steady[u] /\ data_idx[u] # data_idx[t]]
  /\ Goto(t, "free_swap")
  /\ UNCHANGED <<block_ptr, index_ptr, data_ptr, sem, mutex, data_idx,
                 seenIndex, seenUsed, touched>>

FreeSwap(t) ==
  /\ pc[t] = "free_swap"
  /\ index_ptr' = [index_ptr EXCEPT ![swap[t]] = del[t]]
  /\ Goto(t, "free_del")
  /\ UNCHANGED <<num_used, block_ptr, data_ptr, sem, mutex, data_idx, frees, lookups, ret>>

\* Mutant: line 221 is missing.
FreeDel_Skipped(t) ==
  /\ pc[t] = "free_del"
  /\ Goto(t, "free_ptrs")
  /\ UNCHANGED <<shared, sem, mutex, data_idx, frees, lookups, ret>>

FreeDel(t) ==
  /\ pc[t] = "free_del"
  /\ index_ptr' = [index_ptr EXCEPT ![data_idx[t]] = num_used]
  /\ Goto(t, "free_ptrs")
  /\ UNCHANGED <<num_used, block_ptr, data_ptr, sem, mutex, data_idx, frees, lookups, ret>>

\* Mutant: the hole is not filled (line 222 is missing).
FreePtrs_HoleKept(t) ==
  /\ pc[t] = "free_ptrs"
  /\ block_ptr' = [block_ptr EXCEPT ![num_used] = data_idx[t]]
  /\ data_ptr'  = [data_ptr  EXCEPT ![del[t]] = swap[t], ![num_used] = data_idx[t]]
  /\ Goto(t, "free_unlock")
  /\ UNCHANGED <<num_used, index_ptr, sem, mutex, data_idx, frees, lookups, ret>>

FreePtrs(t) ==
  /\ pc[t] = "free_ptrs"
  /\ block_ptr' = [block_ptr EXCEPT ![del[t]] = swap[t], ![num_used] = data_idx[t]]
  /\ data_ptr'  = [data_ptr  EXCEPT ![del[t]] = swap[t], ![num_used] = data_idx[t]]
  /\ Goto(t, "free_unlock")
  /\ UNCHANGED <<num_used, index_ptr, sem, mutex, data_idx, frees, lookups, ret>>

FreeUnlock(t) ==
  /\ pc[t] = "free_unlock"
  /\ Unlock(t)
  /\ Goto(t, "free_post")
  /\ UNCHANGED <<shared, sem, data_idx, frees, lookups, ret>>

\* Mutant: the post is forgotten.
FreePost_Forgotten(t) ==
  /\ pc[t] = "free_post"
  /\ Leave(t)
  /\ UNCHANGED <<shared, sem, mutex>>

\* Mutant: posted twice.
FreePost_Twice(t) ==
  /\ pc[t] = "free_post"
  /\ sem' = sem + 2
  /\ Leave(t)
  /\ UNCHANGED <<shared, mutex>>

FreePost(t) ==
  /\ pc[t] = "free_post"
  /\ sem' = sem + 1
  /\ Leave(t)
  /\ UNCHANGED <<shared, mutex>>

----------------------------------------------------------------------------
(* em_mpool_get_dataptr: no lock.  C does not order the two operands of     *)
(* the comparison, so the reads may happen in either order.                 *)

LookupCall(t, idx) ==
  /\ pc[t] = "idle"
  /\ data_idx' = [data_idx EXCEPT ![t] = idx]
  /\ Goto(t, IF idx >= num_max THEN "missing" ELSE "lookup")
  /\ steady'  = [steady  EXCEPT ![t] = idx \in Live]
  /\ touched' = [touched EXCEPT ![t] = idx \in Live \cup {data_idx[u] : u \in Swapping}]
  /\ UNCHANGED <<shared, sem, mutex, frees, seenIndex, seenUsed, ret>>

LookupIndex(t) ==
  /\ pc[t] = "lookup" /\ seenIndex[t] = Unread
  /\ seenIndex' = [seenIndex EXCEPT ![t] = index_ptr[data_idx[t]]]
  /\ UNCHANGED <<shared, sem, mutex, pc, data_idx, frees, seenUsed, steady, touched, ret>>

LookupUsed(t) ==
  /\ pc[t] = "lookup" /\ seenUsed[t] = Unread
  /\ seenUsed' = [seenUsed EXCEPT ![t] = num_used]
  /\ UNCHANGED <<shared, sem, mutex, pc, data_idx, frees, seenIndex, steady, touched, ret>>

\* Mutant: an index one past the used ones is accepted.
LookupTest_OffByOne(t) ==
  /\ pc[t] = "lookup" /\ seenIndex[t] # Unread /\ seenUsed[t] # Unread
  /\ Goto(t, IF seenIndex[t] > seenUsed[t] THEN "missing" ELSE "found")
  /\ UNCHANGED <<shared, sem, mutex, data_idx, frees, lookups, ret>>

LookupTest(t) ==
  /\ pc[t] = "lookup" /\ seenIndex[t] # Unread /\ seenUsed[t] # Unread
  /\ Goto(t, IF seenIndex[t] >= seenUsed[t] THEN "missing" ELSE "found")
  /\ UNCHANGED <<shared, sem, mutex, data_idx, frees, lookups, ret>>

\* Every call that has nothing left to do.
Return(t) ==
  /\ pc[t] \in {"found", "missing", "return"}
  /\ Leave(t)
  /\ UNCHANGED <<shared, sem, mutex>>

----------------------------------------------------------------------------
(* em_mpool_get_dataidx_array / em_mpool_get_dataptr_array: reads only,     *)
(* all of them under the lock.                                              *)
List(t) ==
  /\ pc[t] = "idle"
  /\ mutex = NoThread
  /\ Decide(t, "ok", {block_ptr[i] : i \in 0 .. num_used - 1})
  /\ Goto(t, "return")
  /\ UNCHANGED <<shared, sem, mutex, data_idx, frees, lookups>>

----------------------------------------------------------------------------
Call(t) == \/ \E timed \in BOOLEAN : AllocCall(t, timed)
           \/ \E idx \in 0 .. num_max : FreeCall(t, idx) \/ LookupCall(t, idx)
           \/ List(t)

\* A step of a call under way; timeouts are not among them.
Step(t) == \/ SemWake(t) \/ AllocLock(t) \/ AllocTake(t) \/ AllocUnlock(t)
           \/ FreeLock(t) \/ FreeReject(t) \/ FreeTake(t) \/ FreeSwap(t)
           \/ FreeDel(t) \/ FreePtrs(t) \/ FreeUnlock(t) \/ FreePost(t)
           \/ LookupIndex(t) \/ LookupUsed(t) \/ LookupTest(t) \/ Return(t)

Next == \E t \in Threads : Call(t) \/ Step(t) \/ SemTimeout(t)

Spec == Init /\ [][Next]_vars

\* The scheduler runs every thread; nobody is obliged to call or to time out.
FairSpec == Spec /\ \A t \in Threads : WF_vars(Step(t))

----------------------------------------------------------------------------
(* Properties. *)

Labels == {"idle", "sem_wait", "sem_timedwait", "alloc_lock", "alloc_take",
           "alloc_unlock", "free_lock", "free_check", "free_swap", "free_del",
           "free_ptrs", "free_unlock", "free_post", "lookup", "found", "missing", "return"}

TypeOK == /\ num_used \in 0 .. num_max
          /\ block_ptr \in [Blocks -> Blocks]
          /\ index_ptr \in [Blocks -> Blocks]
          /\ data_ptr \in [Blocks -> Blocks]
          /\ sem \in 0 .. num_max
          /\ mutex \in Threads \cup {NoThread}
          /\ pc \in [Threads -> Labels]
          /\ data_idx \in [Threads -> 0 .. num_max]
          /\ del \in [Threads -> Blocks]
          /\ swap \in [Threads -> Blocks]
          /\ seenIndex \in [Threads -> Blocks \cup {Unread}]
          /\ seenUsed \in [Threads -> 0 .. num_max \cup {Unread}]
          /\ ret \in [Threads -> [kind : {"pending", "ok", "failed"}, blocks : SUBSET Blocks]]
          /\ steady \in [Threads -> BOOLEAN]
          /\ touched \in [Threads -> BOOLEAN]

\* Allocations that hold a count of the semaphore but no block yet.
Promised  == {t \in Threads : pc[t] \in {"alloc_lock", "alloc_take"}}
\* Frees that have given up their block but not yet the count.
Returning == {t \in Threads : pc[t] \in {"free_swap", "free_del", "free_ptrs",
                                        "free_unlock", "free_post"}}

\* No block and no semaphore count is lost or made twice, whatever interleaving
\* of allocations, timeouts, refused frees and frees (lines 165-230): the counts
\* left, the blocks in use and the calls in between add up to the pool.
SemAccounting == sem + num_used + Cardinality(Promised) + Cardinality(Returning) = num_max

\* The -1 of _em_mpool_alloc_blockmng, which would lose a semaphore count for
\* good (lines 154, 175), never happens behind the semaphore.
AllocNeverOverruns == \A t \in Threads : pc[t] = "alloc_take" => num_used < num_max

\* Outside the few stores of a free, index_ptr is the inverse of block_ptr and
\* data_ptr its mirror, so no block is in two places and none is lost (215-225).
IndexInverse ==
  Swapping = {} => /\ \A b \in Blocks : block_ptr[index_ptr[b]] = b
                   /\ \A i \in Blocks : index_ptr[block_ptr[i]] = i
                   /\ data_ptr = block_ptr

\* A lookup that hands out a pointer (201) does so for a block that was live, or
\* whose free was not finished, at some moment of the lookup - never one that
\* was free all along - although it reads two variables without the lock.
LookupSound == \A t \in Threads : pc[t] = "found" => touched[t]

\* What em_mtxmng_lock and em_timer_delete rely on: a block that is live from
\* the start of the lookup to its end is found ("invalid index", line 197, is
\* said only of an index that is not in use).
LookupComplete == \A t \in Threads : pc[t] = "missing" => ~steady[t]

\* When every other thread has fallen silent for good, an allocation still
\* asleep on the semaphore means that every block is in use: no free's post
\* is lost (228) and none wakes an allocation that keeps the count (174).
SleepsOnlyOnFullPool ==
  \A t \in Threads :
    ~ <>[](/\ pc[t] \in {"sem_wait", "sem_timedwait"}
           /\ \A u \in Threads \ {t} : pc[u] \in {"idle", "sem_wait", "sem_timedwait"}
           /\ num_used < num_max)

\* The pool as its callers see it: a set of live blocks, every call one step.
Pool == INSTANCE BlockPool WITH live <- Live
ImplementsBlockPool == Pool!Spec

\* The pool at rest and under way: types and ranges, no block or count lost or made
\* twice, and outside a free's few stores every block in exactly one place.
PoolSound == TypeOK /\ SemAccounting /\ IndexInverse
=============================================================================
