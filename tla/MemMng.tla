------------------------------- MODULE MemMng -------------------------------
(***************************************************************************)
(* em_malloc.c: a heap of mem_block_num units shared by threads.  Every    *)
(* piece of it, used or free, has a record in a list doubly linked in      *)
(* address order between two dummies; the records of used pieces come from *)
(* the pool mp_used, those of free pieces from mp_free, alloc_max_num each.*)
(* em_trymalloc sleeps on a condition variable that em_free broadcasts.    *)
(*                                                                         *)
(* Records keep their contents when they go back to their pool, because    *)
(* the code reads through pointers it did not update.                      *)
(***************************************************************************)
EXTENDS Pools, FiniteSetsExt, Functions

CONSTANTS Threads,        \* the threads that share the heap
          mem_unit_size,  \* bytes in a unit
          mem_block_num,  \* units in the heap
          alloc_max_num,  \* records in each pool
          Sizes,          \* the sizes in bytes that callers ask for
          Timeouts,       \* the kinds of timeout em_trymalloc is called with
          MaxUsed,        \* bound of the model: mem_used_bsize is not counted past it
          Beyond,         \* bound of the model: whether an exact fit is made in
                          \* front of another piece (see misfit)
          NoThread        \* the owner of a mutex nobody holds

\* The records: the two dummies and those of the pools.
First == 0
Last == 2 * alloc_max_num + 1
UsedRecs == 1 .. alloc_max_num
FreeRecs == alloc_max_num + 1 .. 2 * alloc_max_num
AllRecs == First .. Last
Null == -1

VARIABLES
  mm,          \* em_memmng_t: info, used, free, minfo_ptr, mem_used_bsize
  mutex,       \* owner of mm->mutex
  cond_mutex,  \* owner of mm->cond_mutex
  sleepers,    \* threads inside pthread_cond_timedwait
  pc,          \* what each thread is about to do
  req,         \* the arguments of its call: size and timeout_ms, or index
  held,        \* the pieces callers hold: unit index -> bytes asked for
  misfit,      \* history: an exact fit was made in front of another piece
  lost         \* history: units counted by allocations that then found no record

locks == <<mutex, cond_mutex, sleepers>>
history == <<misfit, lost>>
vars == <<mm, locks, pc, req, held, history>>

----------------------------------------------------------------------------
(* The heap. *)

Record(index, length, used, next, back) ==
  [mem_index |-> index, mem_length |-> length, is_used |-> used,
   next |-> next, back |-> back]

InitialHeap ==
  LET initial == alloc_max_num + 1
      blank == Record(0, 0, FALSE, Null, Null)
  IN [info |-> [r \in AllRecs |->
                  CASE r = First   -> Record(-1, 0, TRUE, initial, Null)
                    [] r = Last    -> Record(-2, 0, TRUE, Null, initial)
                    [] r = initial -> Record(0, mem_block_num, FALSE, Last, First)
                    [] OTHER       -> blank],
      used |-> [num_used |-> 0, block_ptr |-> [i \in 0 .. alloc_max_num - 1 |-> 1 + i]],
      free |-> [num_used |-> 1,
                block_ptr |-> [i \in 0 .. alloc_max_num - 1 |-> alloc_max_num + 1 + i]],
      minfo_ptr |-> [i \in 0 .. mem_block_num - 1 |-> Null],
      mem_used_bsize |-> 0]

\* Mutant: rounded down.
BLength_Down(size) == size \div mem_unit_size

\* Bytes to units, rounded up.
BLength(size) == (size + mem_unit_size - 1) \div mem_unit_size

\* _em_malloc: the last free record of the pool that is long enough.
Candidates(h, blength) ==
  {i \in 0 .. h.free.num_used - 1 : h.info[h.free.block_ptr[i]].mem_length >= blength}

Failed(h, units) == [heap |-> h, index |-> Null, misfit |-> FALSE, lost |-> units]

\* Mutant: the free record of an exact fit is not given back (line 205 is missing).
Carve_RecordKept(h, new, f, blength) ==
  LET fr == h.info[f]
      exact == fr.mem_length = blength
      placed == Record(fr.mem_index, blength, TRUE, IF exact THEN fr.next ELSE f, fr.back)
      linked == [h.info EXCEPT ![new] = placed, ![fr.back].next = new]
      shrunk == [linked EXCEPT ![f].mem_index = @ + blength,
                               ![f].mem_length = @ - blength, ![f].back = new]
  IN [heap |-> [h EXCEPT !.info = IF exact THEN linked ELSE shrunk,
                         !.used = PoolAlloc(h.used),
                         !.minfo_ptr[fr.mem_index] = new],
      index |-> fr.mem_index,
      misfit |-> exact /\ fr.next # Last,
      lost |-> 0]

\* Mutant: the free record keeps its back pointer (line 212 is missing).
Carve_BackKept(h, new, f, blength) ==
  LET fr == h.info[f]
      exact == fr.mem_length = blength
      placed == Record(fr.mem_index, blength, TRUE, IF exact THEN fr.next ELSE f, fr.back)
      linked == [h.info EXCEPT ![new] = placed, ![fr.back].next = new]
      shrunk == [linked EXCEPT ![f].mem_index = @ + blength,
                               ![f].mem_length = @ - blength]
  IN [heap |-> [h EXCEPT !.info = IF exact THEN linked ELSE shrunk,
                         !.free = IF exact THEN PoolFree(h.free, f) ELSE h.free,
                         !.used = PoolAlloc(h.used),
                         !.minfo_ptr[fr.mem_index] = new],
      index |-> fr.mem_index,
      misfit |-> exact /\ fr.next # Last,
      lost |-> 0]

\* Lines 195-215: the new record is put in front of the free one, which shrinks,
\* or in its place when the fit is exact: then the record behind it keeps its
\* back pointer to the free record that is gone.
Carve(h, new, f, blength) ==
  LET fr == h.info[f]
      exact == fr.mem_length = blength
      placed == Record(fr.mem_index, blength, TRUE, IF exact THEN fr.next ELSE f, fr.back)
      linked == [h.info EXCEPT ![new] = placed, ![fr.back].next = new]
      shrunk == [linked EXCEPT ![f].mem_index = @ + blength,
                               ![f].mem_length = @ - blength, ![f].back = new]
  IN [heap |-> [h EXCEPT !.info = IF exact THEN linked ELSE shrunk,
                         !.free = IF exact THEN PoolFree(h.free, f) ELSE h.free,
                         !.used = PoolAlloc(h.used),
                         !.minfo_ptr[fr.mem_index] = new],
      index |-> fr.mem_index,
      misfit |-> exact /\ fr.next # Last,
      lost |-> 0]

\* Mutant: the size is counted before there is any place for it.
Malloc_CountedFirst(h, size) ==
  LET blength == BLength(size)
      fits == Candidates(h, blength)
      counted == [h EXCEPT !.mem_used_bsize = @ + blength]
  IN IF size = 0 THEN Failed(h, 0)
     ELSE IF fits = {} THEN Failed(counted, 0)
     ELSE IF PoolFull(h.used) THEN Failed(counted, blength)
     ELSE Carve(counted, PoolNext(h.used), h.free.block_ptr[Max(fits)], blength)

Malloc(h, size) ==
  LET blength == BLength(size)
      fits == Candidates(h, blength)
      counted == [h EXCEPT !.mem_used_bsize = @ + blength]
  IN IF size = 0 \/ fits = {} THEN Failed(h, 0)
     ELSE IF PoolFull(h.used) THEN Failed(counted, blength)
     ELSE Carve(counted, PoolNext(h.used), h.free.block_ptr[Max(fits)], blength)

\* em_free, lines 312-357, for the piece that starts at unit index.
Joined(h, d) ==
  LET del == h.info[d]
      b == del.back
      n == del.next
      new == PoolNext(h.free)
      info == h.info
  IN CASE info[b].is_used /\ info[n].is_used ->
            [h EXCEPT !.info = [info EXCEPT ![new] = [del EXCEPT !.is_used = FALSE],
                                            ![b].next = new, ![n].back = new],
                      !.free = PoolAlloc(h.free)]
       [] info[b].is_used /\ ~info[n].is_used ->
            [h EXCEPT !.info = [info EXCEPT ![n].mem_index = del.mem_index,
                                            ![n].mem_length = @ + del.mem_length,
                                            ![b].next = n, ![n].back = b]]
       [] ~info[b].is_used /\ info[n].is_used ->
            [h EXCEPT !.info = [info EXCEPT ![b].mem_length = @ + del.mem_length,
                                            ![b].next = n, ![n].back = b]]
       [] OTHER ->
            [h EXCEPT !.info = [info EXCEPT
                                  ![b].mem_length = @ + del.mem_length + info[n].mem_length,
                                  ![b].next = info[n].next, ![info[n].next].back = b],
                      !.free = PoolFree(h.free, n)]

\* Mutant: the length is read from the record behind, after the join.
Free_LengthAfterJoin(h, index) ==
  LET d == h.minfo_ptr[index]
      j == Joined(h, d)
  IN [j EXCEPT !.used = PoolFree(@, d),
               !.mem_used_bsize = @ - j.info[h.info[d].next].mem_length]

Free(h, index) ==
  LET d == h.minfo_ptr[index]
  IN [Joined(h, d) EXCEPT !.used = PoolFree(@, d),
                          !.mem_used_bsize = @ - h.info[d].mem_length]

----------------------------------------------------------------------------
(* The calls.  Every access to mm is made under mm->mutex. *)

NoRequest == [size |-> 0, mode |-> "none", index |-> Null]
Goto(t, l) == pc' = [pc EXCEPT ![t] = l]
Leave(t) == Goto(t, "idle") /\ req' = [req EXCEPT ![t] = NoRequest]

\* The heap after an attempt, and what its caller now holds.
Attempt(size) ==
  LET r == Malloc(mm, size) IN
  /\ r.heap.mem_used_bsize <= MaxUsed
  /\ r.misfit => Beyond
  /\ mm' = r.heap
  /\ misfit' = (misfit \/ r.misfit)
  /\ lost' = lost + r.lost
  /\ held' = IF r.index = Null THEN held
             ELSE [i \in DOMAIN held \cup {r.index} |->
                     IF i = r.index THEN size ELSE held[i]]

Init == /\ mm = InitialHeap
        /\ mutex = NoThread /\ cond_mutex = NoThread /\ sleepers = {}
        /\ pc = [t \in Threads |-> "idle"]
        /\ req = [t \in Threads |-> NoRequest]
        /\ held = [i \in {} |-> 0]
        /\ misfit = FALSE
        /\ lost = 0

\* em_malloc: one critical section.
MallocCall(t, size) ==
  /\ pc[t] = "idle"
  /\ mutex = NoThread
  /\ Attempt(size)
  /\ UNCHANGED <<locks, pc, req>>

TryCall(t, size, mode) ==
  /\ pc[t] = "idle"
  /\ req' = [req EXCEPT ![t] = [NoRequest EXCEPT !.size = size, !.mode = mode]]
  /\ Goto(t, "try_lock")
  /\ UNCHANGED <<mm, locks, held, history>>

\* Lines 258-271: success and EM_NO_WAIT leave the critical section at once.
TryAttempt(t) ==
  /\ pc[t] = "try_lock"
  /\ mutex = NoThread
  /\ Attempt(req[t].size)
  /\ \/ /\ Malloc(mm, req[t].size).index # Null
        /\ Leave(t)
        /\ UNCHANGED mutex
     \/ /\ Malloc(mm, req[t].size).index = Null
        /\ req[t].mode = "no_wait"
        /\ Goto(t, "try_failed")
        /\ UNCHANGED <<mutex, req>>
     \/ /\ Malloc(mm, req[t].size).index = Null
        /\ req[t].mode # "no_wait"
        /\ mutex' = t
        /\ Goto(t, "try_cond")
        /\ UNCHANGED req
  /\ UNCHANGED <<cond_mutex, sleepers>>

\* Mutant: lines 276 and 277 swapped, the heap is unlocked before cond_mutex is held.
TryCond_Unlocked(t) ==
  /\ pc[t] = "try_cond"
  /\ cond_mutex = NoThread
  /\ IF mutex = t THEN mutex' = NoThread /\ UNCHANGED <<cond_mutex, pc>>
                  ELSE cond_mutex' = t /\ Goto(t, "try_sleep") /\ UNCHANGED mutex
  /\ UNCHANGED <<mm, sleepers, req, held, history>>

TryCond(t) ==
  /\ pc[t] = "try_cond"
  /\ cond_mutex = NoThread
  /\ cond_mutex' = t
  /\ Goto(t, "try_unlock")
  /\ UNCHANGED <<mm, mutex, sleepers, req, held, history>>

TryUnlock(t) ==
  /\ pc[t] = "try_unlock"
  /\ mutex' = NoThread
  /\ Goto(t, "try_sleep")
  /\ UNCHANGED <<mm, cond_mutex, sleepers, req, held, history>>

TrySleep(t) ==
  /\ pc[t] = "try_sleep"
  /\ cond_mutex' = NoThread
  /\ sleepers' = sleepers \cup {t}
  /\ Goto(t, "try_asleep")
  /\ UNCHANGED <<mm, mutex, req, held, history>>

\* The wait ends without a free: its time is up, or POSIX wakes it for nothing.
TryWake(t) ==
  /\ pc[t] = "try_asleep"
  /\ sleepers' = sleepers \ {t}
  /\ \E l \in {"try_expired", "try_woken"} : Goto(t, l)
  /\ UNCHANGED <<mm, mutex, cond_mutex, req, held, history>>

\* Lines 278-288: cond_mutex is taken back and released.  passed_ms >= timeout_ms
\* is certain after the full time and for EM_NO_TIMEOUT, which is -1; a thread
\* woken earlier may or may not find its time gone.
TryTest(t) ==
  /\ pc[t] \in {"try_expired", "try_woken"}
  /\ cond_mutex = NoThread
  /\ \/ Goto(t, "try_failed")
     \/ pc[t] = "try_woken" /\ req[t].mode = "timed" /\ Goto(t, "try_lock")
  /\ UNCHANGED <<mm, locks, req, held, history>>

TryFail(t) ==
  /\ pc[t] = "try_failed"
  /\ Leave(t)
  /\ UNCHANGED <<mm, locks, held, history>>

\* The caller gives a piece up; only pieces that are held are freed.
FreeCall(t, index) ==
  /\ pc[t] = "idle"
  /\ held' = [i \in DOMAIN held \ {index} |-> held[i]]
  /\ req' = [req EXCEPT ![t] = [NoRequest EXCEPT !.index = index]]
  /\ Goto(t, "free_lock")
  /\ UNCHANGED <<mm, locks, history>>

FreeLock(t) ==
  /\ pc[t] = "free_lock"
  /\ mutex = NoThread
  /\ mutex' = t
  /\ Goto(t, "free_join")
  /\ UNCHANGED <<mm, cond_mutex, sleepers, req, held, history>>

FreeJoin(t) ==
  /\ pc[t] = "free_join"
  /\ mm' = Free(mm, req[t].index)
  /\ Goto(t, "free_cond")
  /\ UNCHANGED <<locks, req, held, history>>

\* Lines 359-361: the broadcast, under cond_mutex, wakes every sleeper.
FreeBroadcast(t) ==
  /\ pc[t] = "free_cond"
  /\ cond_mutex = NoThread
  /\ sleepers' = {}
  /\ pc' = [u \in Threads |-> IF u = t THEN "free_unlock"
                              ELSE IF u \in sleepers THEN "try_woken" ELSE pc[u]]
  /\ UNCHANGED <<mm, mutex, cond_mutex, req, held, history>>

FreeUnlock(t) ==
  /\ pc[t] = "free_unlock"
  /\ mutex' = NoThread
  /\ Leave(t)
  /\ UNCHANGED <<mm, cond_mutex, sleepers, held, history>>

Call(t) == \/ \E size \in Sizes : MallocCall(t, size)
           \/ \E size \in Sizes, mode \in Timeouts : TryCall(t, size, mode)
           \/ \E index \in DOMAIN held : FreeCall(t, index)

Step(t) == \/ TryAttempt(t) \/ TryCond(t) \/ TryUnlock(t) \/ TrySleep(t)
           \/ TryTest(t) \/ TryFail(t)
           \/ FreeLock(t) \/ FreeJoin(t) \/ FreeBroadcast(t) \/ FreeUnlock(t)

Next == \E t \in Threads : Call(t) \/ Step(t) \/ TryWake(t)

Spec == Init /\ [][Next]_vars

----------------------------------------------------------------------------
(* Properties. *)

Labels == {"idle", "try_lock", "try_cond", "try_unlock", "try_sleep", "try_asleep",
           "try_expired", "try_woken", "try_failed",
           "free_lock", "free_join", "free_cond", "free_unlock"}

PoolOK(p, recs) == /\ p.num_used \in 0 .. alloc_max_num
                   /\ p.block_ptr \in [0 .. alloc_max_num - 1 -> recs]
                   /\ IsInjective(p.block_ptr)

TypeOK == /\ mm.info \in [AllRecs -> [mem_index : Int, mem_length : Nat, is_used : BOOLEAN,
                                      next : AllRecs \cup {Null}, back : AllRecs \cup {Null}]]
          /\ PoolOK(mm.used, UsedRecs)
          /\ PoolOK(mm.free, FreeRecs)
          /\ mm.minfo_ptr \in [0 .. mem_block_num - 1 -> UsedRecs \cup {Null}]
          /\ mm.mem_used_bsize \in 0 .. MaxUsed
          /\ mutex \in Threads \cup {NoThread}
          /\ cond_mutex \in Threads \cup {NoThread}
          /\ sleepers = {t \in Threads : pc[t] = "try_asleep"}
          /\ pc \in [Threads -> Labels]
          /\ DOMAIN held \subseteq 0 .. mem_block_num - 1
          /\ misfit \in BOOLEAN /\ lost \in Nat

UsedPieces == InUse(mm.used)
FreePieces == InUse(mm.free)
Pieces == UsedPieces \cup FreePieces
End(r) == mm.info[r].mem_index + mm.info[r].mem_length

\* em_malloc.h calls next_meminfo and back_meminfo the records of the pieces one
\* address further and one address back.
NextIsNext(r) == LET n == mm.info[r].next IN
                   IF n = Last THEN End(r) = mem_block_num
                               ELSE n \in Pieces /\ mm.info[n].mem_index = End(r)
BackIsBack(r) == LET b == mm.info[r].back IN
                   IF b = First THEN mm.info[r].mem_index = 0
                                ELSE b \in Pieces /\ End(b) = mm.info[r].mem_index

\* Splits and four-way joins keep the list in address order over the live records
\* of both pools, without hole or overlap, and no two free pieces are neighbours
\* (lines 195-213, 317-354) - as long as no exact fit was made in front of a piece.
WellLinked == ~misfit =>
  \A r \in Pieces : /\ NextIsNext(r) /\ BackIsBack(r)
                    /\ mm.info[r].mem_length > 0
                    /\ r \in FreePieces => mm.info[mm.info[r].next].is_used

\* A piece a caller holds is a used piece of the size asked for, found by its
\* address when it is freed, and no other caller's piece lies on it (188-223).
Address(i) == i * mem_unit_size
HeldIsUsed == ~misfit =>
  \A i \in DOMAIN held :
    LET r == mm.minfo_ptr[i] IN
    /\ r \in UsedPieces
    /\ mm.info[r].mem_index = i
    /\ Address(End(r)) >= Address(i) + held[i]
    /\ \A j \in DOMAIN held : i < j => Address(i) + held[i] <= Address(j)

UsedUnits == {u \in 0 .. mem_block_num - 1 :
                \E r \in UsedPieces : mm.info[r].mem_index <= u /\ u < End(r)}

\* What em_memmng_print reports as used (line 117) is the number of units the used
\* pieces take up (the sum the code has commented out at line 128), but for what was
\* counted by allocations that found no record (line 193), whatever was joined since.
UsedSizeExact == ~misfit => mm.mem_used_bsize = Cardinality(UsedUnits) + lost

\* em_free needs a record of mp_free when both neighbours are used and does not
\* look whether it got one ("error", lines 321-325): there always is one left.
FreeRecordsSuffice ==
  \A t \in Threads :
    pc[t] = "free_join" /\ ~misfit =>
      LET del == mm.info[mm.minfo_ptr[req[t].index]]
      IN mm.info[del.back].is_used /\ mm.info[del.next].is_used => ~PoolFull(mm.free)

\* Line 277, "free検知不可区間をつくらないため" (so that there is no interval in which a
\* free goes unnoticed): while a thread is on its way to sleep or asleep, its
\* request cannot be met, or a free that will wake it is about to broadcast.
CanServe(size) == Malloc(mm, size).index # Null
SleepersCannotBeServed ==
  \A t \in Threads :
    pc[t] \in {"try_cond", "try_unlock", "try_sleep", "try_asleep"} /\ CanServe(req[t].size)
      => \E u \in Threads : pc[u] = "free_cond"

\* em_malloc.h says of mp_free that it keeps the unallocated memory: no record of
\* it covers memory that a caller holds.
FreeIsUnallocated ==
  \A r \in FreePieces, i \in DOMAIN held :
    \/ End(r) <= i
    \/ Address(i) + held[i] <= Address(mm.info[r].mem_index)

\* em_malloc.h says of cond that without free space the request is checked again
\* at each free until the timeout: with EM_NO_TIMEOUT there is none, so a request
\* for something never comes back with nothing.
ChecksUntilTimeout ==
  \A t \in Threads :
    pc[t] = "try_failed" /\ req[t].mode = "no_timeout" => req[t].size = 0

\* The heap between two critical sections: the list covers it in address order, every
\* held piece is a used one of its own, a record for a freed one is left, and the
\* reported size is the true one (153-231, 293-364).
HeapSound == TypeOK /\ WellLinked /\ HeldIsUsed /\ FreeRecordsSuffice /\ UsedSizeExact
=============================================================================
