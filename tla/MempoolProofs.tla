--------------------------- MODULE MempoolProofs ---------------------------
(***************************************************************************)
(* What holds of Mempool for every number of threads and of blocks.        *)
(***************************************************************************)
EXTENDS Mempool, CommonLemmas

\* Types, but for the bound of sem, which follows from the accounting.
TypeBase == /\ num_used \in 0 .. num_max
            /\ block_ptr \in [Blocks -> Blocks]
            /\ index_ptr \in [Blocks -> Blocks]
            /\ data_ptr \in [Blocks -> Blocks]
            /\ sem \in Nat
            /\ mutex \in Threads \cup {NoThread}
            /\ pc \in [Threads -> Labels]
            /\ data_idx \in [Threads -> 0 .. num_max]
            /\ del \in [Threads -> Blocks]
            /\ swap \in [Threads -> Blocks]
            /\ seenIndex \in [Threads -> Blocks \cup {Unread}]
            /\ seenUsed \in [Threads -> 0 .. num_max \cup {Unread}]
            /\ ret \in [Threads -> [kind : {"pending", "ok", "failed"}, blocks : SUBSET Blocks]]
            /\ steady \in [Threads -> BOOLEAN]
            /\ touched \in [Threads -> BOOLEAN]

\* Whoever is between a lock and its unlock holds the mutex.
Critical == {"alloc_take", "alloc_unlock", "free_check", "free_swap", "free_del",
             "free_ptrs", "free_unlock"}
MutexHeld == \A t \in Threads : pc[t] \in Critical => mutex = t

\* A free that has passed its check, and a lookup, are about a block of the pool;
\* such a free has room behind the blocks in use.
ArgInRange == \A t \in Threads :
  /\ pc[t] \in {"free_swap", "free_del", "free_ptrs", "lookup"} => data_idx[t] \in Blocks
  /\ pc[t] \in {"free_swap", "free_del", "free_ptrs"} => num_used \in Blocks

\* em_mpool_create_with_mem sets every field within its type.
LEMMA TypeInit == Init => TypeBase
  BY PoolAssumption DEF Init, TypeBase, Blocks, Labels, Unread, Pending, Outcome

\* Returning leaves the types of the locals alone.
LEMMA LeaveType ==
  ASSUME TypeBase, NEW t \in Threads, Leave(t)
  PROVE  /\ pc' \in [Threads -> Labels]
         /\ data_idx' \in [Threads -> 0 .. num_max]
         /\ del' \in [Threads -> Blocks]
         /\ swap' \in [Threads -> Blocks]
         /\ seenIndex' \in [Threads -> Blocks \cup {Unread}]
         /\ seenUsed' \in [Threads -> 0 .. num_max \cup {Unread}]
         /\ ret' \in [Threads -> [kind : {"pending", "ok", "failed"}, blocks : SUBSET Blocks]]
         /\ steady' \in [Threads -> BOOLEAN]
         /\ touched' \in [Threads -> BOOLEAN]
  <1>1. /\ 0 \in 0 .. num_max
        /\ 0 \in Blocks
        /\ "idle" \in Labels
        /\ Pending \in [kind : {"pending", "ok", "failed"}, blocks : SUBSET Blocks]
    BY PoolAssumption DEF Blocks, Labels, Pending, Outcome
  <1> QED BY <1>1 DEF TypeBase, Leave

\* Every step of every call stores values of the right type.
LEMMA TypeStep == TypeBase /\ ArgInRange /\ [Next]_vars => TypeBase'
<1> SUFFICES ASSUME TypeBase, ArgInRange, [Next]_vars PROVE TypeBase'
  OBVIOUS
<1> USE PoolAssumption DEF TypeBase, Labels
<1>1. ASSUME NEW t \in Threads, NEW timed \in BOOLEAN, AllocCall(t, timed) PROVE TypeBase'
  BY <1>1 DEF AllocCall, Goto, shared, frees, lookups
<1>2. ASSUME NEW t \in Threads, NEW idx \in 0 .. num_max, FreeCall(t, idx) PROVE TypeBase'
  BY <1>2 DEF FreeCall, Goto, shared, frees, lookups
<1>3. ASSUME NEW t \in Threads, NEW idx \in 0 .. num_max, LookupCall(t, idx) PROVE TypeBase'
  BY <1>3 DEF LookupCall, Goto, shared, frees, lookups
<1>4. ASSUME NEW t \in Threads, List(t) PROVE TypeBase'
  <2>1. {block_ptr[i] : i \in 0 .. num_used - 1} \in SUBSET Blocks
    BY DEF Blocks
  <2> QED BY <1>4, <2>1 DEF List, Decide, Outcome, Goto, shared, frees, lookups
<1>5. ASSUME NEW t \in Threads, SemWake(t) PROVE TypeBase'
  BY <1>5 DEF SemWake, Goto, shared, frees, lookups
<1>6. ASSUME NEW t \in Threads, AllocLock(t) PROVE TypeBase'
  BY <1>6 DEF AllocLock, Lock, Goto, shared, frees, lookups
<1>7. ASSUME NEW t \in Threads, AllocTake(t) PROVE TypeBase'
  <2>1. CASE num_used >= num_max
    BY <1>7, <2>1 DEF AllocTake, Decide, Outcome, Goto, frees
  <2>2. CASE ~(num_used >= num_max)
    <3>1. block_ptr[num_used] \in Blocks
      <4>1. num_used \in Blocks
        BY <2>2 DEF Blocks
      <4> QED BY <4>1
    <3>2. /\ num_used' = num_used + 1
          /\ ret' = [ret EXCEPT ![t] = Outcome("ok", {block_ptr[num_used]})]
          /\ touched' = [u \in Threads |-> touched[u] \/
                           (pc[u] = "lookup" /\ data_idx[u] = block_ptr[num_used])]
          /\ pc' = [pc EXCEPT ![t] = "alloc_unlock"]
      BY <1>7, <2>2 DEF AllocTake, Decide, Goto
    <3>3. ret' \in [Threads -> [kind : {"pending", "ok", "failed"}, blocks : SUBSET Blocks]]
      BY <3>1, <3>2 DEF Outcome
    <3>4. touched' \in [Threads -> BOOLEAN]
      BY <3>2, Zenon
    <3>5. num_used' \in 0 .. num_max
      BY <2>2, <3>2
    <3>6. pc' \in [Threads -> Labels]
      BY <3>2
    <3> QED BY <1>7, <3>3, <3>4, <3>5, <3>6 DEF AllocTake, frees
  <2> QED BY <2>1, <2>2
<1>8. ASSUME NEW t \in Threads, AllocUnlock(t) PROVE TypeBase'
  BY <1>8, LeaveType DEF AllocUnlock, Unlock, shared
<1>9. ASSUME NEW t \in Threads, FreeLock(t) PROVE TypeBase'
  BY <1>9 DEF FreeLock, Lock, Goto, shared, frees, lookups
<1>10. ASSUME NEW t \in Threads, FreeReject(t) PROVE TypeBase'
  BY <1>10 DEF FreeReject, Unlock, Decide, Outcome, Goto, shared, frees, lookups
<1>11. ASSUME NEW t \in Threads, FreeTake(t) PROVE TypeBase'
  <2>1. /\ data_idx[t] \in Blocks
        /\ num_used - 1 \in Blocks
        /\ index_ptr[data_idx[t]] \in Blocks
        /\ block_ptr[num_used - 1] \in Blocks
    BY <1>11 DEF FreeTake, NotInUse, Blocks
  <2>2. ret' \in [Threads -> [kind : {"pending", "ok", "failed"}, blocks : SUBSET Blocks]]
    BY <1>11, <2>1 DEF FreeTake, Decide, Outcome
  <2>3. steady' \in [Threads -> BOOLEAN]
    BY <1>11, Zenon DEF FreeTake
  <2>4. /\ del' \in [Threads -> Blocks]
        /\ swap' \in [Threads -> Blocks]
        /\ pc' \in [Threads -> Labels]
    BY <1>11, <2>1 DEF FreeTake, Goto
  <2>5. num_used' \in 0 .. num_max
    BY <1>11, <2>1 DEF FreeTake, Blocks
  <2> QED BY <1>11, <2>2, <2>3, <2>4, <2>5 DEF FreeTake
<1>12. ASSUME NEW t \in Threads, FreeSwap(t) PROVE TypeBase'
  BY <1>12 DEF FreeSwap, Goto, frees, lookups
<1>13. ASSUME NEW t \in Threads, FreeDel(t) PROVE TypeBase'
  <2>1. num_used \in Blocks
    BY <1>13 DEF FreeDel, ArgInRange
  <2> QED BY <1>13, <2>1 DEF FreeDel, Goto, frees, lookups
<1>14. ASSUME NEW t \in Threads, FreePtrs(t) PROVE TypeBase'
  <2>1. data_idx[t] \in Blocks
    BY <1>14 DEF FreePtrs, ArgInRange
  <2> QED BY <1>14, <2>1 DEF FreePtrs, Goto, frees, lookups
<1>15. ASSUME NEW t \in Threads, FreeUnlock(t) PROVE TypeBase'
  BY <1>15 DEF FreeUnlock, Unlock, Goto, shared, frees, lookups
<1>16. ASSUME NEW t \in Threads, FreePost(t) PROVE TypeBase'
  BY <1>16, LeaveType DEF FreePost, shared
<1>17. ASSUME NEW t \in Threads, LookupIndex(t) PROVE TypeBase'
  <2>1. index_ptr[data_idx[t]] \in Blocks
    BY <1>17 DEF LookupIndex, ArgInRange
  <2>2. seenIndex' \in [Threads -> Blocks \cup {Unread}]
    BY <1>17, <2>1 DEF LookupIndex
  <2> QED BY <1>17, <2>2 DEF LookupIndex, shared, frees
<1>18. ASSUME NEW t \in Threads, LookupUsed(t) PROVE TypeBase'
  BY <1>18 DEF LookupUsed, shared, frees
<1>19. ASSUME NEW t \in Threads, LookupTest(t) PROVE TypeBase'
  BY <1>19 DEF LookupTest, Goto, shared, frees, lookups
<1>20. ASSUME NEW t \in Threads, Return(t) PROVE TypeBase'
  BY <1>20, LeaveType DEF Return, shared
<1>21. ASSUME NEW t \in Threads, SemTimeout(t) PROVE TypeBase'
  BY <1>21 DEF SemTimeout, Decide, Outcome, Goto, shared, frees, lookups
<1>22. CASE UNCHANGED vars
  BY <1>22 DEF vars, shared, frees, lookups
<1> QED BY <1>1, <1>2, <1>3, <1>4, <1>5, <1>6, <1>7, <1>8, <1>9, <1>10, <1>11, <1>12,
           <1>13, <1>14, <1>15, <1>16, <1>17, <1>18, <1>19, <1>20, <1>21, <1>22
        DEF Next, Call, Step

----------------------------------------------------------------------------
(* The mutex. *)

\* Nobody is in a critical section at first.
LEMMA MutexInit == Init => MutexHeld
  BY DEF Init, MutexHeld, Critical

\* Only the owner is between a lock and its unlock, so a step of another thread
\* neither enters nor frees the mutex.
LEMMA MutexStep == TypeBase /\ MutexHeld /\ [Next]_vars => MutexHeld'
<1> SUFFICES ASSUME TypeBase, MutexHeld, [Next]_vars PROVE MutexHeld'
  OBVIOUS
<1>1. pc \in [Threads -> Labels] /\ NoThread \notin Threads
  BY PoolAssumption DEF TypeBase
<1> USE <1>1 DEF MutexHeld, Critical
<1>2. ASSUME NEW t \in Threads, Call(t) PROVE MutexHeld'
  BY <1>2 DEF Call, AllocCall, FreeCall, LookupCall, List, Goto
<1>3. ASSUME NEW t \in Threads, SemWake(t) \/ AllocLock(t) \/ AllocTake(t) \/ SemTimeout(t)
      PROVE MutexHeld'
  BY <1>3 DEF SemWake, AllocLock, AllocTake, SemTimeout, Lock, Goto
<1>4. ASSUME NEW t \in Threads, AllocUnlock(t) \/ FreeReject(t) \/ FreeUnlock(t)
      PROVE MutexHeld'
  BY <1>4 DEF AllocUnlock, FreeReject, FreeUnlock, Unlock, Leave, Goto
<1>5. ASSUME NEW t \in Threads, FreeLock(t) \/ FreeTake(t) \/ FreeSwap(t) \/ FreeDel(t) \/ FreePtrs(t)
      PROVE MutexHeld'
  BY <1>5 DEF FreeLock, FreeTake, FreeSwap, FreeDel, FreePtrs, Lock, Goto
<1>6. ASSUME NEW t \in Threads, FreePost(t) \/ Return(t) PROVE MutexHeld'
  BY <1>6 DEF FreePost, Return, Leave
<1>7. ASSUME NEW t \in Threads, LookupIndex(t) \/ LookupUsed(t) \/ LookupTest(t)
      PROVE MutexHeld'
  BY <1>7 DEF LookupIndex, LookupUsed, LookupTest, Goto
<1>8. CASE UNCHANGED vars
  BY <1>8 DEF vars
<1> QED BY <1>2, <1>3, <1>4, <1>5, <1>6, <1>7, <1>8 DEF Next, Step

----------------------------------------------------------------------------
(* The arrays. *)

MutuallyInverse == /\ \A b \in Blocks : block_ptr[index_ptr[b]] = b
                   /\ \A i \in Blocks : index_ptr[block_ptr[i]] = i

\* What the thread that is moving the last block into the hole may count on:
\* the entries of the freed block x and of the moved block s are the two that
\* are out of order, and the stores put them right one by one.
Hole(t) ==
  LET x == data_idx[t]
      s == swap[t]
      d == del[t]
  IN /\ x \in Blocks /\ num_used \in Blocks /\ d <= num_used
     /\ block_ptr[d] = x /\ block_ptr[num_used] = s
     /\ x = s => d = num_used
     /\ \A i \in Blocks \ {d, num_used} : block_ptr[i] \notin {x, s} /\ index_ptr[block_ptr[i]] = i
     /\ \A b \in Blocks \ {x, s} : index_ptr[b] \notin {d, num_used} /\ block_ptr[index_ptr[b]] = b
     /\ pc[t] = "free_swap" => index_ptr[x] = d /\ index_ptr[s] = num_used
     /\ pc[t] \in {"free_del", "free_ptrs"} => index_ptr[s] = d
     /\ pc[t] = "free_ptrs" => index_ptr[x] = num_used

Moving == {"free_swap", "free_del", "free_ptrs"}

Arrays == /\ data_ptr = block_ptr
          /\ \A t \in Threads : pc[t] \in Moving => Hole(t)
          /\ (\A t \in Threads : pc[t] \notin Moving) => MutuallyInverse

\* The arrays start as the identity.
LEMMA ArraysInit == Init => Arrays
  BY PoolAssumption DEF Init, Arrays, MutuallyInverse, Moving, Blocks

\* An allocation leaves the arrays alone, and each store of a free (217-225) takes them
\* from one state of Hole to the next, the last one back to being inverse.
LEMMA ArraysStep == TypeBase /\ TypeBase' /\ MutexHeld /\ Arrays /\ [Next]_vars => Arrays'
<1> SUFFICES ASSUME TypeBase, TypeBase', MutexHeld, Arrays, [Next]_vars PROVE Arrays'
  OBVIOUS
<1>0. /\ pc \in [Threads -> Labels] /\ block_ptr \in [Blocks -> Blocks]
      /\ index_ptr \in [Blocks -> Blocks] /\ del \in [Threads -> Blocks]
      /\ swap \in [Threads -> Blocks] /\ data_idx \in [Threads -> 0 .. num_max]
      /\ num_used \in 0 .. num_max /\ num_max \in Nat \ {0}
  BY PoolAssumption DEF TypeBase
\* A step that touches neither the arrays nor the locals of a free.
<1>1. ASSUME NEW t \in Threads, UNCHANGED <<num_used, block_ptr, index_ptr, data_ptr>>,
             \A u \in Threads : pc[u] \in Moving <=> pc'[u] \in Moving,
             \A u \in Threads : pc[u] \in Moving =>
               pc'[u] = pc[u] /\ data_idx'[u] = data_idx[u] /\ del'[u] = del[u] /\ swap'[u] = swap[u]
      PROVE Arrays'
  <2>1. ASSUME NEW u \in Threads, pc'[u] \in Moving PROVE Hole(u)'
    <3>1. Hole(u) /\ pc[u] \in Moving
      BY <1>1, <2>1 DEF Arrays
    <3> QED BY <1>1, <3>1 DEF Hole
  <2>2. (\A u \in Threads : pc'[u] \notin Moving) => MutuallyInverse'
    BY <1>1 DEF Arrays, MutuallyInverse
  <2> QED BY <1>1, <2>1, <2>2 DEF Arrays
<1>2. ASSUME NEW t \in Threads, pc[t] \in Critical, NEW u \in Threads \ {t} PROVE pc[u] \notin Moving
  BY <1>2, PoolAssumption DEF MutexHeld, Critical, Moving
<1>3. ASSUME NEW t \in Threads, Call(t) \/ SemWake(t) \/ SemTimeout(t) PROVE Arrays'
  BY <1>0, <1>1, <1>3
     DEF Call, AllocCall, FreeCall, LookupCall, List, SemWake, SemTimeout, Goto, Moving, shared, frees
<1>4. ASSUME NEW t \in Threads, AllocLock(t) \/ FreeLock(t) \/ FreeUnlock(t) PROVE Arrays'
  <2>1. pc[t] \notin Moving /\ pc'[t] \notin Moving
    BY <1>0, <1>4 DEF AllocLock, FreeLock, FreeUnlock, Goto, Moving
  <2> QED BY <1>0, <1>1, <1>4, <2>1 DEF AllocLock, FreeLock, FreeUnlock, Goto, shared, frees
<1>5. ASSUME NEW t \in Threads, AllocUnlock(t) \/ FreeReject(t) \/ FreePost(t) \/ Return(t)
      PROVE Arrays'
  <2>1. pc[t] \notin Moving /\ pc'[t] \notin Moving
    BY <1>0, <1>5 DEF AllocUnlock, FreeReject, FreePost, Return, Leave, Goto, Moving
  <2>2. /\ UNCHANGED shared
        /\ \A u \in Threads \ {t} : /\ pc'[u] = pc[u] /\ data_idx'[u] = data_idx[u]
                                    /\ del'[u] = del[u] /\ swap'[u] = swap[u]
    BY <1>0, <1>5 DEF AllocUnlock, FreeReject, FreePost, Return, Leave, Goto, frees
  <2> QED BY <1>1, <2>1, <2>2 DEF shared
<1>6. ASSUME NEW t \in Threads, LookupIndex(t) \/ LookupUsed(t) \/ LookupTest(t) PROVE Arrays'
  BY <1>0, <1>1, <1>6 DEF LookupIndex, LookupUsed, LookupTest, Goto, Moving, shared, frees
\* Allocations move the boundary, not the arrays.
<1>7. ASSUME NEW t \in Threads, AllocTake(t) PROVE Arrays'
  <2>1. \A u \in Threads : pc[u] \notin Moving /\ pc'[u] \notin Moving
    BY <1>0, <1>2, <1>7 DEF AllocTake, Goto, Critical, Moving
  <2>2. UNCHANGED <<block_ptr, index_ptr, data_ptr>>
    BY <1>7 DEF AllocTake
  <2> QED BY <2>1, <2>2 DEF Arrays, MutuallyInverse
\* Before the first store the arrays are inverse, so the freed block is where
\* index_ptr says and the last block in use is at num_used - 1.
<1>8. ASSUME NEW t \in Threads, FreeTake(t) PROVE Arrays'
  <2>1. \A u \in Threads : pc[u] \notin Moving /\ (u # t => pc'[u] \notin Moving)
    BY <1>0, <1>2, <1>8 DEF FreeTake, Goto, Critical, Moving
  <2>2. MutuallyInverse
    BY <2>1 DEF Arrays
  <2>3. /\ pc'[t] = "free_swap" /\ data_idx'[t] = data_idx[t]
        /\ del'[t] = index_ptr[data_idx[t]]
        /\ swap'[t] = block_ptr[num_used - 1]
        /\ num_used' = num_used - 1
        /\ UNCHANGED <<block_ptr, index_ptr, data_ptr>>
    BY <1>0, <1>8 DEF FreeTake, Goto
  <2>4. /\ data_idx[t] \in Blocks /\ num_used - 1 \in Blocks
        /\ index_ptr[data_idx[t]] \in Blocks /\ index_ptr[data_idx[t]] <= num_used - 1
    <3>1. /\ data_idx[t] < num_max /\ num_used # 0
          /\ ~(index_ptr[data_idx[t]] >= num_used)
      BY <1>8 DEF FreeTake, NotInUse
    <3>2. data_idx[t] \in Blocks /\ num_used - 1 \in Blocks
      BY <1>0, <3>1 DEF Blocks
    <3>3. index_ptr[data_idx[t]] \in Blocks
      BY <1>0, <3>2
    <3>4. index_ptr[data_idx[t]] \in Nat
      BY <3>3 DEF Blocks
    <3> QED BY <1>0, <3>1, <3>2, <3>3, <3>4
  <2>5. Hole(t)'
    <3> DEFINE x == data_idx[t]
               n == num_used - 1
               d == index_ptr[x]
               s == block_ptr[n]
    <3>1. /\ x \in Blocks /\ n \in Blocks /\ d \in Blocks /\ s \in Blocks /\ d <= n
          /\ block_ptr[d] = x /\ index_ptr[s] = n
          /\ x = s => d = n
      BY <1>0, <2>2, <2>4 DEF MutuallyInverse
    <3>2. ASSUME NEW i \in Blocks \ {d, n}
          PROVE  block_ptr[i] \notin {x, s} /\ index_ptr[block_ptr[i]] = i
      BY <2>2, <3>1 DEF MutuallyInverse
    <3>3. ASSUME NEW b \in Blocks \ {x, s}
          PROVE  index_ptr[b] \notin {d, n} /\ block_ptr[index_ptr[b]] = b
      BY <2>2, <3>1 DEF MutuallyInverse
    <3> HIDE DEF x, n, d, s
    <3>4. /\ data_idx'[t] = x /\ del'[t] = d /\ swap'[t] = s /\ num_used' = n
          /\ pc'[t] = "free_swap" /\ UNCHANGED <<block_ptr, index_ptr>>
          /\ index_ptr[x] = d /\ block_ptr[n] = s
      BY <2>3 DEF x, n, d, s
    <3>5. Blocks' = Blocks
      BY DEF Blocks
    <3> QED BY <3>1, <3>2, <3>3, <3>4, <3>5 DEF Hole
  <2> QED BY <2>1, <2>3, <2>5 DEF Arrays, Moving
<1>9. ASSUME NEW t \in Threads, FreeSwap(t) PROVE Arrays'
  <2>1. \A u \in Threads : u # t => pc'[u] \notin Moving
    BY <1>0, <1>2, <1>9 DEF FreeSwap, Goto, Critical, Moving
  <2>2. Hole(t) /\ pc[t] = "free_swap"
    BY <1>9 DEF FreeSwap, Arrays, Moving
  <2>3. /\ pc'[t] = "free_del"
        /\ index_ptr' = [index_ptr EXCEPT ![swap[t]] = del[t]]
        /\ UNCHANGED <<num_used, block_ptr, data_ptr, data_idx, del, swap>>
    BY <1>0, <1>9 DEF FreeSwap, Goto, frees
  <2>4. Hole(t)'
    BY <1>0, <2>2, <2>3 DEF Hole
  <2> QED BY <2>1, <2>3, <2>4 DEF Arrays, Moving
<1>10. ASSUME NEW t \in Threads, FreeDel(t) PROVE Arrays'
  <2>1. \A u \in Threads : u # t => pc'[u] \notin Moving
    BY <1>0, <1>2, <1>10 DEF FreeDel, Goto, Critical, Moving
  <2>2. Hole(t) /\ pc[t] = "free_del"
    BY <1>10 DEF FreeDel, Arrays, Moving
  <2>3. /\ pc'[t] = "free_ptrs"
        /\ index_ptr' = [index_ptr EXCEPT ![data_idx[t]] = num_used]
        /\ UNCHANGED <<num_used, block_ptr, data_ptr, data_idx, del, swap>>
    BY <1>0, <1>10 DEF FreeDel, Goto, frees
  <2>4. Hole(t)'
    BY <1>0, <2>2, <2>3 DEF Hole
  <2> QED BY <2>1, <2>3, <2>4 DEF Arrays, Moving
\* The last stores put both blocks where index_ptr already says they are.
<1>11. ASSUME NEW t \in Threads, FreePtrs(t) PROVE Arrays'
  <2>1. \A u \in Threads : pc'[u] \notin Moving
    BY <1>0, <1>2, <1>11 DEF FreePtrs, Goto, Critical, Moving
  <2>2. Hole(t) /\ pc[t] = "free_ptrs"
    BY <1>11 DEF FreePtrs, Arrays, Moving
  <2>3. /\ block_ptr' = [block_ptr EXCEPT ![del[t]] = swap[t], ![num_used] = data_idx[t]]
        /\ data_ptr'  = [data_ptr  EXCEPT ![del[t]] = swap[t], ![num_used] = data_idx[t]]
        /\ UNCHANGED <<num_used, index_ptr>>
    BY <1>11 DEF FreePtrs
  <2>4. MutuallyInverse'
    <3> DEFINE x == data_idx[t]
               n == num_used
               d == del[t]
               s == swap[t]
    <3>1. /\ x \in Blocks /\ n \in Blocks /\ d \in Blocks /\ s \in Blocks
          /\ index_ptr[x] = n /\ index_ptr[s] = d /\ (x = s => d = n)
          /\ \A i \in Blocks \ {d, n} : block_ptr[i] \notin {x, s} /\ index_ptr[block_ptr[i]] = i
          /\ \A b \in Blocks \ {x, s} : index_ptr[b] \notin {d, n} /\ block_ptr[index_ptr[b]] = b
      BY <1>0, <2>2 DEF Hole
    <3> HIDE DEF x, n, d, s
    <3>2. /\ \A i \in Blocks \ {d, n} : block_ptr'[i] = block_ptr[i]
          /\ block_ptr'[n] = x
          /\ d # n => block_ptr'[d] = s
      BY <1>0, <2>3, <3>1 DEF x, n, d, s
    <3>3. d = n => x = s
      BY <1>0, <2>2 DEF Hole, x, n, d, s
    <3>4. \A b \in Blocks : block_ptr'[index_ptr[b]] = b
      BY <1>0, <3>1, <3>2, <3>3
    <3>5. \A i \in Blocks : index_ptr[block_ptr'[i]] = i
      BY <1>0, <3>1, <3>2, <3>3
    <3> QED BY <2>3, <3>4, <3>5 DEF MutuallyInverse, Blocks
  <2> QED BY <2>1, <2>3, <2>4 DEF Arrays
<1>12. CASE UNCHANGED vars
  <2>1. UNCHANGED <<num_used, block_ptr, index_ptr, data_ptr, pc, data_idx, del, swap>>
    BY <1>12 DEF vars, shared, frees
  <2> QED BY <2>1 DEF Arrays, MutuallyInverse, Hole
<1> QED BY <1>3, <1>4, <1>5, <1>6, <1>7, <1>8, <1>9, <1>10, <1>11, <1>12 DEF Next, Step

\* A lookup is about a block of the pool, and keeps being so.
LookupInRange == \A t \in Threads : pc[t] = "lookup" => data_idx[t] \in Blocks

\* A lookup under way keeps its argument, which was tested on entry (193).
LEMMA LookupInRangeStep == TypeBase /\ LookupInRange /\ [Next]_vars => LookupInRange'
<1> SUFFICES ASSUME TypeBase, LookupInRange, [Next]_vars PROVE LookupInRange'
  OBVIOUS
<1>0. /\ pc \in [Threads -> Labels] /\ data_idx \in [Threads -> 0 .. num_max]
      /\ num_max \in Nat \ {0}
  BY PoolAssumption DEF TypeBase
<1> USE <1>0 DEF LookupInRange
<1>1. ASSUME NEW t \in Threads, NEW idx \in 0 .. num_max, LookupCall(t, idx)
      PROVE LookupInRange'
  BY <1>1 DEF LookupCall, Goto, Blocks
<1>2. ASSUME NEW t \in Threads, pc'[t] # "lookup" \/ UNCHANGED <<pc, data_idx>>,
             \A u \in Threads \ {t} : pc'[u] = pc[u] /\ data_idx'[u] = data_idx[u]
      PROVE LookupInRange'
  BY <1>2 DEF Blocks
<1>3. ASSUME NEW t \in Threads, NEW timed \in BOOLEAN, AllocCall(t, timed) PROVE LookupInRange'
  BY <1>2, <1>3 DEF AllocCall, Goto
<1>4. ASSUME NEW t \in Threads, NEW idx \in 0 .. num_max, FreeCall(t, idx) PROVE LookupInRange'
  BY <1>2, <1>4 DEF FreeCall, Goto
<1>5. ASSUME NEW t \in Threads, List(t) \/ SemWake(t) \/ SemTimeout(t) \/ AllocLock(t)
                                 \/ AllocTake(t) \/ FreeLock(t) \/ FreeReject(t)
      PROVE LookupInRange'
  BY <1>2, <1>5 DEF List, SemWake, SemTimeout, AllocLock, AllocTake, FreeLock, FreeReject, Goto
<1>6. ASSUME NEW t \in Threads, FreeTake(t) \/ FreeSwap(t) \/ FreeDel(t) \/ FreePtrs(t)
                                 \/ FreeUnlock(t) \/ LookupTest(t)
      PROVE LookupInRange'
  BY <1>2, <1>6 DEF FreeTake, FreeSwap, FreeDel, FreePtrs, FreeUnlock, LookupTest, Goto
<1>7. ASSUME NEW t \in Threads, AllocUnlock(t) \/ FreePost(t) \/ Return(t)
      PROVE LookupInRange'
  BY <1>2, <1>7 DEF AllocUnlock, FreePost, Return, Leave
<1>8. ASSUME NEW t \in Threads, LookupIndex(t) \/ LookupUsed(t) PROVE LookupInRange'
  BY <1>2, <1>8 DEF LookupIndex, LookupUsed
<1>9. CASE UNCHANGED vars
  BY <1>9 DEF vars, Blocks
<1> QED BY <1>1, <1>3, <1>4, <1>5, <1>6, <1>7, <1>8, <1>9 DEF Next, Call, Step

\* What TypeStep needs is what the two say together.
LEMMA InRange == Arrays /\ LookupInRange => ArgInRange
  BY DEF Arrays, Moving, Hole, LookupInRange, ArgInRange

----------------------------------------------------------------------------
(* The semaphore. *)

\* All counts are with the semaphore at first.
LEMMA SemInit == Init => SemAccounting
<1> SUFFICES ASSUME Init PROVE SemAccounting
  OBVIOUS
<1>1. Promised = {} /\ Returning = {}
  BY DEF Init, Promised, Returning
<1> QED BY <1>1, PoolAssumption, FS_EmptySet DEF Init, SemAccounting

\* Whoever is about to take a block holds a count, so one is left.
LEMMA NoOverrun == TypeBase /\ SemAccounting => AllocNeverOverruns
<1> SUFFICES ASSUME TypeBase, SemAccounting, NEW t \in Threads, pc[t] = "alloc_take"
             PROVE  num_used < num_max
  BY DEF AllocNeverOverruns
<1>0. sem \in Nat /\ num_used \in Nat /\ num_max \in Nat
  BY PoolAssumption DEF TypeBase
<1>1. IsFiniteSet(Promised) /\ IsFiniteSet(Returning)
  BY PoolAssumption, FS_Subset, Promised \subseteq Threads, Returning \subseteq Threads
     DEF Promised, Returning
<1>2. Cardinality(Promised) \in Nat /\ Cardinality(Returning) \in Nat
  BY <1>1, FS_CardinalityType
<1>3. Cardinality(Promised) # 0
  <2>1. t \in Promised
    BY DEF Promised
  <2> QED BY <1>1, <2>1, FS_EmptySet
<1>4. sem + num_used + Cardinality(Promised) + Cardinality(Returning) = num_max
  BY DEF SemAccounting
<1> QED BY <1>0, <1>2, <1>3, <1>4

\* Each step moves as many counts out of one term of the sum as into another.
LEMMA SemStep == TypeBase /\ SemAccounting /\ [Next]_vars => SemAccounting'
<1> SUFFICES ASSUME TypeBase, SemAccounting, [Next]_vars PROVE SemAccounting'
  OBVIOUS
<1>0. /\ pc \in [Threads -> Labels] /\ sem \in Nat
      /\ num_used \in Nat /\ num_max \in Nat
  BY PoolAssumption DEF TypeBase
<1> DEFINE P == {"alloc_lock", "alloc_take"}
           Q == {"free_swap", "free_del", "free_ptrs", "free_unlock", "free_post"}
\* A step that moves thread t to l keeps the sum when the variables make up for
\* what the two sets of threads gain and lose.
<1>1. ASSUME NEW t \in Threads, pc' = [pc EXCEPT ![t] = pc'[t]], pc'[t] \in Labels,
             sem' \in Int, num_used' \in Int,
             sem' + num_used' + Inside(pc'[t], P) + Inside(pc'[t], Q)
               = sem + num_used + Inside(pc[t], P) + Inside(pc[t], Q)
      PROVE  SemAccounting'
  <2>1. /\ Cardinality(Promised) = Count(Threads, pc, P)
        /\ Cardinality(Promised)' = Count(Threads, pc', P)
        /\ Cardinality(Returning) = Count(Threads, pc, Q)
        /\ Cardinality(Returning)' = Count(Threads, pc', Q)
    BY DEF Promised, Returning, Count
  <2> DEFINE l == pc'[t]
  <2> HIDE DEF P, Q
  <2>2. /\ Count(Threads, pc, P) \in Nat
        /\ Count(Threads, pc', P) = Count(Threads, pc, P) + Inside(l, P) - Inside(pc[t], P)
    BY <1>0, <1>1, PoolAssumption, CountPositive, CountMove
  <2>3. /\ Count(Threads, pc, Q) \in Nat
        /\ Count(Threads, pc', Q) = Count(Threads, pc, Q) + Inside(l, Q) - Inside(pc[t], Q)
    BY <1>0, <1>1, PoolAssumption, CountPositive, CountMove
  <2>4. /\ Inside(l, P) \in Int /\ Inside(pc[t], P) \in Int
        /\ Inside(l, Q) \in Int /\ Inside(pc[t], Q) \in Int
    BY DEF Inside
  <2> QED BY <1>0, <1>1, <2>1, <2>2, <2>3, <2>4 DEF SemAccounting
\* In most steps thread t enters and leaves neither set.
<1>2. ASSUME NEW t \in Threads, pc' = [pc EXCEPT ![t] = pc'[t]], pc'[t] \in Labels,
             UNCHANGED <<sem, num_used>>,
             pc[t] \in P <=> pc'[t] \in P, pc[t] \in Q <=> pc'[t] \in Q
      PROVE  SemAccounting'
  <2>1. Inside(pc'[t], P) = Inside(pc[t], P) /\ Inside(pc'[t], Q) = Inside(pc[t], Q)
    BY <1>2 DEF Inside
  <2> HIDE DEF P, Q
  <2> QED BY <1>0, <1>1, <1>2, <2>1
<1>3. ASSUME NEW t \in Threads, NEW timed \in BOOLEAN, AllocCall(t, timed) PROVE SemAccounting'
  <2>1. CASE sem > 0
    <3>1. /\ pc' = [pc EXCEPT ![t] = "alloc_lock"] /\ pc[t] = "idle"
          /\ sem' = sem - 1 /\ num_used' = num_used
      BY <1>3, <2>1 DEF AllocCall, Goto, shared
    <3>2. pc'[t] = "alloc_lock" /\ "alloc_lock" \in Labels
      BY <1>0, <3>1 DEF Labels
    <3>3. /\ Inside("alloc_lock", P) = 1 /\ Inside("alloc_lock", Q) = 0
          /\ Inside("idle", P) = 0 /\ Inside("idle", Q) = 0
      BY DEF Inside
    <3> HIDE DEF P, Q
    <3>4. /\ sem' \in Int /\ num_used' \in Int
          /\ sem' + num_used' + Inside(pc'[t], P) + Inside(pc'[t], Q)
               = sem + num_used + Inside(pc[t], P) + Inside(pc[t], Q)
      BY <1>0, <3>1, <3>2, <3>3
    <3>5. pc' = [pc EXCEPT ![t] = pc'[t]] /\ pc'[t] \in Labels
      BY <3>1, <3>2
    <3> QED BY <1>1, <3>4, <3>5
  <2>2. CASE ~(sem > 0)
    BY <1>0, <1>2, <1>3, <2>2 DEF AllocCall, Goto, shared, Labels
  <2> QED BY <2>1, <2>2
<1>4. ASSUME NEW t \in Threads, NEW idx \in 0 .. num_max, FreeCall(t, idx) PROVE SemAccounting'
  BY <1>0, <1>2, <1>4 DEF FreeCall, Goto, shared, Labels
<1>5. ASSUME NEW t \in Threads, NEW idx \in 0 .. num_max, LookupCall(t, idx) PROVE SemAccounting'
  BY <1>0, <1>2, <1>5 DEF LookupCall, Goto, shared, Labels
<1>6. ASSUME NEW t \in Threads, List(t) \/ SemTimeout(t) \/ AllocLock(t) \/ FreeLock(t)
      PROVE  SemAccounting'
  BY <1>0, <1>2, <1>6 DEF List, SemTimeout, AllocLock, FreeLock, Goto, shared, Labels
<1>7. ASSUME NEW t \in Threads, SemWake(t) PROVE SemAccounting'
  <2>1. /\ pc' = [pc EXCEPT ![t] = "alloc_lock"] /\ pc[t] \in {"sem_wait", "sem_timedwait"}
        /\ sem' = sem - 1 /\ num_used' = num_used
    BY <1>7 DEF SemWake, Goto, shared
  <2>2. pc'[t] = "alloc_lock" /\ "alloc_lock" \in Labels
    BY <1>0, <2>1 DEF Labels
  <2>3. /\ Inside("alloc_lock", P) = 1 /\ Inside("alloc_lock", Q) = 0
        /\ Inside(pc[t], P) = 0 /\ Inside(pc[t], Q) = 0
    BY <2>1 DEF Inside
  <2> HIDE DEF P, Q
  <2>4. /\ sem' \in Int /\ num_used' \in Int
        /\ sem' + num_used' + Inside(pc'[t], P) + Inside(pc'[t], Q)
             = sem + num_used + Inside(pc[t], P) + Inside(pc[t], Q)
    BY <1>0, <2>1, <2>2, <2>3
  <2>5. pc' = [pc EXCEPT ![t] = pc'[t]] /\ pc'[t] \in Labels
    BY <2>1, <2>2
  <2> QED BY <1>1, <2>4, <2>5
<1>8. ASSUME NEW t \in Threads, AllocTake(t) PROVE SemAccounting'
  <2>1. num_used < num_max
    BY <1>8, NoOverrun DEF AllocTake, AllocNeverOverruns
  <2>2. /\ pc' = [pc EXCEPT ![t] = "alloc_unlock"] /\ pc[t] = "alloc_take"
        /\ sem' = sem /\ num_used' = num_used + 1
    BY <1>0, <1>8, <2>1 DEF AllocTake, Goto
  <2>3. pc'[t] = "alloc_unlock" /\ "alloc_unlock" \in Labels
    BY <1>0, <2>2 DEF Labels
  <2>4. /\ Inside("alloc_unlock", P) = 0 /\ Inside("alloc_unlock", Q) = 0
        /\ Inside("alloc_take", P) = 1 /\ Inside("alloc_take", Q) = 0
    BY DEF Inside
  <2> HIDE DEF P, Q
  <2>5. /\ sem' \in Int /\ num_used' \in Int
        /\ sem' + num_used' + Inside(pc'[t], P) + Inside(pc'[t], Q)
             = sem + num_used + Inside(pc[t], P) + Inside(pc[t], Q)
    BY <1>0, <2>2, <2>3, <2>4
  <2>6. pc' = [pc EXCEPT ![t] = pc'[t]] /\ pc'[t] \in Labels
    BY <2>2, <2>3
  <2> QED BY <1>1, <2>5, <2>6
<1>9. ASSUME NEW t \in Threads, AllocUnlock(t) \/ Return(t) PROVE SemAccounting'
  BY <1>0, <1>2, <1>9 DEF AllocUnlock, Return, Leave, shared, Labels
<1>10. ASSUME NEW t \in Threads, FreeReject(t) \/ FreeUnlock(t) \/ LookupTest(t)
       PROVE  SemAccounting'
  BY <1>0, <1>2, <1>10 DEF FreeReject, FreeUnlock, LookupTest, Goto, shared, Labels
<1>11. ASSUME NEW t \in Threads, FreeTake(t) PROVE SemAccounting'
  <2>1. /\ pc' = [pc EXCEPT ![t] = "free_swap"] /\ pc[t] = "free_check"
        /\ sem' = sem /\ num_used' = num_used - 1
    BY <1>11 DEF FreeTake, Goto
  <2>2. pc'[t] = "free_swap" /\ "free_swap" \in Labels
    BY <1>0, <2>1 DEF Labels
  <2>3. /\ Inside("free_swap", P) = 0 /\ Inside("free_swap", Q) = 1
        /\ Inside("free_check", P) = 0 /\ Inside("free_check", Q) = 0
    BY DEF Inside
  <2> HIDE DEF P, Q
  <2>4. /\ sem' \in Int /\ num_used' \in Int
        /\ sem' + num_used' + Inside(pc'[t], P) + Inside(pc'[t], Q)
             = sem + num_used + Inside(pc[t], P) + Inside(pc[t], Q)
    BY <1>0, <2>1, <2>2, <2>3
  <2>5. pc' = [pc EXCEPT ![t] = pc'[t]] /\ pc'[t] \in Labels
    BY <2>1, <2>2
  <2> QED BY <1>1, <2>4, <2>5
<1>12. ASSUME NEW t \in Threads, FreeSwap(t) \/ FreeDel(t) \/ FreePtrs(t) PROVE SemAccounting'
  BY <1>0, <1>2, <1>12 DEF FreeSwap, FreeDel, FreePtrs, Goto, Labels
<1>13. ASSUME NEW t \in Threads, FreePost(t) PROVE SemAccounting'
  <2>1. /\ pc' = [pc EXCEPT ![t] = "idle"] /\ pc[t] = "free_post"
        /\ sem' = sem + 1 /\ num_used' = num_used
    BY <1>13 DEF FreePost, Leave, shared
  <2>2. pc'[t] = "idle" /\ "idle" \in Labels
    BY <1>0, <2>1 DEF Labels
  <2>3. /\ Inside("idle", P) = 0 /\ Inside("idle", Q) = 0
        /\ Inside("free_post", P) = 0 /\ Inside("free_post", Q) = 1
    BY DEF Inside
  <2> HIDE DEF P, Q
  <2>4. /\ sem' \in Int /\ num_used' \in Int
        /\ sem' + num_used' + Inside(pc'[t], P) + Inside(pc'[t], Q)
             = sem + num_used + Inside(pc[t], P) + Inside(pc[t], Q)
    BY <1>0, <2>1, <2>2, <2>3
  <2>5. pc' = [pc EXCEPT ![t] = pc'[t]] /\ pc'[t] \in Labels
    BY <2>1, <2>2
  <2> QED BY <1>1, <2>4, <2>5
<1>14. ASSUME UNCHANGED <<sem, num_used, pc>> PROVE SemAccounting'
  BY <1>14 DEF SemAccounting, Promised, Returning
<1>15. ASSUME NEW t \in Threads, LookupIndex(t) \/ LookupUsed(t) PROVE SemAccounting'
  BY <1>14, <1>15 DEF LookupIndex, LookupUsed, shared
<1>16. CASE UNCHANGED vars
  BY <1>14, <1>16 DEF vars, shared
<1> QED BY <1>3, <1>4, <1>5, <1>6, <1>7, <1>8, <1>9, <1>10, <1>11, <1>12, <1>13, <1>15, <1>16
        DEF Next, Call, Step

----------------------------------------------------------------------------
(* The invariant. *)

IInv == TypeBase /\ MutexHeld /\ Arrays /\ LookupInRange /\ SemAccounting

\* The inductive invariant holds at first.
LEMMA IInvInit == Init => IInv
<1>1. Init => LookupInRange
  BY DEF Init, LookupInRange
<1> QED BY <1>1, TypeInit, MutexInit, ArraysInit, SemInit DEF IInv

\* Every step keeps the inductive invariant.
LEMMA IInvStep == IInv /\ [Next]_vars => IInv'
  BY TypeStep, MutexStep, ArraysStep, InRange, LookupInRangeStep, SemStep DEF IInv

\* The counts bound the semaphore.
LEMMA SemBound == TypeBase /\ SemAccounting => sem \in 0 .. num_max
<1> SUFFICES ASSUME TypeBase, SemAccounting PROVE sem \in 0 .. num_max
  OBVIOUS
<1>0. sem \in Nat /\ num_used \in Nat /\ num_max \in Nat
  BY PoolAssumption DEF TypeBase
<1>1. IsFiniteSet(Promised) /\ IsFiniteSet(Returning)
  BY PoolAssumption, FS_Subset, Promised \subseteq Threads, Returning \subseteq Threads
     DEF Promised, Returning
<1>2. Cardinality(Promised) \in Nat /\ Cardinality(Returning) \in Nat
  BY <1>1, FS_CardinalityType
<1>3. sem + num_used + Cardinality(Promised) + Cardinality(Returning) = num_max
  BY DEF SemAccounting
<1> QED BY <1>0, <1>2, <1>3

\* Types, mutual exclusion, the state of the arrays in the middle of a free, the
\* range of lookups and the accounting hold together in every reachable state.
THEOREM PoolInvariant == Spec => []IInv
  BY IInvInit, IInvStep, PTL DEF Spec

\* Whatever the number of blocks and threads, every variable of the pool keeps
\* its type; in particular the semaphore never counts more than num_max
\* (em_mempool.c:165-230), and no store of a free leaves the arrays (217-225).
THEOREM PoolTypeCorrect == Spec => []TypeOK
<1>1. IInv => TypeOK
  BY SemBound DEF IInv, TypeBase, TypeOK
<1> QED BY <1>1, PoolInvariant, PTL

\* Semaphore counts, blocks in use and calls in between add up to the pool in
\* every reachable state: em_mempool_alloc_block and _free_block lose no block
\* and make none twice, whichever threads race and time out.
THEOREM PoolAccounts == Spec => []SemAccounting
<1>1. IInv => SemAccounting
  BY DEF IInv
<1> QED BY <1>1, PoolInvariant, PTL

\* The failure branch of _em_mpool_alloc_blockmng (line 154), on which the caller
\* would keep a semaphore count for ever, is never taken.
THEOREM PoolNeverOverruns == Spec => []AllocNeverOverruns
<1>1. IInv => AllocNeverOverruns
  BY NoOverrun DEF IInv
<1> QED BY <1>1, PoolInvariant, PTL

\* The swap of a free (215-225) leaves block_ptr and index_ptr inverse to each
\* other and data_ptr the mirror of block_ptr, whichever block it removes.
THEOREM PoolIndexInverse == Spec => []IndexInverse
<1>1. IInv => IndexInverse
  BY DEF IInv, Arrays, MutuallyInverse, IndexInverse, Swapping, Moving
<1> QED BY <1>1, PoolInvariant, PTL

\* The pool is sound for every number of threads and blocks: what the runs check of
\* PoolSound on three blocks holds of all of them (em_mempool.c:151-230).
THEOREM PoolSoundness == Spec => []PoolSound
<1>1. TypeOK /\ SemAccounting /\ IndexInverse => PoolSound
  BY DEF PoolSound
<1> QED BY <1>1, PoolTypeCorrect, PoolAccounts, PoolIndexInverse, PTL

----------------------------------------------------------------------------
(* em_mpool_get_dataptr reads two variables of the pool without the mutex: what it  *)
(* may still be trusted with.                                                       *)

\* Outside a lookup its locals are empty.
Fresh == \A u \in Threads :
  pc[u] \notin {"lookup", "found", "missing"} => seenIndex[u] = Unread /\ seenUsed[u] = Unread

\* A block that a lookup has not seen live lies behind the blocks in use, and no free
\* is moving it.  Its place does not change while this is so: what the lookup has read
\* of index_ptr is still true, and what it has read of num_used is not beyond it.
Untouched(u) ==
  LET b == data_idx[u] IN
  /\ num_used <= index_ptr[b]
  /\ \A t \in Threads : pc[t] \in Moving => b # data_idx[t] /\ b # swap[t]
  /\ seenIndex[u] # Unread => seenIndex[u] = index_ptr[b]
  /\ seenUsed[u] # Unread => seenUsed[u] <= index_ptr[b]

LookupInv == /\ Fresh
             /\ \A u \in Threads : pc[u] = "lookup" /\ ~touched[u] => Untouched(u)
             /\ LookupSound

\* Nobody is looking anything up at first.
LEMMA LookupInit == Init => LookupInv
  BY DEF Init, LookupInv, Fresh, LookupSound

\* A thread inside a critical section is alone there.
LEMMA Alone ==
  ASSUME MutexHeld, NEW t \in Threads, pc[t] \in Critical, NEW u \in Threads \ {t}
  PROVE  pc[u] \notin Critical
  BY PoolAssumption DEF MutexHeld

\* When nobody is moving a block, the arrays are inverse.
LEMMA Settled ==
  ASSUME MutexHeld, Arrays, NEW t \in Threads, pc[t] \in Critical, pc[t] \notin Moving
  PROVE  MutuallyInverse
<1>1. \A u \in Threads : pc[u] \notin Moving
  BY Alone DEF Critical, Moving
<1> QED BY <1>1 DEF Arrays

\* A block that is not in use when a lookup of it starts, and is not being freed, lies
\* behind the blocks in use.
LEMMA StartsUntouched ==
  ASSUME IInv, NEW b \in Blocks, b \notin Live, \A t \in Swapping : b # data_idx[t]
  PROVE  /\ num_used <= index_ptr[b]
         /\ \A t \in Threads : pc[t] \in Moving => b # swap[t]
<1>0. /\ num_used \in 0 .. num_max /\ num_max \in Nat \ {0}
      /\ index_ptr \in [Blocks -> Blocks] /\ block_ptr \in [Blocks -> Blocks]
  BY PoolAssumption DEF IInv, TypeBase
<1>1. Swapping = {t \in Threads : pc[t] \in Moving}
  BY DEF Swapping, Moving
<1>2. ASSUME NEW t \in Swapping PROVE b # swap[t]
  BY <1>2 DEF Live
<1>3. ASSUME index_ptr[b] < num_used, block_ptr[index_ptr[b]] = b PROVE FALSE
  <2>1. index_ptr[b] \in 0 .. num_used - 1
    BY <1>0, <1>3 DEF Blocks
  <2>2. b \in {block_ptr[i] : i \in 0 .. num_used - 1}
    BY <1>3, <2>1
  <2> QED BY <2>2 DEF Live
<1>4. block_ptr[index_ptr[b]] = b
  <2>1. CASE Swapping = {}
    BY <1>1, <2>1 DEF IInv, Arrays, MutuallyInverse
  <2>2. CASE Swapping # {}
    <3>1. PICK t \in Swapping : TRUE
      BY <2>2
    <3>2. Hole(t) /\ b # data_idx[t] /\ b # swap[t]
      BY <1>1, <1>2, <3>1 DEF IInv, Arrays
    <3> QED BY <3>2 DEF Hole
  <2> QED BY <2>1, <2>2
<1>5. num_used <= index_ptr[b]
  BY <1>0, <1>3, <1>4 DEF Blocks
<1> QED BY <1>1, <1>2, <1>5

\* Every step keeps what an unfinished lookup relies on.
LEMMA LookupStep == IInv /\ LookupInv /\ [Next]_vars => LookupInv'
<1> SUFFICES ASSUME IInv, LookupInv, [Next]_vars PROVE LookupInv'
  OBVIOUS
<1>0. /\ pc \in [Threads -> Labels] /\ block_ptr \in [Blocks -> Blocks]
      /\ index_ptr \in [Blocks -> Blocks] /\ del \in [Threads -> Blocks]
      /\ swap \in [Threads -> Blocks] /\ data_idx \in [Threads -> 0 .. num_max]
      /\ num_used \in 0 .. num_max /\ num_max \in Nat \ {0}
      /\ seenIndex \in [Threads -> Blocks \cup {Unread}]
      /\ seenUsed \in [Threads -> 0 .. num_max \cup {Unread}]
      /\ touched \in [Threads -> BOOLEAN]
  BY PoolAssumption DEF IInv, TypeBase
<1>00. \A u \in Threads : pc[u] = "lookup" => data_idx[u] \in Blocks
  BY DEF IInv, LookupInRange
\* A step of thread t after which it looks nothing up and moves nothing: what the
\* others rely on is as before.
<1>1. ASSUME NEW t \in Threads, UNCHANGED <<num_used, index_ptr>>,
             pc'[t] \notin {"lookup", "found"} \cup Moving,
             pc'[t] = "missing" \/ (seenIndex'[t] = Unread /\ seenUsed'[t] = Unread),
             \A u \in Threads \ {t} : /\ pc'[u] = pc[u] /\ data_idx'[u] = data_idx[u]
                                      /\ swap'[u] = swap[u] /\ touched'[u] = touched[u]
                                      /\ seenIndex'[u] = seenIndex[u]
                                      /\ seenUsed'[u] = seenUsed[u]
      PROVE LookupInv'
  BY <1>0, <1>1 DEF LookupInv, Fresh, LookupSound, Untouched
<1>2. ASSUME NEW t \in Threads, NEW timed \in BOOLEAN, AllocCall(t, timed) PROVE LookupInv'
  BY <1>0, <1>1, <1>2 DEF AllocCall, Goto, LookupInv, Fresh, Moving, shared, frees, lookups
<1>3. ASSUME NEW t \in Threads, NEW idx \in 0 .. num_max, FreeCall(t, idx) PROVE LookupInv'
  BY <1>0, <1>1, <1>3 DEF FreeCall, Goto, LookupInv, Fresh, Moving, shared, frees, lookups
<1>4. ASSUME NEW t \in Threads, List(t) \/ SemWake(t) \/ SemTimeout(t) \/ AllocLock(t)
      PROVE LookupInv'
  BY <1>0, <1>1, <1>4 DEF List, SemWake, SemTimeout, AllocLock, Goto, LookupInv, Fresh, Moving,
                          shared, frees, lookups
<1>5. ASSUME NEW t \in Threads, FreeLock(t) \/ FreeReject(t) \/ FreePtrs(t) \/ FreeUnlock(t)
      PROVE LookupInv'
  BY <1>0, <1>1, <1>5 DEF FreeLock, FreeReject, FreePtrs, FreeUnlock, Goto, LookupInv, Fresh,
                          Moving, shared, frees, lookups
<1>6. ASSUME NEW t \in Threads, AllocUnlock(t) \/ FreePost(t) \/ Return(t) PROVE LookupInv'
  BY <1>0, <1>1, <1>6 DEF AllocUnlock, FreePost, Return, Leave, Moving, shared
\* The lookup's own steps.
<1>7. ASSUME NEW t \in Threads, NEW idx \in 0 .. num_max, LookupCall(t, idx) PROVE LookupInv'
  <2>1. /\ UNCHANGED <<num_used, index_ptr, swap, seenIndex, seenUsed>>
        /\ pc[t] = "idle" /\ pc'[t] = IF idx >= num_max THEN "missing" ELSE "lookup"
        /\ data_idx'[t] = idx
        /\ touched'[t] = (idx \in Live \cup {data_idx[u] : u \in Swapping})
        /\ \A u \in Threads \ {t} : /\ pc'[u] = pc[u] /\ data_idx'[u] = data_idx[u]
                                    /\ touched'[u] = touched[u]
    BY <1>0, <1>7 DEF LookupCall, Goto, shared, frees
  <2>2. seenIndex[t] = Unread /\ seenUsed[t] = Unread
    BY <2>1 DEF LookupInv, Fresh
  <2>3. CASE idx >= num_max
    BY <1>1, <2>1, <2>2, <2>3 DEF Moving
  <2>4. CASE ~(idx >= num_max)
    <3>1. idx \in Blocks /\ pc'[t] = "lookup"
      BY <1>0, <2>1, <2>4 DEF Blocks
    <3>2. ASSUME ~touched'[t] PROVE Untouched(t)'
      <4>1. idx \notin Live /\ \A u \in Swapping : idx # data_idx[u]
        BY <2>1, <3>2
      <4>2. /\ num_used <= index_ptr[idx]
            /\ \A u \in Threads : pc[u] \in Moving => idx # swap[u]
        BY <3>1, <4>1, StartsUntouched
      <4>3. \A u \in Threads : pc'[u] \in Moving =>
              pc[u] \in Moving /\ u \in Swapping /\ data_idx'[u] = data_idx[u]
        BY <2>1, <3>1 DEF Moving, Swapping
      <4> QED BY <2>1, <2>2, <4>1, <4>2, <4>3 DEF Untouched
    <3>3. ASSUME NEW u \in Threads \ {t}, pc'[u] = "lookup", ~touched'[u] PROVE Untouched(u)'
      <4>1. Untouched(u)
        BY <2>1, <3>3 DEF LookupInv
      <4>2. \A v \in Threads : pc'[v] \in Moving =>
              pc[v] \in Moving /\ data_idx'[v] = data_idx[v] /\ swap'[v] = swap[v]
        BY <2>1, <3>1 DEF Moving
      <4> QED BY <2>1, <3>3, <4>1, <4>2 DEF Untouched
    <3>4. Fresh' /\ LookupSound'
      BY <2>1, <3>1 DEF LookupInv, Fresh, LookupSound
    <3> QED BY <3>2, <3>3, <3>4 DEF LookupInv
  <2> QED BY <2>3, <2>4
<1>8. ASSUME NEW t \in Threads, LookupIndex(t) \/ LookupUsed(t) PROVE LookupInv'
  <2>1. /\ UNCHANGED <<num_used, index_ptr, pc, data_idx, swap, touched>>
        /\ pc[t] = "lookup"
        /\ \A u \in Threads \ {t} : seenIndex'[u] = seenIndex[u] /\ seenUsed'[u] = seenUsed[u]
        /\ seenIndex'[t] \in {seenIndex[t], index_ptr[data_idx[t]]}
        /\ seenUsed'[t] \in {seenUsed[t], num_used}
    BY <1>0, <1>8 DEF LookupIndex, LookupUsed, shared, frees
  <2>2. Fresh' /\ LookupSound'
    BY <2>1 DEF LookupInv, Fresh, LookupSound
  <2>3. ASSUME NEW u \in Threads, pc'[u] = "lookup", ~touched'[u] PROVE Untouched(u)'
    <3>1. Untouched(u)
      BY <2>1, <2>3 DEF LookupInv
    <3> QED BY <2>1, <2>3, <3>1 DEF Untouched
  <2> QED BY <2>2, <2>3 DEF LookupInv
\* What the two reads say of a block never seen live is that it is missing.
<1>9. ASSUME NEW t \in Threads, LookupTest(t) PROVE LookupInv'
  <2>1. /\ UNCHANGED <<num_used, index_ptr, data_idx, swap, touched, seenIndex, seenUsed>>
        /\ pc[t] = "lookup" /\ seenIndex[t] # Unread /\ seenUsed[t] # Unread
        /\ pc'[t] = IF seenIndex[t] >= seenUsed[t] THEN "missing" ELSE "found"
        /\ \A u \in Threads \ {t} : pc'[u] = pc[u]
    BY <1>0, <1>9 DEF LookupTest, Goto, shared, frees, lookups
  <2>2. pc'[t] = "found" => touched[t]
    <3> SUFFICES ASSUME ~touched[t] PROVE seenIndex[t] >= seenUsed[t]
      BY <2>1
    <3>1. seenIndex[t] = index_ptr[data_idx[t]] /\ seenUsed[t] <= index_ptr[data_idx[t]]
      BY <2>1 DEF LookupInv, Untouched
    <3>2. seenUsed[t] \in Int /\ index_ptr[data_idx[t]] \in Int
      BY <1>0, <1>00, <2>1 DEF Blocks, Unread
    <3> QED BY <3>1, <3>2
  <2>3. Fresh' /\ LookupSound'
    BY <2>1, <2>2 DEF LookupInv, Fresh, LookupSound
  <2>4. ASSUME NEW u \in Threads, pc'[u] = "lookup", ~touched'[u] PROVE Untouched(u)'
    <3>1. u # t /\ Untouched(u)
      BY <2>1, <2>4 DEF LookupInv
    <3>2. \A v \in Threads : pc'[v] \in Moving => pc[v] \in Moving
      BY <2>1 DEF Moving
    <3> QED BY <2>1, <3>1, <3>2 DEF Untouched
  <2> QED BY <2>3, <2>4 DEF LookupInv
\* An allocation hands out the first block behind those in use: a lookup of another
\* block finds its block still behind them, a lookup of this one has now seen it live.
<1>10. ASSUME NEW t \in Threads, AllocTake(t) PROVE LookupInv'
  <2>1. pc[t] = "alloc_take" /\ num_used < num_max
    BY <1>10, NoOverrun DEF AllocTake, IInv, AllocNeverOverruns
  <2>2. /\ num_used' = num_used + 1
        /\ UNCHANGED <<index_ptr, data_idx, swap, seenIndex, seenUsed>>
        /\ \A u \in Threads : touched'[u] = (touched[u] \/ (pc[u] = "lookup" /\ data_idx[u] = block_ptr[num_used]))
        /\ pc'[t] = "alloc_unlock"
        /\ \A u \in Threads \ {t} : pc'[u] = pc[u]
    BY <1>0, <1>10, <2>1 DEF AllocTake, Goto, frees
  <2>3. MutuallyInverse /\ \A u \in Threads : pc'[u] \notin Moving
    <3>1. \A u \in Threads \ {t} : pc[u] \notin Critical
      BY <2>1, Alone DEF IInv, Critical
    <3>2. MutuallyInverse
      BY <2>1, Settled DEF IInv, Critical, Moving
    <3> QED BY <2>2, <3>1, <3>2 DEF Critical, Moving
  <2>4. Fresh' /\ LookupSound'
    BY <2>1, <2>2 DEF LookupInv, Fresh, LookupSound
  <2>5. ASSUME NEW u \in Threads, pc'[u] = "lookup", ~touched'[u] PROVE Untouched(u)'
    <3>1. /\ pc[u] = "lookup" /\ ~touched[u] /\ data_idx[u] # block_ptr[num_used]
          /\ data_idx[u] \in Blocks
      BY <1>00, <2>2, <2>5
    <3>2. Untouched(u)
      BY <3>1 DEF LookupInv
    <3>3. index_ptr[data_idx[u]] # num_used
      BY <2>3, <3>1 DEF MutuallyInverse
    <3>4. num_used' <= index_ptr[data_idx[u]]
      <4>1. num_used <= index_ptr[data_idx[u]]
        BY <3>2 DEF Untouched
      <4>2. index_ptr[data_idx[u]] \in Int
        BY <1>0, <3>1 DEF Blocks
      <4> QED BY <1>0, <2>2, <3>3, <4>1, <4>2
    <3> QED BY <2>2, <2>3, <3>2, <3>4 DEF Untouched
  <2> QED BY <2>4, <2>5 DEF LookupInv
\* A free lowers the boundary and moves two blocks that were in use.
<1>11. ASSUME NEW t \in Threads, FreeTake(t) PROVE LookupInv'
  <2>1. /\ pc[t] = "free_check" /\ ~NotInUse(data_idx[t])
        /\ num_used' = num_used - 1
        /\ UNCHANGED <<index_ptr, data_idx, seenIndex, seenUsed, touched>>
        /\ swap'[t] = block_ptr[num_used - 1]
        /\ pc'[t] = "free_swap"
        /\ \A u \in Threads \ {t} : pc'[u] = pc[u] /\ swap'[u] = swap[u]
    BY <1>0, <1>11 DEF FreeTake, Goto
  <2>2. /\ MutuallyInverse
        /\ \A u \in Threads \ {t} : pc'[u] \notin Moving
    <3>1. \A u \in Threads \ {t} : pc[u] \notin Critical
      BY <2>1, Alone DEF IInv, Critical
    <3>2. MutuallyInverse
      BY <2>1, Settled DEF IInv, Critical, Moving
    <3> QED BY <2>1, <3>1, <3>2 DEF Critical, Moving
  <2>3. /\ index_ptr[data_idx[t]] < num_used
        /\ num_used - 1 \in Blocks /\ index_ptr[block_ptr[num_used - 1]] = num_used - 1
    <3>1. /\ data_idx[t] < num_max /\ num_used # 0
          /\ ~(index_ptr[data_idx[t]] >= num_used)
      BY <2>1 DEF NotInUse
    <3>2. data_idx[t] \in Blocks /\ num_used - 1 \in Blocks
      BY <1>0, <3>1 DEF Blocks
    <3>3. index_ptr[data_idx[t]] \in Int
      BY <1>0, <3>2 DEF Blocks
    <3> QED BY <1>0, <2>2, <3>1, <3>2, <3>3 DEF MutuallyInverse
  <2>4. Fresh' /\ LookupSound'
    BY <2>1 DEF LookupInv, Fresh, LookupSound
  <2>5. ASSUME NEW u \in Threads, pc'[u] = "lookup", ~touched'[u] PROVE Untouched(u)'
    <3>1. u # t /\ Untouched(u) /\ data_idx[u] \in Blocks
      BY <1>00, <2>1, <2>5 DEF LookupInv
    <3>2. index_ptr[data_idx[u]] \in Int /\ num_used <= index_ptr[data_idx[u]]
      BY <1>0, <3>1 DEF Untouched, Blocks
    <3>3. data_idx[u] # data_idx[t] /\ data_idx[u] # block_ptr[num_used - 1]
      BY <1>0, <2>3, <3>2
    <3>4. num_used' <= index_ptr[data_idx[u]]
      BY <1>0, <2>1, <3>2
    <3> QED BY <2>1, <2>2, <3>1, <3>3, <3>4 DEF Untouched
  <2> QED BY <2>4, <2>5 DEF LookupInv
<1>12. ASSUME NEW t \in Threads, FreeSwap(t) \/ FreeDel(t) PROVE LookupInv'
  <2>1. /\ UNCHANGED <<num_used, data_idx, swap, seenIndex, seenUsed, touched>>
        /\ pc[t] \in Moving /\ pc'[t] \in Moving /\ pc[t] \notin {"lookup", "found", "missing"}
        /\ pc'[t] \notin {"lookup", "found", "missing"}
        /\ \A u \in Threads \ {t} : pc'[u] = pc[u]
        /\ \A b \in Blocks \ {data_idx[t], swap[t]} : index_ptr'[b] = index_ptr[b]
    BY <1>0, <1>12 DEF FreeSwap, FreeDel, Goto, Moving, frees, lookups
  <2>2. Fresh' /\ LookupSound'
    BY <2>1 DEF LookupInv, Fresh, LookupSound
  <2>3. ASSUME NEW u \in Threads, pc'[u] = "lookup", ~touched'[u] PROVE Untouched(u)'
    <3>1. Untouched(u) /\ data_idx[u] \in Blocks
      BY <1>00, <2>1, <2>3 DEF LookupInv
    <3>2. index_ptr'[data_idx[u]] = index_ptr[data_idx[u]]
      BY <2>1, <3>1 DEF Untouched
    <3> QED BY <2>1, <3>1, <3>2 DEF Untouched
  <2> QED BY <2>2, <2>3 DEF LookupInv
<1>13. CASE UNCHANGED vars
  BY <1>13 DEF vars, shared, frees, lookups, LookupInv, Fresh, LookupSound, Untouched
<1> QED BY <1>2, <1>3, <1>4, <1>5, <1>6, <1>7, <1>8, <1>9, <1>10, <1>11, <1>12, <1>13
        DEF Next, Call, Step

\* Although em_mpool_get_dataptr reads index_ptr and num_used without the mutex and in
\* either order, it hands out a pointer (line 201) only to a block that was in use, or
\* whose free was not finished, at some moment of the call.
THEOREM PoolLookupSound == Spec => []LookupSound
<1>1. IInv /\ LookupInv /\ [Next]_vars => LookupInv' /\ IInv'
  BY LookupStep, IInvStep
<1>2. Init => IInv /\ LookupInv
  BY IInvInit, LookupInit
<1>3. LookupInv => LookupSound
  BY DEF LookupInv
<1> QED BY <1>1, <1>2, <1>3, PTL DEF Spec
----------------------------------------------------------------------------
(* The pool keeps the promise of BlockPool: its arrays, semaphore and mutex show its   *)
(* callers a set of live blocks, changed by each call at once.                         *)

\* The blocks in the first n places.
Front(f, n) == {f[i] : i \in 0 .. n - 1}

\* A call that has not been decided is pending.
Undecided == {"idle", "sem_wait", "sem_timedwait", "alloc_lock", "alloc_take", "free_lock",
              "free_check"}
CallsPending == \A t \in Threads : pc[t] \in Undecided => ret[t] = Pending

LEMMA CallsInit == Init => CallsPending
  BY DEF Init, CallsPending, Undecided

LEMMA CallsStep == IInv /\ CallsPending /\ [Next]_vars => CallsPending'
<1> SUFFICES ASSUME IInv, CallsPending, [Next]_vars PROVE CallsPending'
  OBVIOUS
<1> USE DEF CallsPending, Undecided, Goto
<1>0. /\ pc \in [Threads -> Labels]
      /\ ret \in [Threads -> [kind : {"pending", "ok", "failed"}, blocks : SUBSET Blocks]]
  BY DEF IInv, TypeBase
<1>1. ASSUME NEW t \in Threads, NEW timed \in BOOLEAN, AllocCall(t, timed) PROVE CallsPending'
  BY <1>0, <1>1 DEF AllocCall
<1>2. ASSUME NEW t \in Threads, NEW idx \in 0 .. num_max, FreeCall(t, idx) \/ LookupCall(t, idx)
      PROVE  CallsPending'
  BY <1>0, <1>2 DEF FreeCall, LookupCall
<1>3. ASSUME NEW t \in Threads, List(t) \/ SemTimeout(t) PROVE CallsPending'
  BY <1>0, <1>3 DEF List, SemTimeout, Decide
<1>4. ASSUME NEW t \in Threads, SemWake(t) \/ AllocLock(t) \/ FreeLock(t) PROVE CallsPending'
  BY <1>0, <1>4 DEF SemWake, AllocLock, FreeLock
<1>5. ASSUME NEW t \in Threads, AllocTake(t) \/ FreeReject(t) \/ FreeTake(t) PROVE CallsPending'
  BY <1>0, <1>5 DEF AllocTake, FreeReject, FreeTake, Decide
<1>6. ASSUME NEW t \in Threads, AllocUnlock(t) \/ FreePost(t) \/ Return(t) PROVE CallsPending'
  BY <1>0, <1>6 DEF AllocUnlock, FreePost, Return, Leave
<1>7. ASSUME NEW t \in Threads, FreeSwap(t) \/ FreeDel(t) \/ FreePtrs(t) \/ FreeUnlock(t)
      PROVE  CallsPending'
  BY <1>0, <1>7 DEF FreeSwap, FreeDel, FreePtrs, FreeUnlock
<1>8. ASSUME NEW t \in Threads, LookupIndex(t) \/ LookupUsed(t) \/ LookupTest(t)
      PROVE  CallsPending'
  BY <1>0, <1>8 DEF LookupIndex, LookupUsed, LookupTest
<1>9. CASE UNCHANGED vars
  BY <1>9 DEF vars
<1> QED BY <1>1, <1>2, <1>3, <1>4, <1>5, <1>6, <1>7, <1>8, <1>9 DEF Next, Call, Step

\* While nobody moves a block, the live ones are those in front.
LEMMA LiveAtRest ==
  ASSUME \A u \in Threads : pc[u] \notin Moving
  PROVE  Live = Front(block_ptr, num_used)
  BY DEF Live, Swapping, Moving, Front

\* While a thread does, the one it moves is live and the one it frees is not.
LEMMA LiveMoving ==
  ASSUME NEW t \in Threads, pc[t] \in Moving, \A u \in Threads \ {t} : pc[u] \notin Moving
  PROVE  Live = (Front(block_ptr, num_used) \cup {swap[t]}) \ {data_idx[t]}
<1>1. Swapping = {t}
  BY DEF Swapping, Moving
<1> QED BY <1>1 DEF Live, Front

\* A step that touches neither the places nor what a free under way relies on.
LEMMA LiveKept ==
  ASSUME UNCHANGED <<num_used, block_ptr>>,
         \A u \in Threads : pc[u] \in Moving <=> pc'[u] \in Moving,
         \A u \in Threads : pc[u] \in Moving =>
           data_idx'[u] = data_idx[u] /\ swap'[u] = swap[u]
  PROVE  Live' = Live
<1>1. Swapping' = Swapping
  BY DEF Swapping, Moving
<1>2. /\ {swap'[t] : t \in Swapping} = {swap[t] : t \in Swapping}
      /\ {data_idx'[t] : t \in Swapping} = {data_idx[t] : t \in Swapping}
  BY DEF Swapping, Moving
<1> QED BY <1>1, <1>2 DEF Live

\* One place more holds one block more.
LEMMA FrontGrows ==
  ASSUME NEW n \in Nat, NEW f
  PROVE  Front(f, n + 1) = Front(f, n) \cup {f[n]}
<1>1. 0 .. (n + 1) - 1 = (0 .. n - 1) \cup {n}
  OBVIOUS
<1> QED BY <1>1 DEF Front

LEMMA PoolStarts == Init => Pool!Init
<1> SUFFICES ASSUME Init PROVE Pool!Init
  OBVIOUS
<1>1. \A u \in Threads : pc[u] \notin Moving
  BY DEF Init, Moving
<1>2. Live = {}
  BY <1>1, LiveAtRest DEF Init, Front
<1> QED BY <1>2 DEF Init, Pool!Init, Pool!Pending, Pool!Outcome, Pending, Outcome

\* Every step of the pool is one of BlockPool's or none: an allocation takes effect when
\* num_used counts its block (160), a free when it no longer does (217), although the
\* arrays are put right only by the stores behind it.
LEMMA PoolStep == IInv /\ CallsPending /\ [Next]_vars => [Pool!Next]_(Pool!vars)
<1> SUFFICES ASSUME IInv, CallsPending, [Next]_vars PROVE Pool!Next \/ UNCHANGED Pool!vars
  OBVIOUS
<1>0. /\ pc \in [Threads -> Labels] /\ block_ptr \in [Blocks -> Blocks]
      /\ index_ptr \in [Blocks -> Blocks] /\ del \in [Threads -> Blocks]
      /\ swap \in [Threads -> Blocks] /\ data_idx \in [Threads -> 0 .. num_max]
      /\ num_used \in 0 .. num_max /\ num_max \in Nat \ {0}
  BY PoolAssumption DEF IInv, TypeBase
<1>p. Pool!Pending = Pending /\ \A k, bs : Pool!Outcome(k, bs) = Outcome(k, bs)
  BY DEF Pool!Pending, Pool!Outcome, Pending, Outcome
<1>a. ASSUME NEW t \in Threads, pc[t] \in Critical PROVE \A u \in Threads \ {t} : pc[u] \notin Moving
  BY <1>a, Alone DEF IInv, Critical, Moving
<1>1. UNCHANGED <<Live, ret>> => UNCHANGED Pool!vars
  BY DEF Pool!vars
<1>2. ASSUME NEW t \in Threads, UNCHANGED Live, Leave(t) PROVE Pool!Next
  BY <1>2, <1>p DEF Leave, Pool!Return, Pool!Next
<1>3. ASSUME NEW t \in Threads, UNCHANGED Live, ret[t] = Pending, Decide(t, "failed", {})
      PROVE  Pool!Next
  BY <1>3, <1>p DEF Decide, Pool!Decide, Pool!Refuse, Pool!Next
<1>4. ASSUME NEW t \in Threads, NEW timed \in BOOLEAN, AllocCall(t, timed)
      PROVE  UNCHANGED Pool!vars
  <2>1. UNCHANGED Live
    BY <1>0, <1>4, LiveKept DEF AllocCall, Goto, Moving, shared, frees
  <2> QED BY <1>1, <1>4, <2>1 DEF AllocCall
<1>5. ASSUME NEW t \in Threads, NEW idx \in 0 .. num_max, FreeCall(t, idx) \/ LookupCall(t, idx)
      PROVE  UNCHANGED Pool!vars
  <2>1. UNCHANGED Live
    BY <1>0, <1>5, LiveKept DEF FreeCall, LookupCall, Goto, Moving, shared, frees
  <2> QED BY <1>1, <1>5, <2>1 DEF FreeCall, LookupCall
<1>6. ASSUME NEW t \in Threads, List(t) PROVE Pool!Next
  <2>1. \A u \in Threads : pc[u] \notin Moving
    BY <1>6, PoolAssumption DEF List, IInv, MutexHeld, Critical, Moving
  <2>2. Live = {block_ptr[i] : i \in 0 .. num_used - 1}
    BY <2>1, LiveAtRest DEF Front
  <2>3. UNCHANGED Live
    BY <1>0, <1>6, LiveKept DEF List, Goto, Moving, shared, frees
  <2>4. ret[t] = Pending
    BY <1>6 DEF List, CallsPending, Undecided
  <2>5. ret' = [ret EXCEPT ![t] = Outcome("ok", Live)]
    BY <1>6, <2>2 DEF List, Decide
  <2> QED BY <1>p, <2>3, <2>4, <2>5 DEF Pool!Next, Pool!List, Pool!Decide
<1>7. ASSUME NEW t \in Threads, SemTimeout(t) PROVE Pool!Next
  <2>1. UNCHANGED Live
    BY <1>0, <1>7, LiveKept DEF SemTimeout, Goto, Moving, shared, frees
  <2> QED BY <1>3, <1>7, <2>1 DEF SemTimeout, CallsPending, Undecided
<1>8. ASSUME NEW t \in Threads, FreeReject(t) PROVE Pool!Next
  <2>1. UNCHANGED Live
    BY <1>0, <1>8, LiveKept DEF FreeReject, Goto, Moving, shared, frees
  <2> QED BY <1>3, <1>8, <2>1 DEF FreeReject, CallsPending, Undecided
<1>9. ASSUME NEW t \in Threads, SemWake(t) \/ AllocLock(t) \/ FreeLock(t) \/ FreeUnlock(t)
      PROVE  UNCHANGED Pool!vars
  <2>1. UNCHANGED Live
    BY <1>0, <1>9, LiveKept DEF SemWake, AllocLock, FreeLock, FreeUnlock, Goto, Moving, shared, frees
  <2> QED BY <1>1, <1>9, <2>1 DEF SemWake, AllocLock, FreeLock, FreeUnlock
<1>10. ASSUME NEW t \in Threads, LookupIndex(t) \/ LookupUsed(t) \/ LookupTest(t)
       PROVE  UNCHANGED Pool!vars
  <2>1. UNCHANGED Live
    BY <1>0, <1>10, LiveKept DEF LookupIndex, LookupUsed, LookupTest, Goto, Moving, shared, frees
  <2> QED BY <1>1, <1>10, <2>1 DEF LookupIndex, LookupUsed, LookupTest
<1>11. ASSUME NEW t \in Threads, FreeSwap(t) \/ FreeDel(t) PROVE UNCHANGED Pool!vars
  <2>1. UNCHANGED Live
    BY <1>0, <1>11, LiveKept DEF FreeSwap, FreeDel, Goto, Moving, frees
  <2> QED BY <1>1, <1>11, <2>1 DEF FreeSwap, FreeDel
<1>12. ASSUME NEW t \in Threads, AllocUnlock(t) \/ FreePost(t) \/ Return(t) PROVE Pool!Next
  <2>1. /\ UNCHANGED shared /\ Leave(t)
        /\ pc[t] \notin Moving
    BY <1>12 DEF AllocUnlock, FreePost, Return, Moving
  <2>2. /\ pc'[t] = "idle"
        /\ \A u \in Threads \ {t} : /\ pc'[u] = pc[u] /\ data_idx'[u] = data_idx[u]
                                    /\ swap'[u] = swap[u]
    BY <1>0, <2>1 DEF Leave
  <2>3. UNCHANGED Live
    BY <2>1, <2>2, LiveKept DEF shared, Moving
  <2> QED BY <1>2, <2>1, <2>3
<1>13. ASSUME NEW t \in Threads, AllocTake(t) PROVE Pool!Next
  <2>1. \A u \in Threads : pc[u] \notin Moving /\ pc'[u] \notin Moving
    BY <1>0, <1>a, <1>13 DEF AllocTake, Goto, Critical, Moving
  <2>2. Live = Front(block_ptr, num_used)
    BY <2>1, LiveAtRest
  <2>3. MutuallyInverse
    BY <2>1 DEF IInv, Arrays
  <2>4. ret[t] = Pending
    BY <1>13 DEF AllocTake, CallsPending, Undecided
  <2>5. CASE num_used >= num_max
    <3>1. UNCHANGED <<num_used, block_ptr>> /\ Decide(t, "failed", {})
      BY <1>13, <2>5 DEF AllocTake
    <3>2. UNCHANGED Live
      BY <2>1, <3>1, LiveKept
    <3> QED BY <1>3, <2>4, <3>1, <3>2
  <2>6. CASE ~(num_used >= num_max)
    <3>1. PICK b : b = block_ptr[num_used]
      OBVIOUS
    <3>2. /\ num_used' = num_used + 1 /\ block_ptr' = block_ptr
          /\ ret' = [ret EXCEPT ![t] = Outcome("ok", {b})]
      BY <1>13, <2>6, <3>1 DEF AllocTake, Decide
    <3>3. Live' = Front(block_ptr', num_used')
      <4>1. (\A u \in Threads : pc[u] \notin Moving)' => (Live = Front(block_ptr, num_used))'
        BY LiveAtRest, PTL
      <4> QED BY <2>1, <4>1 DEF Moving
    <3>4. Live' = Live \cup {b}
      BY <1>0, <2>2, <3>1, <3>2, <3>3, FrontGrows, SMTT(60)
    <3>5. b \in Blocks /\ num_used \in Blocks
      BY <1>0, <2>6, <3>1 DEF Blocks
    <3>6. b \notin Live
      <4>1. ASSUME NEW i \in 0 .. num_used - 1 PROVE block_ptr[i] # b
        <5>1. i \in Blocks /\ i # num_used
          BY <1>0 DEF Blocks
        <5> QED BY <2>3, <3>1, <3>5, <5>1 DEF MutuallyInverse
      <4> QED BY <2>2, <4>1 DEF Front
    <3> QED BY <1>p, <2>4, <3>2, <3>4, <3>5, <3>6 DEF Pool!Next, Pool!Alloc, Pool!Decide
  <2> QED BY <2>5, <2>6
<1>14. ASSUME NEW t \in Threads, FreeTake(t) PROVE Pool!Next
  <2>1. /\ \A u \in Threads : pc[u] \notin Moving
        /\ pc'[t] = "free_swap" /\ \A u \in Threads \ {t} : pc'[u] \notin Moving
    BY <1>0, <1>a, <1>14 DEF FreeTake, Goto, Critical, Moving
  <2>2. Live = Front(block_ptr, num_used)
    BY <2>1, LiveAtRest
  <2>3. MutuallyInverse
    BY <2>1 DEF IInv, Arrays
  <2>4. ret[t] = Pending
    BY <1>14 DEF FreeTake, CallsPending, Undecided
  <2>5. PICK x, s : x = data_idx[t] /\ s = block_ptr[num_used - 1]
    OBVIOUS
  <2>6. /\ num_used' = num_used - 1 /\ block_ptr' = block_ptr
        /\ swap'[t] = s /\ data_idx'[t] = x
        /\ ret' = [ret EXCEPT ![t] = Outcome("ok", {x})]
    BY <1>0, <1>14, <2>5 DEF FreeTake, Decide
  <2>7. /\ x \in Nat /\ x < num_max /\ num_used \in Nat \ {0} /\ ~(index_ptr[x] >= num_used)
    BY <1>0, <1>14, <2>5 DEF FreeTake, NotInUse
  <2>8. x \in Blocks
    BY <1>0, <2>7 DEF Blocks
  <2>9. x \in Live
    <3>1. index_ptr[x] \in 0 .. num_used - 1
      BY <1>0, <2>7, <2>8 DEF Blocks
    <3>2. block_ptr[index_ptr[x]] = x
      BY <2>3, <2>8 DEF MutuallyInverse
    <3> QED BY <2>2, <3>1, <3>2 DEF Front
  <2>10. Live' = Live \ {x}
    <3>1. Front(block_ptr, num_used) = Front(block_ptr, num_used - 1) \cup {s}
      <4>1. PICK n \in Nat : n = num_used - 1
        BY <2>7
      <4>2. n + 1 = num_used
        BY <2>7, <4>1
      <4> QED BY <2>5, <4>1, <4>2, FrontGrows
    <3>2. Live' = (Front(block_ptr, num_used - 1) \cup {s}) \ {x}
      <4>1. Swapping' = {t}
        BY <2>1 DEF Swapping, Moving
      <4> QED BY <2>6, <4>1 DEF Live, Front
    <3> QED BY <2>2, <3>1, <3>2
  <2> QED BY <1>p, <2>4, <2>6, <2>9, <2>10 DEF Pool!Next, Pool!Free, Pool!Decide
<1>15. ASSUME NEW t \in Threads, FreePtrs(t) PROVE UNCHANGED Pool!vars
  <2>1. /\ pc[t] = "free_ptrs" /\ \A u \in Threads : pc'[u] \notin Moving
        /\ \A u \in Threads \ {t} : pc[u] \notin Moving
    BY <1>0, <1>a, <1>15 DEF FreePtrs, Goto, Critical, Moving
  <2>2. PICK x, s, d, n : x = data_idx[t] /\ s = swap[t] /\ d = del[t] /\ n = num_used
    OBVIOUS
  <2>3. /\ n \in Blocks /\ d \in Blocks /\ d <= n /\ block_ptr[d] = x
        /\ x = s => d = n
        /\ block_ptr[n] = s
        /\ \A i \in Blocks \ {d, n} : block_ptr[i] \notin {x, s}
    BY <1>0, <2>1, <2>2 DEF IInv, Arrays, Hole, Moving
  <2>4. /\ num_used' = n /\ UNCHANGED ret
        /\ block_ptr' = [block_ptr EXCEPT ![d] = s, ![n] = x]
    BY <1>15, <2>2 DEF FreePtrs
  <2>5. Live = (Front(block_ptr, n) \cup {s}) \ {x}
    BY <2>1, <2>2, LiveMoving DEF Moving
  <2>6. Live' = Front(block_ptr', n)
    <3>1. (\A u \in Threads : pc[u] \notin Moving)' => (Live = Front(block_ptr, num_used))'
      BY LiveAtRest, PTL
    <3> QED BY <2>1, <2>4, <3>1 DEF Moving
  <2>7. /\ \A i \in Blocks \ {d, n} : block_ptr'[i] = block_ptr[i]
        /\ block_ptr'[n] = x
        /\ d # n => block_ptr'[d] = s
    BY <1>0, <2>3, <2>4
  <2>8. \A i \in 0 .. n - 1 : i \in Blocks /\ i # n
    BY <1>0, <2>2, <2>3 DEF Blocks
  <2>9. CASE d = n
    <3>1. x = s
      BY <2>3, <2>9
    <3>2. \A i \in 0 .. n - 1 : block_ptr'[i] = block_ptr[i] /\ block_ptr[i] # x
      BY <2>3, <2>7, <2>8, <2>9
    <3>3. Front(block_ptr', n) = Front(block_ptr, n) /\ x \notin Front(block_ptr, n)
      BY <3>2 DEF Front
    <3> QED BY <1>1, <2>4, <2>5, <2>6, <3>1, <3>3
  <2>10. CASE d # n
    <3>1. d \in 0 .. n - 1 /\ x # s
      BY <2>2, <2>3, <2>10, <1>0 DEF Blocks
    <3>2. \A i \in 0 .. n - 1 : i # d => block_ptr'[i] = block_ptr[i] /\ block_ptr[i] # x
      BY <2>3, <2>7, <2>8
    <3>3. block_ptr'[d] = s /\ block_ptr[d] = x
      BY <2>3, <2>7, <2>10
    <3>4. ASSUME NEW b PROVE b \in Front(block_ptr', n) <=> b \in (Front(block_ptr, n) \cup {s}) \ {x}
      BY <3>1, <3>2, <3>3 DEF Front
    <3> QED BY <1>1, <2>4, <2>5, <2>6, <3>4
  <2> QED BY <2>9, <2>10
<1>16. CASE UNCHANGED vars
  <2>1. UNCHANGED Live
    BY <1>16, LiveKept DEF vars, shared, frees
  <2> QED BY <1>1, <1>16, <2>1 DEF vars
<1> QED BY <1>4, <1>5, <1>6, <1>7, <1>8, <1>9, <1>10, <1>11, <1>12, <1>13, <1>14, <1>15, <1>16
        DEF Next, Call, Step

\* Seen from its callers, the pool is a set of live blocks: every allocation hands out a
\* block that was not live, every free takes out a live one, and a listing is exact,
\* however the calls of the threads and the stores of em_mpool_free_block_by_dataidx
\* interleave (em_mempool.c, 138-230).
THEOREM PoolImplementsBlockPool == Spec => ImplementsBlockPool
<1>1. Init => Pool!Init /\ IInv /\ CallsPending
  BY PoolStarts, IInvInit, CallsInit
<1>2. IInv /\ CallsPending /\ [Next]_vars => IInv' /\ CallsPending' /\ [Pool!Next]_(Pool!vars)
  BY IInvStep, CallsStep, PoolStep
<1> QED BY <1>1, <1>2, PTL DEF Spec, ImplementsBlockPool, Pool!Spec
=============================================================================
