--------------------------- MODULE MsgQueueProofs ---------------------------
(***************************************************************************)
(* What holds of MsgQueue for every number of threads, messages and slots. *)
(***************************************************************************)
EXTENDS MsgQueue, CommonLemmas, SequenceTheorems

Contained == Messages \cup {NoMessage}
Outcomes == [kind : Kinds, msg : Contained, num : 0 .. num_max]

\* Types, but for the bounds of the semaphores, which follow from the accounting.
TypeBase == /\ num_used \in 0 .. num_max
            /\ head_ptr \in Slots
            /\ tail_ptr \in Slots
            /\ rawdata \in [Slots -> Contained]
            /\ sem_in \in Nat
            /\ sem_out \in Nat
            /\ mutex \in Threads \cup {NoThread}
            /\ pc \in [Threads -> Labels]
            /\ buf \in [Threads -> Contained]
            /\ ret \in [Threads -> Outcomes]

\* Whoever is between a lock and its unlock holds the mutex.
Critical == {"enq_store", "enq_unlock", "deq_take", "deq_unlock", "num_read"}
MutexHeld == \A t \in Threads : pc[t] \in Critical => mutex = t

\* RingShape without the division: the head is at most one turn ahead of the tail.
Window == head_ptr = Wrapped(tail_ptr + num_used)

\* The accounting, in the counts that CountMove speaks of.
Storing == {"enq_lock", "enq_store"}
Announcing == {"enq_unlock", "enq_post"}
Taking == {"deq_lock", "deq_take"}
Freeing == {"deq_unlock", "deq_post"}
N(L) == Count(Threads, pc, L)

Accounts == /\ num_used = sem_out + N(Announcing) + N(Taking)
            /\ num_max - num_used = sem_in + N(Storing) + N(Freeing)

IInv == TypeBase /\ MutexHeld /\ Window /\ Accounts /\ NeverFatal

----------------------------------------------------------------------------
(* The initial states. *)

\* em_queue_create_with_mem: an empty ring, all slots with the producers.
LEMMA InitIInv == Init => IInv
<1> SUFFICES ASSUME Init PROVE IInv
  OBVIOUS
<1> USE QueueAssumption
<1>1. 0 \in Slots /\ "idle" \in Labels /\ Pending \in Outcomes /\ NoMessage \in Contained
  BY DEF Slots, Labels, Pending, Outcome, Outcomes, Kinds, Contained
<1>2. TypeBase
  BY <1>1 DEF Init, TypeBase
<1>3. MutexHeld /\ NeverFatal
  BY DEF Init, MutexHeld, Critical, NeverFatal, Pending, Outcome
<1>4. Window
  BY DEF Init, Window, Wrapped
<1>5. ASSUME NEW L \in {Storing, Announcing, Taking, Freeing} PROVE N(L) = 0
  <2>1. {t \in Threads : pc[t] \in L} = {}
    BY <1>5 DEF Init, Storing, Announcing, Taking, Freeing
  <2> QED BY <2>1, FS_EmptySet DEF N, Count
<1>6. Accounts
  BY <1>5 DEF Init, Accounts
<1> QED BY <1>2, <1>3, <1>4, <1>6 DEF IInv

----------------------------------------------------------------------------
(* The ring. *)

\* A pointer that has moved one slot is in the ring again (106-110).
LEMMA WrappedInSlots == \A i \in Slots : Wrapped(i + 1) \in Slots
  BY QueueAssumption DEF Slots, Wrapped

\* The counts that the accounting adds up are numbers.
LEMMA Counts == \A L : N(L) \in Nat
  BY QueueAssumption, CountPositive DEF N

\* A producer about to store finds room, a consumer about to take finds a message
\* (the tests of lines 130 and 199): each of them stands for a unit of the sum.
LEMMA RoomAndMessage ==
  ASSUME TypeBase, Accounts, NEW t \in Threads
  PROVE  /\ pc[t] = "enq_store" => num_used < num_max
         /\ pc[t] = "deq_take" => num_used > 0
<1>1. /\ pc[t] = "enq_store" => N(Storing) > 0
      /\ pc[t] = "deq_take" => N(Taking) > 0
  BY QueueAssumption, CountPositive DEF N, Storing, Taking
<1>2. /\ N(Storing) \in Nat /\ N(Announcing) \in Nat
      /\ N(Taking) \in Nat /\ N(Freeing) \in Nat
  BY Counts
<1> QED BY <1>1, <1>2, QueueAssumption DEF TypeBase, Accounts

----------------------------------------------------------------------------
(* The accounting. *)

\* What a thread at label l stands for on the messages' and on the slots' side.
MessageOf(l) == Inside(l, Announcing) + Inside(l, Taking)
SlotOf(l) == Inside(l, Storing) + Inside(l, Freeing)

\* A step of thread t keeps the accounts when the variables make up for what the
\* sets of threads gain and lose.
LEMMA Balanced ==
  ASSUME TypeBase, Accounts, NEW t \in Threads, NEW l \in Labels,
         pc' = [pc EXCEPT ![t] = l],
         num_used' \in Int, sem_in' \in Int, sem_out' \in Int,
         num_used' + sem_out + MessageOf(pc[t]) = num_used + sem_out' + MessageOf(l),
         num_used + sem_in + SlotOf(pc[t]) = num_used' + sem_in' + SlotOf(l)
  PROVE  Accounts'
<1> USE QueueAssumption DEF N
<1>1. ASSUME NEW L PROVE N(L)' = N(L) + Inside(l, L) - Inside(pc[t], L)
  <2>1. DOMAIN pc = Threads /\ pc = [u \in Threads |-> pc[u]]
    BY DEF TypeBase
  <2>2. Count(Threads, [pc EXCEPT ![t] = l], L) = Count(Threads, pc, L) + Inside(l, L) - Inside(pc[t], L)
    BY <2>1, CountMove
  <2>3. Count(Threads, pc', L) = Count(Threads, [pc EXCEPT ![t] = l], L)
    OBVIOUS
  <2> QED BY <2>2, <2>3
<1>2. ASSUME NEW L, NEW k PROVE N(L) \in Int /\ Inside(k, L) \in Int
  BY Counts DEF Inside
<1>3. num_used \in Int /\ num_max \in Int /\ sem_in \in Int /\ sem_out \in Int
  BY DEF TypeBase
<1>4. num_used' = sem_out' + N(Announcing)' + N(Taking)'
  <2>1. /\ N(Announcing)' = N(Announcing) + Inside(l, Announcing) - Inside(pc[t], Announcing)
        /\ N(Taking)' = N(Taking) + Inside(l, Taking) - Inside(pc[t], Taking)
    BY <1>1
  <2>2. /\ N(Announcing) \in Int /\ Inside(l, Announcing) \in Int /\ Inside(pc[t], Announcing) \in Int
        /\ N(Taking) \in Int /\ Inside(l, Taking) \in Int /\ Inside(pc[t], Taking) \in Int
    BY <1>2
  <2>3. num_used = sem_out + N(Announcing) + N(Taking)
    BY DEF Accounts
  <2>4. num_used' + sem_out + Inside(pc[t], Announcing) + Inside(pc[t], Taking)
          = num_used + sem_out' + Inside(l, Announcing) + Inside(l, Taking)
    BY <1>3, <2>2 DEF MessageOf
  <2>5. num_used + sem_out' + Inside(l, Announcing) + Inside(l, Taking)
          = sem_out + sem_out' + (N(Announcing) + Inside(l, Announcing)) + (N(Taking) + Inside(l, Taking))
    BY <1>3, <2>2, <2>3
  <2>6. num_used' = sem_out' + (N(Announcing) + Inside(l, Announcing) - Inside(pc[t], Announcing))
                             + (N(Taking) + Inside(l, Taking) - Inside(pc[t], Taking))
    BY <1>3, <2>2, <2>4, <2>5, SMTT(60)
  <2> QED BY <2>1, <2>6
<1>5. num_max - num_used' = sem_in' + N(Storing)' + N(Freeing)'
  <2>1. /\ N(Storing)' = N(Storing) + Inside(l, Storing) - Inside(pc[t], Storing)
        /\ N(Freeing)' = N(Freeing) + Inside(l, Freeing) - Inside(pc[t], Freeing)
    BY <1>1
  <2>2. /\ N(Storing) \in Int /\ Inside(l, Storing) \in Int /\ Inside(pc[t], Storing) \in Int
        /\ N(Freeing) \in Int /\ Inside(l, Freeing) \in Int /\ Inside(pc[t], Freeing) \in Int
    BY <1>2
  <2> QED BY <1>3, <2>1, <2>2 DEF Accounts, SlotOf
<1> QED BY <1>4, <1>5 DEF Accounts

\* The values of the two: one for a claim that has not been settled, else none.
LEMMA Claims ==
  \A l \in Labels :
    /\ MessageOf(l) = IF l \in Announcing \cup Taking THEN 1 ELSE 0
    /\ SlotOf(l) = IF l \in Storing \cup Freeing THEN 1 ELSE 0
  BY DEF MessageOf, SlotOf, Inside, Labels, Announcing, Taking, Storing, Freeing

\* Every step settles on one side what it moves on the other.
LEMMA AccountsStep == TypeBase /\ Accounts /\ NeverFatal /\ [Next]_vars => Accounts'
<1> SUFFICES ASSUME TypeBase, Accounts, NeverFatal, [Next]_vars PROVE Accounts'
  OBVIOUS
<1>0. /\ num_used \in Int /\ sem_in \in Int /\ sem_out \in Int
      /\ pc \in [Threads -> Labels]
  BY QueueAssumption DEF TypeBase
\* Most steps move nothing.
<1>1. ASSUME NEW t \in Threads, NEW l \in Labels, pc' = [pc EXCEPT ![t] = l],
             l \in Announcing \cup Taking <=> pc[t] \in Announcing \cup Taking,
             l \in Storing \cup Freeing <=> pc[t] \in Storing \cup Freeing,
             UNCHANGED <<num_used, sem_in, sem_out>>
      PROVE  Accounts'
  <2>1. /\ MessageOf(l) \in Int /\ MessageOf(pc[t]) = MessageOf(l)
        /\ SlotOf(l) \in Int /\ SlotOf(pc[t]) = SlotOf(l)
    BY <1>0, <1>1, Claims
  <2> QED BY <1>0, <1>1, <2>1, Balanced
<1> DEFINE Moved(t, k, l, n, i, o) ==
             /\ pc[t] = k /\ k \in Labels /\ pc' = [pc EXCEPT ![t] = l] /\ l \in Labels
             /\ num_used' = num_used + n /\ sem_in' = sem_in + i /\ sem_out' = sem_out + o
           Worth(k, m, s) == MessageOf(k) = m /\ SlotOf(k) = s
           Even(t, l) ==
             /\ num_used' \in Int /\ sem_in' \in Int /\ sem_out' \in Int
             /\ num_used' + sem_out + MessageOf(pc[t]) = num_used + sem_out' + MessageOf(l)
             /\ num_used + sem_in + SlotOf(pc[t]) = num_used' + sem_in' + SlotOf(l)
\* The labels between which something is moved, and what that has to be.
<1>2. /\ Worth("enq_lock", 0, 1) /\ Worth("enq_store", 0, 1)
      /\ Worth("enq_unlock", 1, 0) /\ Worth("enq_post", 1, 0)
      /\ Worth("deq_lock", 1, 0) /\ Worth("deq_take", 1, 0)
      /\ Worth("deq_unlock", 0, 1) /\ Worth("deq_post", 0, 1)
      /\ \A k \in {"idle", "enq_wait", "enq_timedwait", "deq_wait", "deq_timedwait"} : Worth(k, 0, 0)
  BY Claims DEF Labels, Announcing, Taking, Storing, Freeing
<1>3. ASSUME NEW t \in Threads, NEW m \in Messages, NEW timed \in BOOLEAN,
             EnqCall(t, m, timed)
      PROVE  Accounts'
  <2>1. CASE sem_in > 0
    <3>1. Moved(t, "idle", "enq_lock", 0, -1, 0)
      BY <1>0, <1>3, <2>1 DEF EnqCall, Goto, ring, Labels
    <3>2. Even(t, "enq_lock")
      BY <1>0, <1>2, <3>1
    <3> QED BY <3>1, <3>2, Balanced
  <2>2. CASE ~(sem_in > 0)
    BY <1>0, <1>1, <1>3, <2>2 DEF EnqCall, Goto, ring, Labels, Announcing, Taking, Storing, Freeing
  <2> QED BY <2>1, <2>2
<1>4. ASSUME NEW t \in Threads, EnqWake(t) PROVE Accounts'
  <2>1. PICK k \in {"enq_wait", "enq_timedwait"} : Moved(t, k, "enq_lock", 0, -1, 0)
    BY <1>0, <1>4 DEF EnqWake, Goto, ring, Labels
  <2>2. Even(t, "enq_lock")
    BY <1>0, <1>2, <2>1
  <2> QED BY <2>1, <2>2, Balanced
<1>5. ASSUME NEW t \in Threads, EnqLock(t) \/ EnqUnlock(t) \/ DeqLock(t) PROVE Accounts'
  BY <1>0, <1>1, <1>5 DEF EnqLock, EnqUnlock, DeqLock, Goto, ring, Labels,
                          Announcing, Taking, Storing, Freeing
<1>6. ASSUME NEW t \in Threads, EnqStore(t) PROVE Accounts'
  <2>1. ~(num_used >= num_max)
    BY <1>0, <1>6, RoomAndMessage, QueueAssumption DEF EnqStore
  <2>2. Moved(t, "enq_store", "enq_unlock", 1, 0, 0)
    BY <1>0, <1>6, <2>1 DEF EnqStore, Goto, Labels
  <2>3. Even(t, "enq_unlock")
    BY <1>0, <1>2, <2>2
  <2> QED BY <2>2, <2>3, Balanced
<1>7. ASSUME NEW t \in Threads, EnqPost(t) PROVE Accounts'
  <2>1. Moved(t, "enq_post", "idle", 0, 0, 1)
    BY <1>0, <1>7 DEF EnqPost, Leave, Goto, ring, NeverFatal, Labels
  <2>2. Even(t, "idle")
    BY <1>0, <1>2, <2>1
  <2> QED BY <2>1, <2>2, Balanced
<1>8. ASSUME NEW t \in Threads, NEW timed \in BOOLEAN, DeqCall(t, timed) PROVE Accounts'
  <2>1. CASE sem_out > 0
    <3>1. Moved(t, "idle", "deq_lock", 0, 0, -1)
      BY <1>0, <1>8, <2>1 DEF DeqCall, Goto, ring, Labels
    <3>2. Even(t, "deq_lock")
      BY <1>0, <1>2, <3>1
    <3> QED BY <3>1, <3>2, Balanced
  <2>2. CASE ~(sem_out > 0)
    BY <1>0, <1>1, <1>8, <2>2 DEF DeqCall, Goto, ring, Labels, Announcing, Taking, Storing, Freeing
  <2> QED BY <2>1, <2>2
<1>9. ASSUME NEW t \in Threads, DeqWake(t) PROVE Accounts'
  <2>1. PICK k \in {"deq_wait", "deq_timedwait"} : Moved(t, k, "deq_lock", 0, 0, -1)
    BY <1>0, <1>9 DEF DeqWake, Goto, ring, Labels
  <2>2. Even(t, "deq_lock")
    BY <1>0, <1>2, <2>1
  <2> QED BY <2>1, <2>2, Balanced
<1>10. ASSUME NEW t \in Threads, DeqTake(t) PROVE Accounts'
  <2>1. ~(num_used <= 0)
    BY <1>0, <1>10, RoomAndMessage DEF DeqTake
  <2>2. Moved(t, "deq_take", "deq_unlock", -1, 0, 0)
    BY <1>0, <1>10, <2>1 DEF DeqTake, Goto, Labels
  <2>3. Even(t, "deq_unlock")
    BY <1>0, <1>2, <2>2
  <2> QED BY <2>2, <2>3, Balanced
<1>11. ASSUME NEW t \in Threads, DeqUnlock(t) PROVE Accounts'
  BY <1>0, <1>1, <1>11 DEF DeqUnlock, Goto, ring, NeverFatal, Labels,
                           Announcing, Taking, Storing, Freeing
<1>12. ASSUME NEW t \in Threads, DeqPost(t) PROVE Accounts'
  <2>1. Moved(t, "deq_post", "idle", 0, 1, 0)
    BY <1>0, <1>12 DEF DeqPost, Leave, Goto, ring, Labels
  <2>2. Even(t, "idle")
    BY <1>0, <1>2, <2>1
  <2> QED BY <2>1, <2>2, Balanced
<1>13. ASSUME NEW t \in Threads, Timeout(t) \/ NumRead(t) \/ Return(t) PROVE Accounts'
  BY <1>0, <1>1, <1>13 DEF Timeout, NumRead, Return, Leave, Goto, ring, Labels,
                           Announcing, Taking, Storing, Freeing
<1>14. ASSUME NEW t \in Threads, NumCall(t) PROVE Accounts'
  BY <1>0, <1>1, <1>14 DEF NumCall, Goto, ring, Labels, Announcing, Taking, Storing, Freeing
<1>15. CASE UNCHANGED vars
  BY <1>15 DEF vars, ring, Accounts, N
<1> QED BY <1>3, <1>4, <1>5, <1>6, <1>7, <1>8, <1>9, <1>10, <1>11, <1>12, <1>13, <1>14, <1>15
        DEF Next, Call, Step

----------------------------------------------------------------------------
(* Types. *)

\* Returning leaves the types of the locals alone.
LEMMA LeaveType ==
  ASSUME TypeBase, NEW t \in Threads, Leave(t)
  PROVE  /\ pc' \in [Threads -> Labels]
         /\ buf' \in [Threads -> Contained]
         /\ ret' \in [Threads -> Outcomes]
<1>1. "idle" \in Labels /\ NoMessage \in Contained /\ Pending \in Outcomes
  BY QueueAssumption DEF Labels, Contained, Pending, Outcome, Outcomes, Kinds
<1> QED BY <1>1 DEF TypeBase, Leave, Goto

\* Deciding the outcome of a call leaves the type of ret alone.
LEMMA DecideType ==
  ASSUME TypeBase, NEW t \in Threads, NEW kind \in Kinds, NEW m \in Contained,
         NEW n \in 0 .. num_max, Decide(t, kind, m, n)
  PROVE  ret' \in [Threads -> Outcomes]
<1>1. Outcome(kind, m, n) \in Outcomes
  BY DEF Outcome, Outcomes
<1> QED BY <1>1 DEF TypeBase, Decide

\* Every step of every call stores values of the right type; the tests of the code
\* keep num_used in its range, whatever the semaphores say.
LEMMA TypeStep == TypeBase /\ [Next]_vars => TypeBase'
<1> SUFFICES ASSUME TypeBase, [Next]_vars PROVE TypeBase'
  OBVIOUS
<1>0. /\ NoMessage \in Contained /\ 0 \in 0 .. num_max
      /\ {"stored", "got", "count", "failed", "fatal"} \subseteq Kinds
  BY QueueAssumption DEF Contained, Kinds
<1>1. ASSUME NEW t \in Threads, NEW m \in Messages, NEW timed \in BOOLEAN,
             EnqCall(t, m, timed)
      PROVE  TypeBase'
  BY <1>1 DEF TypeBase, EnqCall, Goto, ring, Labels, Contained
<1>2. ASSUME NEW t \in Threads, NEW timed \in BOOLEAN, DeqCall(t, timed) PROVE TypeBase'
  BY <1>2 DEF TypeBase, DeqCall, Goto, ring, Labels
<1>3. ASSUME NEW t \in Threads, EnqWake(t) \/ DeqWake(t) PROVE TypeBase'
  BY <1>3 DEF TypeBase, EnqWake, DeqWake, Goto, ring, Labels
<1>4. ASSUME NEW t \in Threads, EnqLock(t) \/ DeqLock(t) PROVE TypeBase'
  BY <1>4 DEF TypeBase, EnqLock, DeqLock, Lock, Goto, ring, Labels
<1>5. ASSUME NEW t \in Threads, EnqUnlock(t) \/ DeqUnlock(t) PROVE TypeBase'
  BY <1>5 DEF TypeBase, EnqUnlock, DeqUnlock, Unlock, Goto, ring, Labels
<1>6. ASSUME NEW t \in Threads, EnqStore(t) PROVE TypeBase'
  <2>1. ret' \in [Threads -> Outcomes]
    <3>1. buf[t] \in Contained
      BY DEF TypeBase
    <3> QED BY <1>0, <1>6, <3>1, DecideType DEF EnqStore
  <2>2. /\ num_used' \in 0 .. num_max /\ head_ptr' \in Slots
        /\ rawdata' \in [Slots -> Contained]
    <3>1. CASE num_used >= num_max
      BY <1>6, <3>1 DEF TypeBase, EnqStore, ring
    <3>2. CASE ~(num_used >= num_max)
      BY <1>6, <3>2, WrappedInSlots, QueueAssumption DEF TypeBase, EnqStore
    <3> QED BY <3>1, <3>2
  <2> QED BY <1>6, <2>1, <2>2 DEF TypeBase, EnqStore, Goto, ring, Labels
<1>7. ASSUME NEW t \in Threads, DeqTake(t) PROVE TypeBase'
  <2>1. ret' \in [Threads -> Outcomes]
    <3>1. rawdata[tail_ptr] \in Contained
      BY DEF TypeBase
    <3> QED BY <1>0, <1>7, <3>1, DecideType DEF DeqTake
  <2>2. /\ num_used' \in 0 .. num_max /\ tail_ptr' \in Slots /\ sem_out' \in Nat
        /\ buf' \in [Threads -> Contained] /\ UNCHANGED <<head_ptr, rawdata>>
    <3>1. CASE num_used <= 0
      BY <1>7, <3>1 DEF TypeBase, DeqTake, ring
    <3>2. CASE ~(num_used <= 0)
      BY <1>7, <3>2, WrappedInSlots, QueueAssumption DEF TypeBase, DeqTake
    <3> QED BY <3>1, <3>2
  <2> QED BY <1>7, <2>1, <2>2 DEF TypeBase, DeqTake, Goto, Labels
<1>8. ASSUME NEW t \in Threads, EnqPost(t) \/ DeqPost(t) \/ Return(t) PROVE TypeBase'
  <2>1. Leave(t)
    BY <1>8 DEF EnqPost, DeqPost, Return
  <2>2. /\ UNCHANGED ring /\ UNCHANGED mutex
        /\ sem_in' \in Nat /\ sem_out' \in Nat
    BY <1>8 DEF TypeBase, EnqPost, DeqPost, Return
  <2> QED BY <2>1, <2>2, LeaveType DEF TypeBase, ring
<1>9. ASSUME NEW t \in Threads, Timeout(t) \/ NumRead(t) PROVE TypeBase'
  <2>1. ret' \in [Threads -> Outcomes]
    BY <1>0, <1>9, DecideType DEF TypeBase, Timeout, NumRead
  <2> QED BY <1>9, <2>1 DEF TypeBase, Timeout, NumRead, Unlock, Goto, ring, Labels
<1>10. ASSUME NEW t \in Threads, NumCall(t) PROVE TypeBase'
  <2>1. ret' \in [Threads -> Outcomes]
    BY <1>0, <1>10, DecideType DEF TypeBase, NumCall
  <2> QED BY <1>10, <2>1 DEF TypeBase, NumCall, Lock, Goto, ring, Labels
<1>11. CASE UNCHANGED vars
  BY <1>11 DEF TypeBase, vars, ring
<1> QED BY <1>1, <1>2, <1>3, <1>4, <1>5, <1>6, <1>7, <1>8, <1>9, <1>10, <1>11
        DEF Next, Call, Step

----------------------------------------------------------------------------
(* Mutual exclusion, the window and the fatal branches. *)

\* A thread enters a critical section only when nobody holds the mutex, and
\* releases it only on leaving its own.
LEMMA MutexStep == TypeBase /\ MutexHeld /\ [Next]_vars => MutexHeld'
<1> SUFFICES ASSUME TypeBase, MutexHeld, [Next]_vars PROVE MutexHeld'
  OBVIOUS
<1> USE DEF TypeBase, MutexHeld, Critical
<1>1. ASSUME NEW t \in Threads, NEW m \in Messages, NEW timed \in BOOLEAN,
             EnqCall(t, m, timed)
      PROVE  MutexHeld'
  BY <1>1 DEF EnqCall, Goto
<1>2. ASSUME NEW t \in Threads, NEW timed \in BOOLEAN, DeqCall(t, timed) PROVE MutexHeld'
  BY <1>2 DEF DeqCall, Goto
<1>3. ASSUME NEW t \in Threads, EnqWake(t) \/ DeqWake(t) \/ Timeout(t) PROVE MutexHeld'
  BY <1>3 DEF EnqWake, DeqWake, Timeout, Goto
<1>4. ASSUME NEW t \in Threads, EnqPost(t) \/ DeqPost(t) \/ Return(t) PROVE MutexHeld'
  BY <1>4 DEF EnqPost, DeqPost, Return, Leave, Goto
\* The lock is taken: nobody else was in a critical section.
<1>5. ASSUME NEW t \in Threads, EnqLock(t) \/ DeqLock(t) \/ NumCall(t) PROVE MutexHeld'
  <2>1. CASE mutex = NoThread
    <3>1. \A u \in Threads : pc[u] \notin Critical
      BY <2>1, QueueAssumption
    <3>2. mutex' = t
      BY <1>5, <2>1 DEF EnqLock, DeqLock, NumCall, Lock
    <3>3. \A u \in Threads \ {t} : pc'[u] = pc[u]
      BY <1>5 DEF EnqLock, DeqLock, NumCall, Goto
    <3> QED BY <3>1, <3>2, <3>3
  <2>2. CASE mutex # NoThread
    BY <1>5, <2>2 DEF EnqLock, DeqLock, NumCall, Lock, Goto
  <2> QED BY <2>1, <2>2
<1>6. ASSUME NEW t \in Threads, EnqStore(t) \/ DeqTake(t) PROVE MutexHeld'
  BY <1>6 DEF EnqStore, DeqTake, Goto
\* The mutex is released: its owner is no longer in a critical section.
<1>7. ASSUME NEW t \in Threads, EnqUnlock(t) \/ DeqUnlock(t) \/ NumRead(t) PROVE MutexHeld'
  <2>1. pc'[t] \notin Critical /\ \A u \in Threads \ {t} : pc'[u] = pc[u]
    BY <1>7 DEF EnqUnlock, DeqUnlock, NumRead, Goto
  <2>2. \A u \in Threads \ {t} : pc[u] \notin Critical
    BY <1>7 DEF EnqUnlock, DeqUnlock, NumRead
  <2> QED BY <2>1, <2>2
<1>8. CASE UNCHANGED vars
  BY <1>8 DEF vars
<1> QED BY <1>1, <1>2, <1>3, <1>4, <1>5, <1>6, <1>7, <1>8 DEF Next, Call, Step

\* A store moves the head and a take the tail by one slot, and num_used with them.
LEMMA WindowStep == TypeBase /\ Window /\ [Next]_vars => Window'
<1> SUFFICES ASSUME TypeBase, Window, [Next]_vars PROVE Window'
  OBVIOUS
<1>1. ASSUME NEW t \in Threads, EnqStore(t) PROVE Window'
  BY <1>1, QueueAssumption DEF TypeBase, Slots, Window, Wrapped, EnqStore, ring
<1>2. ASSUME NEW t \in Threads, DeqTake(t) PROVE Window'
  BY <1>2, QueueAssumption DEF TypeBase, Slots, Window, Wrapped, DeqTake, ring
<1>3. ASSUME UNCHANGED ring PROVE Window'
  BY <1>3 DEF Window, ring
<1>4. ASSUME NEW t \in Threads, Call(t) PROVE Window'
  BY <1>3, <1>4 DEF Call, EnqCall, DeqCall, NumCall
<1>5. ASSUME NEW t \in Threads, Step(t) \/ Timeout(t) PROVE Window'
  BY <1>1, <1>2, <1>3, <1>5 DEF Step, EnqWake, EnqLock, EnqUnlock, EnqPost,
     DeqWake, DeqLock, DeqUnlock, DeqPost, NumRead, Return, Timeout
<1>6. CASE UNCHANGED vars
  BY <1>3, <1>6 DEF vars
<1> QED BY <1>4, <1>5, <1>6 DEF Next

\* Only a store into a full ring and a take from an empty one are fatal.
LEMMA FatalStep == TypeBase /\ Accounts /\ NeverFatal /\ [Next]_vars => NeverFatal'
<1> SUFFICES ASSUME TypeBase, Accounts, NeverFatal, [Next]_vars PROVE NeverFatal'
  OBVIOUS
<1>1. ASSUME NEW t \in Threads, NEW kind, NEW m, NEW n, kind # "fatal", Decide(t, kind, m, n)
      PROVE  NeverFatal'
  BY <1>1 DEF TypeBase, NeverFatal, Decide, Outcome
<1>2. ASSUME UNCHANGED ret PROVE NeverFatal'
  BY <1>2 DEF NeverFatal
<1>3. ASSUME NEW t \in Threads, Leave(t) PROVE NeverFatal'
  BY <1>3 DEF TypeBase, NeverFatal, Leave, Pending, Outcome
<1>4. ASSUME NEW t \in Threads, EnqStore(t) PROVE NeverFatal'
  <2>1. ~(num_used >= num_max)
    BY <1>4, RoomAndMessage, QueueAssumption DEF TypeBase, EnqStore
  <2> QED BY <1>1, <1>4, <2>1 DEF EnqStore
<1>5. ASSUME NEW t \in Threads, DeqTake(t) PROVE NeverFatal'
  <2>1. ~(num_used <= 0)
    BY <1>5, RoomAndMessage DEF TypeBase, DeqTake
  <2> QED BY <1>1, <1>5, <2>1 DEF DeqTake
<1>6. ASSUME NEW t \in Threads, Call(t) PROVE NeverFatal'
  BY <1>1, <1>2, <1>6 DEF Call, EnqCall, DeqCall, NumCall
<1>7. ASSUME NEW t \in Threads, Step(t) \/ Timeout(t) PROVE NeverFatal'
  BY <1>1, <1>2, <1>3, <1>4, <1>5, <1>7 DEF Step, EnqWake, EnqLock, EnqUnlock, EnqPost,
     DeqWake, DeqLock, DeqUnlock, DeqPost, NumRead, Return, Timeout
<1>8. CASE UNCHANGED vars
  BY <1>2, <1>8 DEF vars
<1> QED BY <1>6, <1>7, <1>8 DEF Next

----------------------------------------------------------------------------
(* The theorems. *)

\* Types, mutual exclusion, the window and the accounting hold together in every
\* reachable state; the fatal branches are not taken because of the accounting,
\* and the accounting is right because they are not taken.
THEOREM QueueInvariant == Spec => []IInv
<1>1. IInv /\ [Next]_vars => IInv'
  BY TypeStep, MutexStep, WindowStep, AccountsStep, FatalStep DEF IInv
<1> QED BY <1>1, InitIInv, PTL DEF Spec

\* The sums with the cardinalities of MsgQueue, and bounds for the semaphores.
LEMMA Sums ==
  ASSUME TypeBase, Accounts
  PROVE  ClaimsAccounted /\ sem_in <= num_max /\ sem_out <= num_max
<1>1. /\ N(Announcing) = Cardinality(At({"enq_unlock", "enq_post"}))
      /\ N(Taking) = Cardinality(At({"deq_lock", "deq_take"}))
      /\ N(Storing) = Cardinality(At({"enq_lock", "enq_store"}))
      /\ N(Freeing) = Cardinality(At({"deq_unlock", "deq_post"}))
  BY DEF N, Count, At, Announcing, Taking, Storing, Freeing
<1>2. /\ N(Announcing) \in Nat /\ N(Taking) \in Nat
      /\ N(Storing) \in Nat /\ N(Freeing) \in Nat
  BY Counts
<1>3. ClaimsAccounted
  BY <1>1 DEF Accounts, ClaimsAccounted
<1>4. /\ num_used \in Int /\ num_max \in Int /\ sem_in \in Int /\ sem_out \in Int
      /\ num_used >= 0 /\ num_used <= num_max
  BY QueueAssumption DEF TypeBase
<1>5. sem_in <= num_max /\ sem_out <= num_max
  BY <1>2, <1>4 DEF Accounts
<1> QED BY <1>3, <1>5

\* Every field of em_queue_t keeps its type for every number of threads and slots:
\* the pointers never leave the ring, no semaphore exceeds num_max.
THEOREM QueueTypeCorrect == Spec => []TypeOK
<1>1. IInv => TypeOK
  BY Sums DEF IInv, TypeBase, TypeOK, Contained, Outcomes
<1> QED BY <1>1, QueueInvariant, PTL

\* No interleaving of em_enqueue, em_dequeue and their timeouts loses or invents a
\* claim to a message or to a slot.
THEOREM QueueClaimsAccounted == Spec => []ClaimsAccounted
<1>1. IInv => ClaimsAccounted
  BY Sums DEF IInv
<1> QED BY <1>1, QueueInvariant, PTL

\* The branches of lines 130 and 199 that find the ring full or empty behind the
\* semaphore are unreachable, as the comment at line 203 says.
THEOREM QueueNeverFatal == Spec => []NeverFatal
<1>1. IInv => NeverFatal
  BY DEF IInv
<1> QED BY <1>1, QueueInvariant, PTL

\* The window between the pointers is the messages, however often both have wrapped.
THEOREM QueueRingShape == Spec => []RingShape
<1>1. IInv => RingShape
  <2> SUFFICES ASSUME TypeBase, Window PROVE RingShape
    BY DEF IInv
  <2>1. tail_ptr + num_used \in 0 .. 2 * num_max - 1
    BY QueueAssumption DEF TypeBase, Slots
  <2>2. (tail_ptr + num_used) % num_max = Wrapped(tail_ptr + num_used)
    BY <2>1, QueueAssumption, AroundIs DEF Wrapped, Around
  <2> QED BY <2>2 DEF Window, RingShape
<1> QED BY <1>1, QueueInvariant, PTL

\* The queue is sound for every number of threads, messages and slots: what the runs
\* check of QueueSound on a ring of two holds of every ring (em_queue.c:89-217).
THEOREM QueueSoundness == Spec => []QueueSound
<1>1. TypeOK /\ ClaimsAccounted /\ NeverFatal /\ RingShape => QueueSound
  BY DEF QueueSound
<1> QED BY <1>1, QueueTypeCorrect, QueueClaimsAccounted, QueueNeverFatal, QueueRingShape, PTL

----------------------------------------------------------------------------
(* The queue implements BoundedFifo: the messages are the window between    *)
(* the pointers, and every call takes effect under the mutex.               *)

\* The window of u slots from tail e of the ring f of n slots.
Windowed(f, n, e, u) == [i \in 1 .. u |-> f[(e + i - 1) % n]]

\* Sequence q shows that window.
Shows(q, S, f, n, e, u) == /\ q \in Seq(S) /\ Len(q) = u
                           /\ \A i \in 1 .. u : q[i] = f[Around(e + i - 1, n)]

LEMMA WindowedIs ==
  ASSUME NEW n \in Nat \ {0}, NEW S, NEW f \in [0 .. n - 1 -> S], NEW e \in 0 .. n - 1,
         NEW u \in 0 .. n
  PROVE  Shows(Windowed(f, n, e, u), S, f, n, e, u)
<1>1. ASSUME NEW i \in 1 .. u
      PROVE  (e + i - 1) % n = Around(e + i - 1, n) /\ Around(e + i - 1, n) \in 0 .. n - 1
  <2>1. PICK j \in Nat : j = e + i - 1 /\ j <= 2 * n - 1
    OBVIOUS
  <2>2. j % n = Around(j, n) /\ Around(j, n) \in 0 .. n - 1
    BY <2>1, AroundIs
  <2> QED BY <2>1, <2>2
<1>2. \A i \in 1 .. u : (e + i - 1) % n = Around(e + i - 1, n)
  BY <1>1
<1>3. \A i \in 1 .. u : (e + i - 1) % n \in 0 .. n - 1
  BY <1>1
<1>4. PICK q : q = Windowed(f, n, e, u)
  OBVIOUS
<1>5. q \in [1 .. u -> S]
  BY <1>3, <1>4 DEF Windowed
<1>6. q \in Seq(S) /\ Len(q) = u
  <2>1. u \in Nat
    OBVIOUS
  <2>2. q \in Seq(S)
    BY <1>5, <2>1, SeqDef
  <2>3. DOMAIN q = 1 .. u /\ DOMAIN q = 1 .. Len(q) /\ Len(q) \in Nat
    BY <1>5, <2>2, LenProperties
  <2> QED BY <2>1, <2>2, <2>3
<1>7. \A i \in 1 .. u : q[i] = f[(e + i - 1) % n]
  BY <1>4 DEF Windowed
<1>8. Shows(q, S, f, n, e, u)
  BY <1>2, <1>6, <1>7 DEF Shows
<1> QED BY <1>4, <1>8

\* A store at the head appends, and a take at the tail takes the head of the sequence.
Appends(m, S, f, n, e, u) ==
  Windowed([f EXCEPT ![Around(e + u, n)] = m], n, e, u + 1) = Append(Windowed(f, n, e, u), m)

LEMMA StoreAppends ==
  ASSUME NEW n \in Nat \ {0}, NEW S, NEW f \in [0 .. n - 1 -> S], NEW e \in 0 .. n - 1,
         NEW u \in 0 .. n - 1, NEW m \in S
  PROVE  Appends(m, S, f, n, e, u)
<1>0. PICK h : h = Around(e + u, n)
  OBVIOUS
<1>1. PICK g : g = [f EXCEPT ![h] = m]
  OBVIOUS
<1>2. h \in 0 .. n - 1
  BY <1>0 DEF Around
<1>3. g \in [0 .. n - 1 -> S] /\ g[h] = m /\ \A i \in 0 .. n - 1 : i # h => g[i] = f[i]
  BY <1>1, <1>2
<1>4. PICK q, r : q = Windowed(f, n, e, u) /\ r = Windowed(g, n, e, u + 1)
  OBVIOUS
<1>5. u \in 0 .. n /\ u + 1 \in 0 .. n
  OBVIOUS
<1>6. /\ q \in Seq(S) /\ Len(q) = u
      /\ \A i \in 1 .. u : q[i] = f[Around(e + i - 1, n)]
  <2>1. Shows(Windowed(f, n, e, u), S, f, n, e, u)
    BY <1>5, WindowedIs, Zenon
  <2> QED BY <1>4, <2>1 DEF Shows
<1>7. /\ r \in Seq(S) /\ Len(r) = u + 1
      /\ \A i \in 1 .. u + 1 : r[i] = g[Around(e + i - 1, n)]
  <2>1. Shows(Windowed(g, n, e, u + 1), S, g, n, e, u + 1)
    BY <1>3, <1>5, WindowedIs, Zenon
  <2> QED BY <1>4, <2>1 DEF Shows
<1>8. PICK a : a = Append(q, m)
  OBVIOUS
<1>9. /\ a \in Seq(S) /\ Len(a) = u + 1 /\ a[u + 1] = m /\ \A i \in 1 .. u : a[i] = q[i]
  <2>1. /\ Append(q, m) \in Seq(S) /\ Len(Append(q, m)) = Len(q) + 1
        /\ \A i \in 1 .. Len(q) : Append(q, m)[i] = q[i]
        /\ Append(q, m)[Len(q) + 1] = m
    BY <1>6, AppendProperties
  <2> QED BY <1>6, <1>8, <2>1
<1>10. r[u + 1] = m
  <2>1. u + 1 \in 1 .. u + 1 /\ e + (u + 1) - 1 = e + u
    OBVIOUS
  <2>2. r[u + 1] = g[Around(e + (u + 1) - 1, n)]
    BY <1>7, <2>1
  <2> QED BY <1>0, <1>3, <2>1, <2>2
<1>11. ASSUME NEW i \in 1 .. u PROVE r[i] = a[i]
  <2>1. PICK j : j = Around(e + i - 1, n)
    OBVIOUS
  <2>2. j # h /\ j \in 0 .. n - 1
    BY <1>0, <2>1 DEF Around
  <2>3. i \in 1 .. u + 1
    OBVIOUS
  <2>4. r[i] = g[j] /\ q[i] = f[j]
    BY <1>6, <1>7, <2>1, <2>3
  <2> QED BY <1>3, <1>9, <2>2, <2>4
<1>12. ASSUME NEW i \in 1 .. Len(r) PROVE r[i] = a[i]
  <2>1. i \in 1 .. u + 1
    BY <1>7
  <2>2. CASE i = u + 1
    BY <1>9, <1>10, <2>2
  <2>3. CASE i \in 1 .. u
    BY <1>11, <2>3
  <2> QED BY <2>1, <2>2, <2>3
<1>13. r = a
  <2>1. Len(r) = Len(a) /\ r \in Seq(S) /\ a \in Seq(S)
    BY <1>7, <1>9
  <2> QED BY <1>12, <2>1, SeqEqual
<1> QED BY <1>0, <1>1, <1>4, <1>8, <1>13 DEF Appends

LEMMA TakeIsHead ==
  ASSUME NEW n \in Nat \ {0}, NEW S, NEW f \in [0 .. n - 1 -> S], NEW e \in 0 .. n - 1,
         NEW u \in 1 .. n
  PROVE  /\ Windowed(f, n, e, u) # <<>> /\ Head(Windowed(f, n, e, u)) = f[e]
         /\ Windowed(f, n, Around(e + 1, n), u - 1)
              = Tail(Windowed(f, n, e, u))
<1>1. PICK d : d = Around(e + 1, n)
  OBVIOUS
<1>2. d \in 0 .. n - 1 /\ u \in 0 .. n /\ u - 1 \in 0 .. n
  BY <1>1 DEF Around
<1>3. PICK q, r : q = Windowed(f, n, e, u) /\ r = Windowed(f, n, d, u - 1)
  OBVIOUS
<1>4. /\ q \in Seq(S) /\ Len(q) = u
      /\ \A i \in 1 .. u : q[i] = f[Around(e + i - 1, n)]
  <2>1. Shows(Windowed(f, n, e, u), S, f, n, e, u)
    BY <1>2, WindowedIs, Zenon
  <2> QED BY <1>3, <2>1 DEF Shows
<1>5. /\ r \in Seq(S) /\ Len(r) = u - 1
      /\ \A i \in 1 .. u - 1 : r[i] = f[Around(d + i - 1, n)]
  <2>1. Shows(Windowed(f, n, d, u - 1), S, f, n, d, u - 1)
    BY <1>2, WindowedIs, Zenon
  <2> QED BY <1>3, <2>1 DEF Shows
<1>6. q # <<>> /\ q[1] = f[e]
  <2>1. 1 \in 1 .. u /\ Around(e + 1 - 1, n) = e
    BY DEF Around
  <2> QED BY <1>4, <2>1, EmptySeq
<1>7. Head(q) = q[1]
  BY <1>4, <1>6
<1>8. PICK a : a = Tail(q)
  OBVIOUS
<1>9. a \in Seq(S) /\ Len(a) = u - 1 /\ \A i \in 1 .. u - 1 : a[i] = q[i + 1]
  BY <1>4, <1>6, <1>8, HeadTailProperties
<1>10. ASSUME NEW i \in 1 .. u - 1 PROVE r[i] = a[i]
  <2>1. Around(d + i - 1, n) = Around(e + (i + 1) - 1, n)
    BY <1>1 DEF Around
  <2>2. i + 1 \in 1 .. u
    OBVIOUS
  <2> QED BY <1>4, <1>5, <1>9, <2>1, <2>2, SMTT(60)
<1>11. \A i \in 1 .. Len(r) : r[i] = a[i]
  BY <1>5, <1>10
<1>12. r = a
  BY <1>5, <1>9, <1>11, SeqEqual
<1> QED BY <1>1, <1>3, <1>6, <1>7, <1>8, <1>12

\* A call that has not been decided is pending, and a producer has a message to store.
Undecided == {"idle", "num_read", "enq_wait", "enq_timedwait", "enq_lock", "enq_store",
              "deq_wait", "deq_timedwait", "deq_lock", "deq_take"}
CallsOK == /\ \A t \in Threads : pc[t] \in Undecided => ret[t] = Pending
           /\ \A t \in Threads : pc[t] \in {"enq_wait", "enq_timedwait", "enq_lock", "enq_store"} =>
                buf[t] \in Messages

LEMMA CallsInit == Init => CallsOK
  BY DEF Init, CallsOK, Undecided

LEMMA CallsStep == IInv /\ CallsOK /\ [Next]_vars => CallsOK'
<1> SUFFICES ASSUME IInv, CallsOK, [Next]_vars PROVE CallsOK'
  OBVIOUS
<1> USE DEF CallsOK, Undecided, Goto, ring
<1>0. /\ pc \in [Threads -> Labels] /\ buf \in [Threads -> Contained]
      /\ ret \in [Threads -> Outcomes]
  BY DEF IInv, TypeBase
<1>1. ASSUME NEW t \in Threads, NEW m \in Messages, NEW timed \in BOOLEAN, EnqCall(t, m, timed)
      PROVE  CallsOK'
  BY <1>0, <1>1 DEF EnqCall
<1>2. ASSUME NEW t \in Threads, NEW timed \in BOOLEAN, DeqCall(t, timed) PROVE CallsOK'
  BY <1>0, <1>2 DEF DeqCall
<1>3. ASSUME NEW t \in Threads, NumCall(t) \/ NumRead(t) PROVE CallsOK'
  BY <1>0, <1>3 DEF NumCall, NumRead, Decide
<1>4. ASSUME NEW t \in Threads, EnqWake(t) \/ EnqLock(t) PROVE CallsOK'
  BY <1>0, <1>4 DEF EnqWake, EnqLock
<1>5. ASSUME NEW t \in Threads, EnqStore(t) \/ EnqUnlock(t) PROVE CallsOK'
  BY <1>0, <1>5 DEF EnqStore, EnqUnlock, Decide
<1>6. ASSUME NEW t \in Threads, DeqWake(t) \/ DeqLock(t) PROVE CallsOK'
  BY <1>0, <1>6 DEF DeqWake, DeqLock
<1>7. ASSUME NEW t \in Threads, DeqTake(t) \/ DeqUnlock(t) PROVE CallsOK'
  BY <1>0, <1>7 DEF DeqTake, DeqUnlock, Decide
<1>8. ASSUME NEW t \in Threads, EnqPost(t) \/ DeqPost(t) \/ Return(t) PROVE CallsOK'
  BY <1>0, <1>8 DEF EnqPost, DeqPost, Return, Leave
<1>9. ASSUME NEW t \in Threads, Timeout(t) PROVE CallsOK'
  BY <1>0, <1>9 DEF Timeout, Decide
<1>10. CASE UNCHANGED vars
  BY <1>10 DEF vars
<1> QED BY <1>1, <1>2, <1>3, <1>4, <1>5, <1>6, <1>7, <1>8, <1>9, <1>10 DEF Next, Call, Step

LEMMA FifoInit == Init => Fifo!Init
<1> SUFFICES ASSUME Init PROVE Fifo!Init
  OBVIOUS
<1>1. Contents = <<>>
  <2>1. \A f : f = [i \in 1 .. 0 |-> f[i]] => f = <<>>
    OBVIOUS
  <2> QED BY <2>1 DEF Init, Contents
<1> QED BY <1>1 DEF Init, Fifo!Init, Fifo!Pending, Fifo!Outcome, Pending, Outcome

\* Every step of the queue is one of BoundedFifo's or none.
LEMMA FifoStep == IInv /\ CallsOK /\ [Next]_vars => [Fifo!Next]_(Fifo!vars)
<1> SUFFICES ASSUME IInv, CallsOK, [Next]_vars PROVE Fifo!Next \/ UNCHANGED Fifo!vars
  OBVIOUS
<1>0. /\ num_used \in 0 .. num_max /\ head_ptr \in 0 .. num_max - 1 /\ tail_ptr \in 0 .. num_max - 1
      /\ rawdata \in [0 .. num_max - 1 -> Contained] /\ num_max \in Nat \ {0}
      /\ Messages \subseteq Contained /\ ret \in [Threads -> Outcomes]
  BY QueueAssumption DEF IInv, TypeBase, Slots, Contained
<1>c. Contents = Windowed(rawdata, num_max, tail_ptr, num_used)
  BY DEF Contents, Windowed
<1>l. Len(Windowed(rawdata, num_max, tail_ptr, num_used)) = num_used
  <2>1. Shows(Windowed(rawdata, num_max, tail_ptr, num_used), Contained, rawdata, num_max,
              tail_ptr, num_used)
    BY <1>0, WindowedIs, Zenon
  <2> QED BY <2>1 DEF Shows
<1>d. Contents' = Windowed(rawdata', num_max, tail_ptr', num_used')
  BY DEF Contents, Windowed
<1>p. Fifo!Pending = Pending /\ \A k, m, n : Fifo!Outcome(k, m, n) = Outcome(k, m, n)
  BY DEF Fifo!Pending, Fifo!Outcome, Pending, Outcome
<1>1. UNCHANGED ring => UNCHANGED Contents
  BY <1>c, <1>d DEF ring
<1>2. UNCHANGED <<Contents, ret>> => UNCHANGED Fifo!vars
  BY DEF Fifo!vars
<1>3. ASSUME NEW t \in Threads, UNCHANGED ring, Leave(t) PROVE Fifo!Next
  BY <1>1, <1>3, <1>p DEF Leave, Fifo!Return, Fifo!Next
<1>4. ASSUME NEW t \in Threads, UNCHANGED ring, ret[t] = Pending, Decide(t, "failed", NoMessage, 0)
      PROVE  Fifo!Next
  BY <1>1, <1>4, <1>p DEF Decide, Fifo!Decide, Fifo!Refuse, Fifo!Next
<1>5. ASSUME NEW t \in Threads, EnqStore(t) PROVE Fifo!Next
  <2>1. pc[t] = "enq_store" /\ num_used < num_max
    BY <1>5, <1>0, RoomAndMessage, QueueAssumption DEF EnqStore, IInv
  <2>2. PICK m \in Messages : m = buf[t]
    BY <2>1 DEF CallsOK
  <2>3. /\ rawdata' = [rawdata EXCEPT ![head_ptr] = m] /\ num_used' = num_used + 1
        /\ tail_ptr' = tail_ptr /\ ret' = [ret EXCEPT ![t] = Outcome("stored", m, 0)]
    BY <1>0, <1>5, <2>1, <2>2 DEF EnqStore, Decide
  <2>4. head_ptr = Around(tail_ptr + num_used, num_max)
    BY DEF IInv, Window, Wrapped, Around
  <2>5. num_used \in 0 .. num_max - 1 /\ m \in Contained
    BY <1>0, <2>1
  <2>6. Contents' = Append(Contents, m)
    <3>1. Windowed([rawdata EXCEPT ![Around(tail_ptr + num_used, num_max)] = m], num_max,
                   tail_ptr, num_used + 1)
            = Append(Windowed(rawdata, num_max, tail_ptr, num_used), m)
      <4>1. Appends(m, Contained, rawdata, num_max, tail_ptr, num_used)
        BY <1>0, <2>5, StoreAppends, Zenon
      <4> QED BY <4>1 DEF Appends
    <3> QED BY <1>c, <1>d, <2>3, <2>4, <3>1
  <2>7. Len(Contents) = num_used
    BY <1>c, <1>l
  <2>8. ret[t] = Pending
    BY <2>1 DEF CallsOK, Undecided
  <2> QED BY <1>p, <2>1, <2>3, <2>6, <2>7, <2>8 DEF Fifo!Next, Fifo!Enqueue, Fifo!Decide
<1>6. ASSUME NEW t \in Threads, DeqTake(t) PROVE Fifo!Next
  <2>1. pc[t] = "deq_take" /\ ~(num_used <= 0)
    BY <1>6, <1>0, RoomAndMessage DEF DeqTake, IInv
  <2>2. /\ num_used' = num_used - 1 /\ rawdata' = rawdata /\ tail_ptr' = Wrapped(tail_ptr + 1)
        /\ ret' = [ret EXCEPT ![t] = Outcome("got", rawdata[tail_ptr], 0)]
    BY <1>6, <2>1 DEF DeqTake, Decide
  <2>3. num_used \in 1 .. num_max
    BY <1>0, <2>1
  <2>4. /\ Contents # <<>> /\ Head(Contents) = rawdata[tail_ptr]
        /\ Contents' = Tail(Contents)
    BY <1>0, <1>c, <1>d, <2>2, <2>3, TakeIsHead, ZenonT(60) DEF Wrapped, Around
  <2>5. ret[t] = Pending
    BY <2>1 DEF CallsOK, Undecided
  <2> QED BY <1>p, <2>2, <2>4, <2>5 DEF Fifo!Next, Fifo!Dequeue, Fifo!Decide
<1>7. ASSUME NEW t \in Threads, NumRead(t) PROVE Fifo!Next
  <2>1. Len(Contents) = num_used
    BY <1>c, <1>l
  <2>2. ret[t] = Pending
    BY <1>7 DEF NumRead, CallsOK, Undecided
  <2>3. ret' = [ret EXCEPT ![t] = Outcome("count", NoMessage, num_used)] /\ UNCHANGED Contents
    BY <1>1, <1>7 DEF NumRead, Decide
  <2> QED BY <1>p, <2>1, <2>2, <2>3 DEF Fifo!Next, Fifo!Count, Fifo!Decide
<1>8. ASSUME NEW t \in Threads, Call(t) PROVE Fifo!Next \/ UNCHANGED Fifo!vars
  <2>1. NumCall(t) => ret[t] = Pending
    BY DEF NumCall, CallsOK, Undecided
  <2>2. NumCall(t) => Fifo!Next \/ UNCHANGED Fifo!vars
    BY <1>1, <1>2, <1>4, <2>1 DEF NumCall
  <2> QED BY <1>1, <1>2, <1>8, <2>2 DEF Call, EnqCall, DeqCall
<1>9. ASSUME NEW t \in Threads, Timeout(t) PROVE Fifo!Next
  BY <1>4, <1>9 DEF Timeout, CallsOK, Undecided
<1>10. ASSUME NEW t \in Threads, EnqPost(t) \/ DeqPost(t) \/ Return(t) PROVE Fifo!Next
  BY <1>3, <1>10 DEF EnqPost, DeqPost, Return
<1>11. ASSUME NEW t \in Threads, EnqWake(t) \/ EnqLock(t) \/ EnqUnlock(t) \/ DeqWake(t)
                                 \/ DeqLock(t) \/ DeqUnlock(t)
       PROVE  UNCHANGED Fifo!vars
  BY <1>1, <1>2, <1>11 DEF EnqWake, EnqLock, EnqUnlock, DeqWake, DeqLock, DeqUnlock
<1>12. CASE UNCHANGED vars
  BY <1>1, <1>2, <1>12 DEF vars
<1> QED BY <1>5, <1>6, <1>7, <1>8, <1>9, <1>10, <1>11, <1>12 DEF Next, Step

\* However the calls of any number of threads interleave, and whatever times out, the
\* queue is a first-in first-out sequence of at most num_max messages: none is lost,
\* doubled or overtaken (em_queue.c:89-217).
THEOREM QueueImplementsFifo == Spec => ImplementsBoundedFifo
<1>1. Init => CallsOK /\ Fifo!Init
  BY CallsInit, FifoInit
<1> QED BY <1>1, CallsStep, FifoStep, QueueInvariant, PTL DEF Spec, ImplementsBoundedFifo, Fifo!Spec
=============================================================================
