------------------------------ MODULE MsgQueue ------------------------------
(***************************************************************************)
(* em_queue.c: a ring of num_max message slots shared by threads.  sem_in  *)
(* counts the slots a producer may claim, sem_out the messages a consumer  *)
(* may claim, and the mutex guards the ring.  The two counts are moved     *)
(* outside the mutex, so at most moments they disagree with num_used.      *)
(***************************************************************************)
EXTENDS Integers, FiniteSets, Sequences

CONSTANTS Threads,    \* the threads that share the queue
          Messages,   \* the contents a message may have
          NoMessage,  \* the content of a slot never written, a buffer not filled
          NoThread,   \* the owner of a mutex nobody holds
          num_max     \* the number of slots

ASSUME QueueAssumption == /\ num_max \in Nat \ {0}
                          /\ IsFiniteSet(Threads)
                          /\ NoThread \notin Threads
                          /\ NoMessage \notin Messages

Slots == 0 .. num_max - 1

VARIABLES
  num_used, head_ptr, tail_ptr,  \* em_queue_t
  rawdata,           \* the contents of the slots
  sem_in, sem_out,   \* the semaphores' values
  mutex,             \* owner of qu->mutex
  pc,                \* what each thread is about to do
  buf,               \* block_data of its call
  ret                \* outcome of its call, once decided

ring == <<num_used, head_ptr, tail_ptr, rawdata>>
vars == <<ring, sem_in, sem_out, mutex, pc, buf, ret>>

Outcome(kind, m, n) == [kind |-> kind, msg |-> m, num |-> n]
Pending == Outcome("pending", NoMessage, 0)
Decide(t, kind, m, n) == ret' = [ret EXCEPT ![t] = Outcome(kind, m, n)]
Goto(t, l) == pc' = [pc EXCEPT ![t] = l]

\* The call returns: its locals are gone.
Leave(t) == /\ Goto(t, "idle")
            /\ buf' = [buf EXCEPT ![t] = NoMessage]
            /\ ret' = [ret EXCEPT ![t] = Pending]

Init == /\ num_used = 0 /\ head_ptr = 0 /\ tail_ptr = 0
        /\ rawdata = [i \in Slots |-> NoMessage]
        /\ sem_in = num_max
        /\ sem_out = 0
        /\ mutex = NoThread
        /\ pc = [t \in Threads |-> "idle"]
        /\ buf = [t \in Threads |-> NoMessage]
        /\ ret = [t \in Threads |-> Pending]

Lock(t)   == mutex = NoThread /\ mutex' = t
Unlock(t) == mutex' = NoThread

\* Mutant: the pointers wrap one slot late.
Wrapped_Late(i) == IF i > num_max THEN i - num_max ELSE i

Wrapped(i) == IF i >= num_max THEN i - num_max ELSE i

----------------------------------------------------------------------------
(* em_enqueue.  em_sem_wait claims a slot at once when it can; otherwise    *)
(* the caller sleeps, for ever or until its timeout, which may strike even  *)
(* as a post arrives.                                                       *)

EnqCall(t, m, timed) ==
  /\ pc[t] = "idle"
  /\ buf' = [buf EXCEPT ![t] = m]
  /\ IF sem_in > 0
       THEN sem_in' = sem_in - 1 /\ Goto(t, "enq_lock")
       ELSE UNCHANGED sem_in /\ Goto(t, IF timed THEN "enq_timedwait" ELSE "enq_wait")
  /\ UNCHANGED <<ring, sem_out, mutex, ret>>

EnqWake(t) ==
  /\ pc[t] \in {"enq_wait", "enq_timedwait"}
  /\ sem_in > 0
  /\ sem_in' = sem_in - 1
  /\ Goto(t, "enq_lock")
  /\ UNCHANGED <<ring, sem_out, mutex, buf, ret>>

EnqLock(t) ==
  /\ pc[t] = "enq_lock"
  /\ Lock(t)
  /\ Goto(t, "enq_store")
  /\ UNCHANGED <<ring, sem_in, sem_out, buf, ret>>

\* Mutant: the head is advanced before the copy.
EnqStore_HeadFirst(t) ==
  /\ pc[t] = "enq_store"
  /\ IF num_used >= num_max
       THEN Decide(t, "fatal", NoMessage, 0) /\ UNCHANGED ring
       ELSE /\ rawdata' = [rawdata EXCEPT ![Wrapped(head_ptr + 1)] = buf[t]]
            /\ num_used' = num_used + 1
            /\ head_ptr' = Wrapped(head_ptr + 1)
            /\ UNCHANGED tail_ptr
            /\ Decide(t, "stored", buf[t], 0)
  /\ Goto(t, "enq_unlock")
  /\ UNCHANGED <<sem_in, sem_out, mutex, buf>>

\* Lines 130-145: "Fatal Error" on a full ring, else copy and advance the head.
EnqStore(t) ==
  /\ pc[t] = "enq_store"
  /\ IF num_used >= num_max
       THEN Decide(t, "fatal", NoMessage, 0) /\ UNCHANGED ring
       ELSE /\ rawdata' = [rawdata EXCEPT ![head_ptr] = buf[t]]
            /\ num_used' = num_used + 1
            /\ head_ptr' = Wrapped(head_ptr + 1)
            /\ UNCHANGED tail_ptr
            /\ Decide(t, "stored", buf[t], 0)
  /\ Goto(t, "enq_unlock")
  /\ UNCHANGED <<sem_in, sem_out, mutex, buf>>

EnqUnlock(t) ==
  /\ pc[t] = "enq_unlock"
  /\ Unlock(t)
  /\ Goto(t, "enq_post")
  /\ UNCHANGED <<ring, sem_in, sem_out, buf, ret>>

\* Mutant: a good call posts the producers' semaphore.
EnqPost_WrongSemaphore(t) ==
  /\ pc[t] = "enq_post"
  /\ sem_in' = sem_in + 1
  /\ Leave(t)
  /\ UNCHANGED <<ring, sem_out, mutex>>

\* A fatal call gives its slot back, a good one announces its message.
EnqPost(t) ==
  /\ pc[t] = "enq_post"
  /\ IF ret[t].kind = "fatal"
       THEN sem_in' = sem_in + 1 /\ UNCHANGED sem_out
       ELSE sem_out' = sem_out + 1 /\ UNCHANGED sem_in
  /\ Leave(t)
  /\ UNCHANGED <<ring, mutex>>

----------------------------------------------------------------------------
(* em_dequeue *)

\* Mutant: a second claim is taken with the first.
DeqCall_Twice(t, timed) ==
  /\ pc[t] = "idle"
  /\ IF sem_out > 0
       THEN sem_out' = 0 /\ Goto(t, "deq_lock")
       ELSE UNCHANGED sem_out /\ Goto(t, IF timed THEN "deq_timedwait" ELSE "deq_wait")
  /\ UNCHANGED <<ring, sem_in, mutex, buf, ret>>

DeqCall(t, timed) ==
  /\ pc[t] = "idle"
  /\ IF sem_out > 0
       THEN sem_out' = sem_out - 1 /\ Goto(t, "deq_lock")
       ELSE UNCHANGED sem_out /\ Goto(t, IF timed THEN "deq_timedwait" ELSE "deq_wait")
  /\ UNCHANGED <<ring, sem_in, mutex, buf, ret>>

DeqWake(t) ==
  /\ pc[t] \in {"deq_wait", "deq_timedwait"}
  /\ sem_out > 0
  /\ sem_out' = sem_out - 1
  /\ Goto(t, "deq_lock")
  /\ UNCHANGED <<ring, sem_in, mutex, buf, ret>>

DeqLock(t) ==
  /\ pc[t] = "deq_lock"
  /\ Lock(t)
  /\ Goto(t, "deq_take")
  /\ UNCHANGED <<ring, sem_in, sem_out, buf, ret>>

\* Mutant: the tail stays where it is.
DeqTake_TailKept(t) ==
  /\ pc[t] = "deq_take"
  /\ buf' = [buf EXCEPT ![t] = rawdata[tail_ptr]]
  /\ num_used' = num_used - 1
  /\ UNCHANGED <<head_ptr, tail_ptr, rawdata, sem_in, sem_out, mutex>>
  /\ Decide(t, "got", rawdata[tail_ptr], 0)
  /\ Goto(t, "deq_unlock")

\* Lines 199-212: "Fatal queue error" on an empty ring, which gives the message
\* count back before the unlock; else copy out and advance the tail.
DeqTake(t) ==
  /\ pc[t] = "deq_take"
  /\ IF num_used <= 0
       THEN /\ Decide(t, "fatal", NoMessage, 0)
            /\ sem_out' = sem_out + 1
            /\ UNCHANGED <<ring, buf>>
       ELSE /\ buf' = [buf EXCEPT ![t] = rawdata[tail_ptr]]
            /\ num_used' = num_used - 1
            /\ tail_ptr' = Wrapped(tail_ptr + 1)
            /\ UNCHANGED <<head_ptr, rawdata, sem_out>>
            /\ Decide(t, "got", rawdata[tail_ptr], 0)
  /\ Goto(t, "deq_unlock")
  /\ UNCHANGED <<sem_in, mutex>>

DeqUnlock(t) ==
  /\ pc[t] = "deq_unlock"
  /\ Unlock(t)
  /\ Goto(t, IF ret[t].kind = "fatal" THEN "return" ELSE "deq_post")
  /\ UNCHANGED <<ring, sem_in, sem_out, buf, ret>>

DeqPost(t) ==
  /\ pc[t] = "deq_post"
  /\ sem_in' = sem_in + 1
  /\ Leave(t)
  /\ UNCHANGED <<ring, sem_out, mutex>>

\* Mutant: the result of em_sem_wait is not looked at by em_dequeue.
Timeout_Ignored(t) ==
  /\ pc[t] \in {"enq_timedwait", "deq_timedwait"}
  /\ Goto(t, IF pc[t] = "enq_timedwait" THEN "return" ELSE "deq_lock")
  /\ UNCHANGED <<ring, sem_in, sem_out, mutex, buf, ret>>

\* em_sem_wait fails: nothing was claimed.
Timeout(t) ==
  /\ pc[t] \in {"enq_timedwait", "deq_timedwait"}
  /\ Decide(t, "failed", NoMessage, 0)
  /\ Goto(t, "return")
  /\ UNCHANGED <<ring, sem_in, sem_out, mutex, buf>>

----------------------------------------------------------------------------
(* em_queue_getnum does not wait for the mutex. *)

NumCall(t) ==
  /\ pc[t] = "idle"
  /\ IF mutex = NoThread
       THEN Lock(t) /\ Goto(t, "num_read") /\ UNCHANGED ret
       ELSE /\ Decide(t, "failed", NoMessage, 0)
            /\ Goto(t, "return")
            /\ UNCHANGED mutex
  /\ UNCHANGED <<ring, sem_in, sem_out, buf>>

NumRead(t) ==
  /\ pc[t] = "num_read"
  /\ Decide(t, "count", NoMessage, num_used)
  /\ Unlock(t)
  /\ Goto(t, "return")
  /\ UNCHANGED <<ring, sem_in, sem_out, buf>>

Return(t) ==
  /\ pc[t] = "return"
  /\ Leave(t)
  /\ UNCHANGED <<ring, sem_in, sem_out, mutex>>

----------------------------------------------------------------------------
Call(t) == \/ \E m \in Messages, timed \in BOOLEAN : EnqCall(t, m, timed)
           \/ \E timed \in BOOLEAN : DeqCall(t, timed)
           \/ NumCall(t)

\* A step of a call under way; timeouts are not among them.
Step(t) == \/ EnqWake(t) \/ EnqLock(t) \/ EnqStore(t) \/ EnqUnlock(t) \/ EnqPost(t)
           \/ DeqWake(t) \/ DeqLock(t) \/ DeqTake(t) \/ DeqUnlock(t) \/ DeqPost(t)
           \/ NumRead(t) \/ Return(t)

Next == \E t \in Threads : Call(t) \/ Step(t) \/ Timeout(t)

Spec == Init /\ [][Next]_vars

\* The scheduler runs every thread; nobody is obliged to call or to time out.
FairSpec == Spec /\ \A t \in Threads : WF_vars(Step(t))

----------------------------------------------------------------------------
(* Properties. *)

Labels == {"idle", "return", "num_read",
           "enq_wait", "enq_timedwait", "enq_lock", "enq_store", "enq_unlock", "enq_post",
           "deq_wait", "deq_timedwait", "deq_lock", "deq_take", "deq_unlock", "deq_post"}

Kinds == {"pending", "stored", "got", "count", "failed", "fatal"}

TypeOK == /\ num_used \in 0 .. num_max
          /\ head_ptr \in Slots
          /\ tail_ptr \in Slots
          /\ rawdata \in [Slots -> Messages \cup {NoMessage}]
          /\ sem_in \in 0 .. num_max
          /\ sem_out \in 0 .. num_max
          /\ mutex \in Threads \cup {NoThread}
          /\ pc \in [Threads -> Labels]
          /\ buf \in [Threads -> Messages \cup {NoMessage}]
          /\ ret \in [Threads -> [kind : Kinds, msg : Messages \cup {NoMessage},
                                  num : 0 .. num_max]]

At(labels) == {t \in Threads : pc[t] \in labels}

\* Every message in the ring is announced, about to be announced by the producer that
\* stored it, or claimed by a consumer that has not taken it, and the same holds of the
\* free slots on the producers' side: no interleaving of the two semaphores, the mutex
\* and the timeouts loses or invents a claim (114-217).
ClaimsAccounted ==
  /\ num_used = sem_out + Cardinality(At({"enq_unlock", "enq_post"}))
                        + Cardinality(At({"deq_lock", "deq_take"}))
  /\ num_max - num_used = sem_in + Cardinality(At({"enq_lock", "enq_store"}))
                                 + Cardinality(At({"deq_unlock", "deq_post"}))

\* The comment at line 203: an empty queue has been turned away at the semaphore,
\* so the branches that find the ring full or empty under the lock are never taken.
NeverFatal == \A t \in Threads : ret[t].kind # "fatal"

\* The window between the two pointers is the messages, however often they wrap.
RingShape == head_ptr = (tail_ptr + num_used) % num_max

Asleep(u) == pc[u] \in {"enq_wait", "enq_timedwait", "deq_wait", "deq_timedwait"}

\* Nobody sleeps for ever on a semaphore that somebody has already posted: when
\* all the others have fallen silent for good, a producer still asleep means a
\* full ring and a consumer still asleep an empty one (114-217).
SleepsOnlyWithReason ==
  \A t \in Threads :
    ~ <>[](/\ \A u \in Threads \ {t} : pc[u] = "idle" \/ Asleep(u)
           /\ \/ pc[t] \in {"enq_wait", "enq_timedwait"} /\ num_used < num_max
              \/ pc[t] \in {"deq_wait", "deq_timedwait"} /\ num_used > 0)

\* The queue as its callers see it: no message lost, doubled or overtaken.
Contents == [i \in 1 .. num_used |-> rawdata[(tail_ptr + i - 1) % num_max]]

Fifo == INSTANCE BoundedFifo WITH queue <- Contents, Capacity <- num_max
ImplementsBoundedFifo == Fifo!Spec

\* What em_queue's own counters promise each other at every moment of every call:
\* semaphores within the ring's size, claims that add up, the branches called
\* unexpected never reached, and the window between the pointers.
QueueSound == TypeOK /\ ClaimsAccounted /\ NeverFatal /\ RingShape
=============================================================================
