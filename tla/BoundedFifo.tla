---------------------------- MODULE BoundedFifo ----------------------------
(***************************************************************************)
(* What a message queue promises: a first-in first-out sequence of at most *)
(* Capacity messages.  Every call takes effect in one step before it       *)
(* returns.                                                                *)
(***************************************************************************)
EXTENDS Integers, Sequences

CONSTANTS Threads, Messages, NoMessage, Capacity

VARIABLES queue,  \* the messages accepted and not yet delivered
          ret     \* per thread, the outcome of the call under way

vars == <<queue, ret>>

Outcome(kind, m, n) == [kind |-> kind, msg |-> m, num |-> n]
Pending == Outcome("pending", NoMessage, 0)
Decide(t, kind, m, n) == /\ ret[t] = Pending
                         /\ ret' = [ret EXCEPT ![t] = Outcome(kind, m, n)]

Init == /\ queue = <<>>
        /\ ret = [t \in Threads |-> Pending]

Enqueue(t) == \E m \in Messages :
                /\ Len(queue) < Capacity
                /\ queue' = Append(queue, m)
                /\ Decide(t, "stored", m, 0)

Dequeue(t) == /\ queue # <<>>
              /\ queue' = Tail(queue)
              /\ Decide(t, "got", Head(queue), 0)

Count(t) == Decide(t, "count", NoMessage, Len(queue)) /\ UNCHANGED queue

\* A timed call gives up; a count that would have to wait is refused.
Refuse(t) == Decide(t, "failed", NoMessage, 0) /\ UNCHANGED queue

Return(t) == ret' = [ret EXCEPT ![t] = Pending] /\ UNCHANGED queue

Next == \E t \in Threads :
          Enqueue(t) \/ Dequeue(t) \/ Count(t) \/ Refuse(t) \/ Return(t)

Spec == Init /\ [][Next]_vars
=============================================================================
