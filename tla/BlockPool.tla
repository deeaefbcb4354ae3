----------------------------- MODULE BlockPool -----------------------------
(***************************************************************************)
(* What a memory pool promises its callers, whatever keeps it: a set of    *)
(* live blocks.  Every call takes effect in one step before it returns: an *)
(* allocation makes live a block that was not, a free takes a live block   *)
(* out, a listing is exactly the live set.                                 *)
(***************************************************************************)
CONSTANTS Threads, Blocks

VARIABLES live,   \* the blocks handed out and not yet given back
          ret     \* per thread, the outcome of the call under way

vars == <<live, ret>>

Outcome(kind, bs) == [kind |-> kind, blocks |-> bs]
Pending == Outcome("pending", {})
Decide(t, kind, bs) == /\ ret[t] = Pending
                       /\ ret' = [ret EXCEPT ![t] = Outcome(kind, bs)]

Init == /\ live = {}
        /\ ret = [t \in Threads |-> Pending]

Alloc(t) == \E b \in Blocks \ live : live' = live \cup {b} /\ Decide(t, "ok", {b})

Free(t) == \E b \in live : live' = live \ {b} /\ Decide(t, "ok", {b})

List(t) == Decide(t, "ok", live) /\ UNCHANGED live

\* A timed allocation gives up; a block that is not live is not freed.
Refuse(t) == Decide(t, "failed", {}) /\ UNCHANGED live

Return(t) == ret' = [ret EXCEPT ![t] = Pending] /\ UNCHANGED live

Next == \E t \in Threads : Alloc(t) \/ Free(t) \/ List(t) \/ Refuse(t) \/ Return(t)

Spec == Init /\ [][Next]_vars
=============================================================================
