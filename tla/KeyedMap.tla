------------------------------ MODULE KeyedMap ------------------------------
(***************************************************************************)
(* What a data manager promises: at most Capacity keys, each with a datum  *)
(* and a count of how often it was added.  A key added again is refused,   *)
(* updated or counted, whichever the manager was created for; a key whose  *)
(* count comes to nothing is gone.                                         *)
(***************************************************************************)
EXTENDS Integers, FiniteSets, Functions

CONSTANTS Keys, Values, Capacity

VARIABLES mode,     \* "error", "update" or "countup"
          entries   \* a function from the keys present

vars == <<mode, entries>>

Init == /\ mode \in {"error", "update", "countup"}
        /\ entries = <<>>

Put(k, datum, count) ==
  entries' = [j \in DOMAIN entries \cup {k} |->
                IF j = k THEN [data |-> datum, count |-> count] ELSE entries[j]]

Add(k, v) == /\ k \notin DOMAIN entries
             /\ Cardinality(DOMAIN entries) < Capacity
             /\ Put(k, v, 1)

AddAgain(k, v) == /\ k \in DOMAIN entries
                  /\ \/ mode = "update" /\ Put(k, v, entries[k].count)
                     \/ mode = "countup" /\ Put(k, entries[k].data, entries[k].count + 1)

Remove(k) == /\ k \in DOMAIN entries
             /\ IF entries[k].count = 1
                  THEN entries' = Restrict(entries, DOMAIN entries \ {k})
                  ELSE Put(k, entries[k].data, entries[k].count - 1)

Next == /\ \E k \in Keys : Remove(k) \/ \E v \in Values : Add(k, v) \/ AddAgain(k, v)
        /\ UNCHANGED mode

Spec == Init /\ [][Next]_vars
=============================================================================
