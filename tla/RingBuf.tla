------------------------------ MODULE RingBuf ------------------------------
(***************************************************************************)
(* em_ringbuf.c: a ring of num_max records written by one thread, read by  *)
(* offset from the newest or from the oldest.  A record is written in two  *)
(* calls: em_ring_get_dataptr_new hands out the slot at the head, the      *)
(* caller fills it, em_ring_add_newdata makes it the newest.  All counts   *)
(* are C's unsigned int, so differences wrap modulo Word.                  *)
(***************************************************************************)
EXTENDS Integers, Sequences

CONSTANTS Records,   \* what a record may hold
          NoRecord,  \* what a slot holds that was never written
          num_max,   \* the number of slots
          Word       \* one more than UINT_MAX

ASSUME RingAssumption == /\ num_max \in Nat \ {0}
                         /\ Word \in Nat /\ Word > 2 * num_max
                         /\ NoRecord \notin Records

Slots == 0 .. num_max - 1
Null == -1

VARIABLES
  num_used, head_ptr, tail_ptr, override_mode,  \* em_ring_t
  rawdata,   \* the slots
  slot,      \* the slot the caller is filling, Null if none
  added      \* history: the last num_max records added, newest last

pointers == <<num_used, head_ptr, tail_ptr>>
vars == <<pointers, override_mode, rawdata, slot, added>>

Init == /\ num_used = 0 /\ head_ptr = 0 /\ tail_ptr = 0
        /\ override_mode \in {"error", "update"}
        /\ rawdata = [i \in Slots |-> NoRecord]
        /\ slot = Null
        /\ added = <<>>

----------------------------------------------------------------------------
\* em_ring_delete_taildata, past its guard.
Deleted(n) ==
  /\ num_used' = num_used - n
  /\ tail_ptr' = (tail_ptr + n) % num_max

\* em_ring_get_dataptr_new: a full ring gives up its oldest record or refuses.
GetNew ==
  /\ \/ num_used < num_max /\ UNCHANGED <<num_used, tail_ptr>>
     \/ num_used >= num_max /\ override_mode = "update" /\ Deleted(1)
  /\ slot' = head_ptr
  /\ UNCHANGED <<head_ptr, override_mode, rawdata, added>>

\* The caller fills the slot it was given.
Fill(r) ==
  /\ slot # Null
  /\ rawdata' = [rawdata EXCEPT ![slot] = r]
  /\ UNCHANGED <<pointers, override_mode, slot, added>>

LastOf(s) == IF Len(s) > num_max THEN Tail(s) ELSE s

\* Mutant: the head is left behind when the ring has just become full.
Add_HeadKept ==
  /\ slot # Null
  /\ num_used < num_max
  /\ num_used' = num_used + 1
  /\ head_ptr' = IF num_used + 1 = num_max THEN head_ptr ELSE (head_ptr + 1) % num_max
  /\ added' = LastOf(Append(added, rawdata[head_ptr]))
  /\ slot' = Null
  /\ UNCHANGED <<tail_ptr, override_mode, rawdata>>

\* em_ring_add_newdata; a caller adds what it has been given a slot for.
Add ==
  /\ slot # Null
  /\ num_used < num_max
  /\ num_used' = num_used + 1
  /\ head_ptr' = (head_ptr + 1) % num_max
  /\ added' = LastOf(Append(added, rawdata[head_ptr]))
  /\ slot' = Null
  /\ UNCHANGED <<tail_ptr, override_mode, rawdata>>

Delete(n) ==
  /\ ~(n = 0 \/ n > num_used)
  /\ Deleted(n)
  /\ UNCHANGED <<head_ptr, override_mode, rawdata, slot, added>>

Next == \/ GetNew \/ Add
        \/ \E r \in Records : Fill(r)
        \/ \E n \in 1 .. num_max : Delete(n)

Spec == Init /\ [][Next]_vars

----------------------------------------------------------------------------
(* The two ways to read. *)

\* Mutant: the newest record is taken to be at the head.
HeadSlot_AtHead(offset) ==
  IF offset + 1 > num_used THEN Null
  ELSE LET idx == head_ptr - offset
       IN IF idx < 0 THEN (Word + idx) % num_max ELSE idx % num_max

\* em_ring_get_dataptr_head: a negative idx is converted to unsigned by idx %= num_max.
HeadSlot(offset) ==
  IF offset + 1 > num_used THEN Null
  ELSE LET idx == head_ptr - 1 - offset
       IN IF idx < 0 THEN (Word + idx) % num_max ELSE idx

\* em_ring_get_dataptr_tail
TailSlot(offset) ==
  IF offset + 1 > num_used THEN Null ELSE (tail_ptr + offset) % num_max

----------------------------------------------------------------------------
(* Properties. *)

\* "Newest data, offset 0: the newest" (line 110): whatever was added, overwritten
\* and deleted since, offset o reads the record added o before the last.
NewestFirst == \A o \in 0 .. num_used - 1 :
  rawdata[HeadSlot(o)] = added[Len(added) - o]

\* "Oldest data, offset 0: the oldest" (line 125), and a record that can be read
\* is not in the slot its writer is filling.
OldestFirst == \A o \in 0 .. num_used - 1 :
  /\ rawdata[TailSlot(o)] = added[Len(added) - num_used + 1 + o]
  /\ TailSlot(o) # slot
=============================================================================
