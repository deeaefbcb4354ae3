------------------------------ MODULE ListMng ------------------------------
(***************************************************************************)
(* em_list.c: a doubly linked list of items from a pool, appended to at    *)
(* the end and removed from by position.  Nothing in it is locked: one     *)
(* thread uses a list.                                                     *)
(***************************************************************************)
EXTENDS Pools, Sequences

CONSTANTS Data,       \* what an item may point to
          num_max_item,
          NoData

Items == 0 .. num_max_item - 1
NULL == -1

VARIABLES
  mp_list,            \* mp
  first, last, count,
  item,               \* the data, next and back of each item
  expected            \* history: the data added and not removed, in order

vars == <<mp_list, first, last, count, item, expected>>

\* em_list_create; the items are whatever the memory held.
Init == /\ mp_list = [num_used |-> 0, block_ptr |-> [i \in Items |-> i]]
        /\ first = NULL /\ last = NULL /\ count = 0
        /\ item = [i \in Items |-> [data |-> NoData, next |-> NULL, back |-> NULL]]
        /\ expected = <<>>

\* Mutant: a new item is linked to the last one in one direction.
Add_NoBack(d) ==
  /\ ~PoolFull(mp_list)
  /\ LET new == PoolNext(mp_list)
         linked == IF first = NULL THEN item ELSE [item EXCEPT ![last].next = new]
     IN /\ item' = [linked EXCEPT ![new].data = d, ![new].next = NULL]
        /\ first' = IF first = NULL THEN new ELSE first
        /\ last' = new
  /\ mp_list' = PoolAlloc(mp_list)
  /\ count' = count + 1
  /\ expected' = Append(expected, d)

\* em_list_add; without a free item the call is refused.
Add(d) ==
  /\ ~PoolFull(mp_list)
  /\ LET new == PoolNext(mp_list)
         linked == IF first = NULL THEN item ELSE [item EXCEPT ![last].next = new]
     IN /\ item' = [linked EXCEPT ![new] =
                      [data |-> d, next |-> NULL, back |-> IF first = NULL THEN NULL ELSE last]]
        /\ first' = IF first = NULL THEN new ELSE first
        /\ last' = new
  /\ mp_list' = PoolAlloc(mp_list)
  /\ count' = count + 1
  /\ expected' = Append(expected, d)

\* The item at a position, by next from the first one; likewise by back from the last.
Forward(n) ==
  LET walk[i \in 0 .. n] == IF i = 0 THEN first ELSE item[walk[i - 1]].next
  IN walk[n]
Backward(n) ==
  LET walk[i \in 0 .. n] == IF i = 0 THEN last ELSE item[walk[i - 1]].back
  IN walk[n]

\* Mutant: the last item is removed and stays the last.
RemoveAt_LastKept(index) ==
  /\ index < count
  /\ LET d == item[Forward(index)]
         before == IF d.back = NULL THEN item ELSE [item EXCEPT ![d.back].next = d.next]
     IN /\ item' = IF d.next = NULL THEN before ELSE [before EXCEPT ![d.next].back = d.back]
        /\ first' = IF d.back = NULL THEN d.next ELSE first
        /\ mp_list' = PoolFree(mp_list, Forward(index))
  /\ count' = count - 1
  /\ expected' = [i \in 1 .. Len(expected) - 1 |-> expected[IF i <= index THEN i ELSE i + 1]]
  /\ UNCHANGED last

\* em_list_remove_at; a position behind the end is refused.
RemoveAt(index) ==
  /\ index < count
  /\ LET d == item[Forward(index)]
         before == IF d.back = NULL THEN item ELSE [item EXCEPT ![d.back].next = d.next]
     IN /\ item' = IF d.next = NULL THEN before ELSE [before EXCEPT ![d.next].back = d.back]
        /\ first' = IF d.back = NULL THEN d.next ELSE first
        /\ last' = IF d.next = NULL THEN d.back ELSE last
        /\ mp_list' = PoolFree(mp_list, Forward(index))
  /\ count' = count - 1
  /\ expected' = [i \in 1 .. Len(expected) - 1 |-> expected[IF i <= index THEN i ELSE i + 1]]

\* em_list_delete gives up the pool, with the items that are left, and em_list_create
\* makes a new one for the next use.
Recreate ==
  /\ mp_list' = [num_used |-> 0, block_ptr |-> [i \in Items |-> i]]
  /\ first' = NULL /\ last' = NULL /\ count' = 0
  /\ expected' = <<>>
  /\ UNCHANGED item

Next == \/ Recreate
        \/ \E d \in Data : Add(d)
        \/ \E index \in 0 .. num_max_item - 1 : RemoveAt(index)

Spec == Init /\ [][Next]_vars

----------------------------------------------------------------------------
(* Properties. *)

\* The list is the data added and not removed, in order, read by next from the first
\* item and by back from the last, and it has exactly the items in use (51-113).
ListIsSequence ==
  /\ count = Len(expected)
  /\ (count = 0) = (first = NULL)
  /\ \A i \in 0 .. count - 1 : /\ item[Forward(i)].data = expected[i + 1]
                               /\ Backward(count - 1 - i) = Forward(i)
  /\ InUse(mp_list) = {Forward(i) : i \in 0 .. count - 1}
  /\ count > 0 => item[last].next = NULL /\ item[first].back = NULL
=============================================================================
