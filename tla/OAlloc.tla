------------------------------- MODULE OAlloc -------------------------------
(***************************************************************************)
(* em_oalloc.c: memory handed out in units from the front of one area and  *)
(* never taken back before the area is given up.  Not locked.              *)
(***************************************************************************)
EXTENDS Integers

CONSTANTS TotalSizes, UnitSizes,  \* what em_omemmng_create may be called with
          Requests                \* the sizes asked for, far below what an int holds

VARIABLES
  mem_unit_size, mem_total_bnum, next_alloc_index,
  is_malloc,   \* the area is from alloc_func, not the caller's
  area,        \* history: the size of the area, 0 when it is freed
  allocated    \* history: where each allocation begins and how long it was to be

state == <<mem_unit_size, mem_total_bnum, next_alloc_index, is_malloc>>
vars == <<state, area, allocated>>

\* em_omemmng_create
Init == \E total \in TotalSizes, unit \in UnitSizes :
          /\ mem_unit_size = unit
          /\ mem_total_bnum = total \div unit
          /\ next_alloc_index = 0
          /\ is_malloc \in BOOLEAN
          /\ area = total
          /\ allocated = {}

\* Mutant: a unit that is not filled is not counted.
Units_Floor(size) == size \div mem_unit_size

Units(size) ==
  LET whole == size \div mem_unit_size
  IN IF size - whole * mem_unit_size > 0 THEN whole + 1 ELSE whole

\* em_oalloc; without room it answers NULL.
Alloc(size) ==
  /\ area > 0
  /\ Units(size) <= mem_total_bnum - next_alloc_index
  /\ allocated' = allocated \cup {[start |-> next_alloc_index * mem_unit_size, size |-> size]}
  /\ next_alloc_index' = next_alloc_index + Units(size)
  /\ UNCHANGED <<mem_unit_size, mem_total_bnum, is_malloc, area>>

\* em_omemmng_delete frees an area of its own and leaves the caller's alone; either way
\* the application has no allocation any more.
Delete ==
  /\ area > 0
  /\ area' = 0
  /\ allocated' = {}
  /\ UNCHANGED state

Next == Delete \/ \E size \in Requests : Alloc(size)

Spec == Init /\ [][Next]_vars

----------------------------------------------------------------------------
(* Properties. *)

\* Allocations lie inside the area and do not overlap, whether or not the sizes are
\* multiples of the unit and the area is one of units (38, 78-90).
AllocationsDisjoint ==
  /\ \A a \in allocated : a.start + a.size <= area
  /\ \A a, b \in allocated :
       a # b => a.start + a.size <= b.start \/ b.start + b.size <= a.start
=============================================================================
