----------------------------- MODULE MCLibrary -----------------------------
(***************************************************************************)
(* Instances of TimerMng, SyncMng, ListMng, OAlloc, TimeCalc and GeoJson   *)
(* for TLC.  They share no state: part says which of them runs in a        *)
(* behaviour, so that their state spaces add up; the others then stay in   *)
(* one of their initial states.                                            *)
(***************************************************************************)
EXTENDS TimerMng, TLC

CONSTANTS Users, MaxNum, MaxValue,
          Data, num_max_item, NoData,
          TotalSizes, UnitSizes, Requests,
          Moments, Timeouts, IntWord,
          KeyLengths, ValueLengths, PointLengths, MaxElems, BufferSizes

\* A unit has bytes, a piece of text has characters, sizes and time-outs are not negative,
\* the clock is not before 1970.
ASSUME LibraryAssumption ==
  /\ IsFiniteSet(Users) /\ MaxNum \in Nat \ {0} /\ MaxValue \in Nat
  /\ num_max_item \in Nat
  /\ TotalSizes \subseteq Nat /\ UnitSizes \subseteq Nat \ {0} /\ Requests \subseteq Nat
  /\ Moments \subseteq Nat /\ Timeouts \subseteq Nat
  /\ KeyLengths \cup ValueLengths \cup PointLengths \subseteq Nat \ {0}
  /\ MaxElems \in Nat /\ BufferSizes \subseteq Nat

VARIABLES
  part,
  kind, mp_sync, permits, value, islock, known, lost, job, on, torn, down,
  mp_list, first, last, count, item, expected,
  mem_unit_size, mem_total_bnum, next_alloc_index, is_malloc, area, allocated,
  now, is_initialized, init_time, begun,
  gf, len, dst

sync == <<kind, mp_sync, permits, value, islock, known, lost, job, on, torn, down>>
list == <<mp_list, first, last, count, item, expected>>
oalloc == <<mem_unit_size, mem_total_bnum, next_alloc_index, is_malloc, area, allocated>>
clock == <<now, is_initialized, init_time, begun>>
json == <<gf, len, dst>>

Sync == INSTANCE SyncMng
List == INSTANCE ListMng
Area == INSTANCE OAlloc
Clock == INSTANCE TimeCalc
Json == INSTANCE GeoJson

One(S) == CHOOSE x \in S : TRUE

MCInit ==
  /\ part \in {"timers", "sync", "list", "oalloc", "clock", "geojson"}
  /\ part = "sync" \/ (kind = "mutex" /\ islock = [b \in 0 .. MaxNum - 1 |-> FALSE])
  /\ part = "oalloc" \/ (is_malloc = TRUE /\ mem_unit_size = One(UnitSizes)
                           /\ area = One(TotalSizes))
  /\ part = "clock" \/ now = One(Moments)
  /\ part = "geojson" \/ (gf = One({f \in Json!Features : ~f.has_properties /\ f.properties = <<>>})
                            /\ len = One(BufferSizes))
  /\ Init /\ Sync!Init /\ List!Init /\ Area!Init /\ Clock!Init /\ Json!Init

\* What is printed is printed once; a program that gave a null pointer away is down, and
\* threads wait for good for a semaphore nobody posts.
Ended == \/ part = "geojson" /\ dst # Json!Nothing
         \/ part = "sync" /\ ~ENABLED Sync!Next
         \/ part = "oalloc" /\ area = 0

MCNext ==
  /\ UNCHANGED part
  /\ \/ part = "timers" /\ Next /\ UNCHANGED <<sync, list, oalloc, clock, json>>
     \/ part = "sync" /\ Sync!Next /\ UNCHANGED <<vars, list, oalloc, clock, json>>
     \/ part = "list" /\ List!Next /\ UNCHANGED <<vars, sync, oalloc, clock, json>>
     \/ part = "oalloc" /\ Area!Next /\ UNCHANGED <<vars, sync, list, clock, json>>
     \/ part = "clock" /\ Clock!Next /\ UNCHANGED <<vars, sync, list, oalloc, json>>
     \/ part = "geojson" /\ Json!PrintFeature /\ UNCHANGED <<vars, sync, list, oalloc, clock>>
     \/ Ended /\ UNCHANGED <<vars, sync, list, oalloc, clock, json>>

MCSpec == MCInit /\ [][MCNext]_<<part, vars, sync, list, oalloc, clock, json>>

\* The configuration takes the same values for Users as for KernelIds and for Data as for
\* Settings: no part has both, and one permutation serves two parts.
Symmetry == Permutations(Apps) \cup Permutations(Callbacks) \cup Permutations(Settings)
              \cup Permutations(KernelIds)

PermitsAccounted == Sync!PermitsAccounted
BlocksAccounted == Sync!BlocksAccounted
ListIsSequence == List!ListIsSequence
AllocationsDisjoint == Area!AllocationsDisjoint
TimesExact == Clock!TimesExact
TextComplete == Json!TextComplete
=============================================================================
