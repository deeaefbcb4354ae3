---------------------------- MODULE MCMemMng ----------------------------
(* Instances of MemMng for TLC, and the view of the heap runs: which record *)
(* of a pool a piece got, and what a record not in use last held, is never  *)
(* read while every link leads to a live record.  Links that lead elsewhere *)
(* show in the view, so a state with one is not taken for another.          *)
EXTENDS MemMng, TLC

Symmetry == Permutations(Threads)

Place(r) == IF r \in Pieces THEN <<mm.info[r].mem_index, mm.info[r].mem_length>>
            ELSE IF r \in {First, Last} THEN <<r>> ELSE <<Null>>
Piece(r) == <<Place(r), mm.info[r].is_used, Place(mm.info[r].next), Place(mm.info[r].back)>>

HeapView ==
  <<{Piece(r) : r \in UsedPieces},
    [i \in 0 .. mm.free.num_used - 1 |-> Piece(mm.free.block_ptr[i])],
    {<<i, Place(mm.minfo_ptr[i])>> : i \in DOMAIN held \cup ({req[t].index : t \in Threads} \ {Null})},
    mm.mem_used_bsize, locks, pc, req, held, history>>

\* MaxUsed stops the model with both mutexes free; with one of them held there is
\* always a step, or else a deadlock.
Quiet == mutex = NoThread /\ cond_mutex = NoThread /\ UNCHANGED vars
=========================================================================
