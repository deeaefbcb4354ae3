----------------------------- MODULE KeyedBlocks -----------------------------
(***************************************************************************)
(* The data of em_gdatamng.c: the blocks of a pool, each with a key, a     *)
(* count and a datum.  A block not in use keeps what it last held.  With   *)
(* integer keys this is em_idatamng.c.                                     *)
(***************************************************************************)
EXTENDS Pools, FiniteSetsExt

\* em_gdatamng_create; keys and data of the blocks are whatever the memory held.
EmptyData(num, key, datum) ==
  LET blocks == 0 .. num - 1
  IN [mp |-> [num_used |-> 0, block_ptr |-> [i \in blocks |-> i]],
      key |-> [b \in blocks |-> key],
      count |-> [b \in blocks |-> 0],
      data |-> [b \in blocks |-> datum]]

\* The first of the wanted blocks in the order of the pool.
FirstBlock(dm, wanted) ==
  LET places == {i \in 0 .. dm.mp.num_used - 1 : dm.mp.block_ptr[i] \in wanted}
  IN IF places = {} THEN NoBlock ELSE dm.mp.block_ptr[Min(places)]

BlockOf(dm, k) == FirstBlock(dm, {b \in DOMAIN dm.key : dm.key[b] = k})

Filled(dm, b, k, v) == [dm EXCEPT !.key[b] = k, !.count[b] = 1, !.data[b] = v]
=============================================================================
