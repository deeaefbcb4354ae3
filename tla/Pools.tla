------------------------------- MODULE Pools -------------------------------
(***************************************************************************)
(* A memory pool (em_mempool.c, module Mempool) as its owner sees it who   *)
(* calls it only under a mutex of its own and never waits: num_used and    *)
(* the permutation block_ptr, whose first num_used entries are in use.     *)
(***************************************************************************)
EXTENDS Integers, FiniteSets

NoBlock == -1  \* no block: what an id or index holds that names none

\* An allocation with timeout 0 fails exactly when all blocks are in use.
PoolFull(p) == p.num_used = Cardinality(DOMAIN p.block_ptr)
PoolNext(p) == p.block_ptr[p.num_used]
PoolAlloc(p) == [p EXCEPT !.num_used = @ + 1]
InUse(p) == {p.block_ptr[i] : i \in 0 .. p.num_used - 1}

\* The last block in use moves into the hole (em_mpool_free_block_by_dataidx).
\* A block not in use is refused.
PoolFree(p, r) ==
  LET last == p.num_used - 1
      hole == CHOOSE i \in 0 .. last : p.block_ptr[i] = r
  IN IF r \notin InUse(p) THEN p
     ELSE [num_used |-> last,
           block_ptr |-> [p.block_ptr EXCEPT ![hole] = p.block_ptr[last], ![last] = r]]
=============================================================================
