---------------------------- MODULE MCMempool ----------------------------
(* Instances of Mempool for TLC: two threads and three blocks for what      *)
(* holds, two and two for the lookup that does not see a moving block.      *)
EXTENDS Mempool, TLC
==========================================================================
