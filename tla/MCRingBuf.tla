---------------------------- MODULE MCRingBuf ----------------------------
EXTENDS RingBuf, TLC

Symmetry == Permutations(Records)
==========================================================================
