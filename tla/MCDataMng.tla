---------------------------- MODULE MCDataMng ----------------------------
(* Instances of DataMng for TLC.  Threads and data are interchangeable, the *)
(* keys are too: nothing compares them but for equality.                    *)
EXTENDS DataMng, TLC

Symmetry == Permutations(Threads) \cup Permutations(Keys) \cup Permutations(Values)
==========================================================================
