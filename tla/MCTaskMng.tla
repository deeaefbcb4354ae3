---------------------------- MODULE MCTaskMng ----------------------------
(* Instances of TaskMng for TLC. *)
EXTENDS TaskMng, TLC

Symmetry == Permutations(Apps) \cup Permutations(Tids) \cup Permutations(TaskIds)
==========================================================================
