---------------------------- MODULE MCMsgQueue ----------------------------
(* Instances of MsgQueue for TLC; its liveness property forbids symmetry. *)
EXTENDS MsgQueue
===========================================================================
