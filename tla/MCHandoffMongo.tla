---------------------------- MODULE MCHandoffMongo ----------------------------
(* Two transactions in flight on one conversation. *)
EXTENDS HandoffMongo, TLC

CONSTANTS t1, t2

InAnyOrder == Permutations(Tx)
=============================================================================
