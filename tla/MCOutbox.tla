------------------------------ MODULE MCOutbox ------------------------------
(***************************************************************************)
(* Instances of Outbox for TLC.                                            *)
(***************************************************************************)
EXTENDS Outbox

CONSTANTS w1, w2, c1, c2

\* Event 1 fans out to two consumers; every later event has one.
MCSubscribed == [e \in Events |-> IF e = 1 THEN <<c1, c2>> ELSE <<c1>>]
=============================================================================
