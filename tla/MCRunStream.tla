----------------------------- MODULE MCRunStream -----------------------------
(* Instances of RunStream for TLC: one worker, one request of two events. *)
EXTENDS RunStream

CONSTANTS e1, e2, k1

MCEventsOf == k1 :> <<e1, e2>>
=============================================================================
