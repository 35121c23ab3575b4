------------------------------ MODULE MCRunLog ------------------------------
(* Instances of RunLog for TLC: one request and a part of it. *)
EXTENDS RunLog, TLC

CONSTANTS e1, e2, k1, k2

Symmetry == Permutations(Workers)

OverlappingBatches == k1 :> <<e1, e2>> @@ k2 :> <<e2>>
=============================================================================
