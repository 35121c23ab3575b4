----------------------------- MODULE MCAdmission -----------------------------
(* Up to three conversations, two requests in flight, one idempotency key. *)
EXTENDS Admission, TLC

CONSTANTS r1, r2, r3, t1, t2, c1, c2, c3

InAnyOrder == Permutations({r1, r2, r3}) \cup Permutations({t1, t2}) \cup Permutations({c1, c2, c3})
=============================================================================
