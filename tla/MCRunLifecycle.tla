--------------------------- MODULE MCRunLifecycle ---------------------------
(* Two turns of one conversation, the first billable and the second a test   *)
(* run; two approvals of the first turn (the second needs two approvers) and *)
(* one of the second; three principals, one of whom is the author.           *)
EXTENDS RunLifecycle, TLC

CONSTANTS r1, r2, k1, a1, a2, a3, alice, bob, carol, s1, s2

MCConversationOf == (r1 :> k1) @@ (r2 :> k1)
MCKindOf == (r1 :> "standard") @@ (r2 :> "test")
MCRunOf == [a \in Approvals |-> IF a = a3 THEN r2 ELSE r1]
MCAuthor == [a \in Approvals |-> carol]
MCRequired == [a \in Approvals |-> IF a = a2 THEN 2 ELSE 1]
=============================================================================
