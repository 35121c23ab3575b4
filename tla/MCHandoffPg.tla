----------------------------- MODULE MCHandoffPg -----------------------------
(* Two transactions in flight on one conversation. *)
EXTENDS HandoffPg
=============================================================================
