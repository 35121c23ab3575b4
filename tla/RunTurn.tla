------------------------------ MODULE RunTurn ------------------------------
(* What a conversation turn promises its clients and the billing plane,      *)
(* whatever path it takes: one turn of a conversation is open at a time, an  *)
(* open turn ends once, and in that one step its quota is settled, its end   *)
(* is announced and, if it succeeded, it may be charged.  An open turn only  *)
(* goes on; nothing of it changes after its end.                             *)
EXTENDS Naturals

CONSTANTS Runs, ConversationOf, Billable

VARIABLES turn,    \* "none", "open", or how it ended
          quota,   \* "none", "held", "spent" or "returned"
          told,    \* how many times its end was announced
          charged  \* the turns charged for

vars == <<turn, quota, told, charged>>

Ends == {"COMPLETED", "FAILED", "CANCELED"}

Init ==
  /\ turn = [r \in Runs |-> "none"]
  /\ quota = [r \in Runs |-> "none"]
  /\ told = [r \in Runs |-> 0]
  /\ charged = {}

Open(r) ==
  /\ turn[r] = "none"
  /\ \A q \in Runs : ConversationOf[q] = ConversationOf[r] => turn[q] # "open"
  /\ turn' = [turn EXCEPT ![r] = "open"]
  /\ \/ Billable[r] /\ quota' = [quota EXCEPT ![r] = "held"]
     \/ UNCHANGED quota
  /\ UNCHANGED <<told, charged>>

End(r, how) ==
  /\ turn[r] = "open"
  /\ turn' = [turn EXCEPT ![r] = how]
  /\ quota' = [quota EXCEPT ![r] = IF @ = "none" THEN "none"
                                   ELSE IF how = "COMPLETED" THEN "spent" ELSE "returned"]
  /\ told' = [told EXCEPT ![r] = @ + 1]
  /\ \/ how = "COMPLETED" /\ Billable[r] /\ charged' = charged \cup {r}
     \/ UNCHANGED charged

Next == \E r \in Runs : Open(r) \/ \E how \in Ends : End(r, how)

Spec == Init /\ [][Next]_vars
=============================================================================
