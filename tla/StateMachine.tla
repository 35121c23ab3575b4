---------------------------- MODULE StateMachine ----------------------------
(* The run state machine of modules/conversations/state-machine.ts.  Every   *)
(* repository that changes runs.state asks it (assertRunTransition), except  *)
(* the approval-expiry sweep, which tests a list of states of its own.       *)

RunStates == {"ACCEPTED", "DISPATCHED", "RUNNING", "WAITING_APPROVAL", "WAITING_INPUT",
              "COMPLETED", "FAILED", "CANCELED", "EXPIRED"}

TerminalStates == {"COMPLETED", "FAILED", "CANCELED", "EXPIRED"}

AllowedTransitions ==
  [ACCEPTED         |-> {"DISPATCHED", "RUNNING", "COMPLETED", "FAILED", "CANCELED", "EXPIRED"},
   DISPATCHED       |-> {"RUNNING", "WAITING_APPROVAL", "WAITING_INPUT", "COMPLETED", "FAILED",
                         "CANCELED", "EXPIRED"},
   RUNNING          |-> {"WAITING_APPROVAL", "WAITING_INPUT", "COMPLETED", "FAILED", "CANCELED"},
   WAITING_APPROVAL |-> {"RUNNING", "CANCELED", "EXPIRED"},
   WAITING_INPUT    |-> {"RUNNING", "CANCELED", "EXPIRED"},
   COMPLETED        |-> {},
   FAILED           |-> {},
   CANCELED         |-> {},
   EXPIRED          |-> {}]

(* assertRunTransition passes: the row exists and the table has the edge. *)
CanMove(from, to) == from \in RunStates /\ to \in AllowedTransitions[from]
=============================================================================
