---------------------------- MODULE RunLifecycle ----------------------------
(* A run of an assistant, from the accepted message to its terminal state,   *)
(* with everything the Engine commits beside it: the approvals that park it, *)
(* the durable quota reservation, the usage ledger and the outbox events.    *)
(* Every repository method is one transaction under the run's row lock       *)
(* (SELECT ... FOR UPDATE), so it is one action; the approval-expiry sweep   *)
(* is not, it claims overdue approvals in one transaction and expires each   *)
(* of them in a later one.  The clock is an action: a decision window may    *)
(* lapse at any moment.  Callers (Studio, operators, timers) may call any    *)
(* method at any moment; a refused call changes nothing and is no step.      *)
EXTENDS StateMachine, Naturals, FiniteSets

CONSTANTS Runs, Conversations, Approvals, Principals, Sweepers,
          ConversationOf,   \* the conversation a run belongs to
          KindOf,           \* runs.run_kind: only "standard" runs are billable
          RunOf,            \* the run an approval request is made for
          Author,           \* approvals.created_by, who may not decide
          Required,         \* approvals.required_approvals
          SweepLimit,       \* rows one sweep claims at most
          MaxRequeues,      \* bound: run.created events re-emitted per run
          MaxExtends,       \* bound: decision windows extended
          MaxFaults         \* bound: sweeps cut short by a crash or an error

ASSUME RunAssumption ==
  /\ IsFiniteSet(Approvals)
  /\ ConversationOf \in [Runs -> Conversations]
  /\ KindOf \in [Runs -> {"standard", "test", "eval"}]
  /\ RunOf \in [Approvals -> Runs]
  /\ Author \in [Approvals -> Principals]
  /\ Required \in [Approvals -> 1 .. 5]
  /\ {SweepLimit, MaxRequeues, MaxExtends, MaxFaults} \subseteq Nat

VARIABLES state,        \* runs.state, "none" before the row exists
          reason,       \* runs.terminal_reason
          reservation,  \* quota_reservations.state of the run's row
          ledger,       \* runs with a usage ledger entry
          emitted,      \* outbox rows of the run, counted by event type
          approval,     \* approvals.state, "none" before the row exists
          votes,        \* approvals.approvals_received: who approved so far
          overdue,      \* approvals whose expires_at is past
          claimed,      \* what a sweeper claimed and has not yet expired
          used          \* what of the bounds has been spent

rows == <<state, reason, reservation, ledger, emitted>>
queue == <<approval, votes, overdue>>
vars == <<rows, queue, claimed, used>>

Events == {"run.created", "run.dispatched", "run.resume_requested", "approval.requested",
           "run.completed", "run.failed", "run.canceled"}

TerminalEvent == [COMPLETED |-> "run.completed", FAILED |-> "run.failed",
                  CANCELED |-> "run.canceled"]

Live(r) == state[r] # "none" /\ state[r] \notin TerminalStates

ApprovalsOf(r) == {a \in Approvals : RunOf[a] = r}

Pending(r) == {a \in ApprovalsOf(r) : approval[a] = "PENDING"}

Init ==
  /\ state = [r \in Runs |-> "none"]
  /\ reason = [r \in Runs |-> "none"]
  /\ reservation = [r \in Runs |-> "none"]
  /\ ledger = {}
  /\ emitted = [r \in Runs |-> [e \in Events |-> 0]]
  /\ approval = [a \in Approvals |-> "none"]
  /\ votes = [a \in Approvals |-> {}]
  /\ overdue = {}
  /\ claimed = [s \in Sweepers |-> {}]
  /\ used = [extends |-> 0, faults |-> 0]

Emit(r, e) == emitted' = [emitted EXCEPT ![r][e] = @ + 1]

(* settleRunQuota: only a RESERVED row changes. *)
Settle(r, outcome) ==
  reservation' = IF reservation[r] = "RESERVED"
                 THEN [reservation EXCEPT ![r] = outcome] ELSE reservation

-----------------------------------------------------------------------------
(* The doors that create a run: a user message, a regeneration, an edit.     *)
(* uq_runs_one_active_per_conversation refuses a second active run.  A       *)
(* standard run reserves one request if its organization's plan has limits;  *)
(* the wall's refusals abort the transaction.                                *)
Accept(r) ==
  /\ state[r] = "none"
  /\ \A q \in Runs : ConversationOf[q] = ConversationOf[r] => ~Live(q)
  /\ state' = [state EXCEPT ![r] = "ACCEPTED"]
  /\ \/ KindOf[r] = "standard" /\ reservation' = [reservation EXCEPT ![r] = "RESERVED"]
     \/ UNCHANGED reservation
  /\ Emit(r, "run.created")
  /\ UNCHANGED <<reason, ledger, queue, claimed, used>>

(* accepted-run-sweep: a run still ACCEPTED is announced again. *)
RequeueAccepted(r) ==
  /\ state[r] = "ACCEPTED"
  /\ emitted[r]["run.created"] <= MaxRequeues
  /\ Emit(r, "run.created")
  /\ UNCHANGED <<state, reason, reservation, ledger, queue, claimed, used>>

(* Mutant: a redelivered run.created dispatches a run that moved on. *)
MarkDispatchedAgain(r) ==
  /\ state[r] # "none"
  /\ state' = [state EXCEPT ![r] = "DISPATCHED"]
  /\ Emit(r, "run.dispatched")
  /\ UNCHANGED <<reason, reservation, ledger, queue, claimed, used>>

(* run-dispatch, after Studio took the run: a run that moved on is left alone. *)
MarkDispatched(r) ==
  /\ state[r] = "ACCEPTED"
  /\ state' = [state EXCEPT ![r] = "DISPATCHED"]
  /\ Emit(r, "run.dispatched")
  /\ UNCHANGED <<reason, reservation, ledger, queue, claimed, used>>

-----------------------------------------------------------------------------
(* Approvals.  Only an executing run parks; a request made earlier, or by a  *)
(* run that waits already, adds a PENDING approval beside it.                *)
CreateApprovalRequest(a) ==
  LET r == RunOf[a] IN
  /\ approval[a] = "none"
  /\ Live(r)
  /\ approval' = [approval EXCEPT ![a] = "PENDING"]
  /\ state' = IF state[r] \in {"RUNNING", "DISPATCHED"}
              THEN [state EXCEPT ![r] = "WAITING_APPROVAL"] ELSE state
  /\ Emit(r, "approval.requested")
  /\ UNCHANGED <<reason, reservation, ledger, votes, overdue, claimed, used>>

(* decideApproval, up to the decision: the gates every decision passes. *)
MayDecide(p, a) ==
  /\ approval[a] = "PENDING"
  /\ p # Author[a]
  /\ p \notin votes[a]
  /\ a \notin overdue

Reaches(a) == Cardinality(votes[a]) + 1 >= Required[a]

(* A vote below the threshold is recorded whatever the run's state is. *)
Vote(p, a) ==
  /\ MayDecide(p, a)
  /\ ~Reaches(a)
  /\ votes' = [votes EXCEPT ![a] = @ \cup {p}]
  /\ UNCHANGED <<rows, approval, overdue, claimed, used>>

Approve(p, a) ==
  LET r == RunOf[a] IN
  /\ MayDecide(p, a)
  /\ Reaches(a)
  /\ CanMove(state[r], "RUNNING")
  /\ approval' = [approval EXCEPT ![a] = "APPROVED"]
  /\ votes' = IF Required[a] > 1 THEN [votes EXCEPT ![a] = @ \cup {p}] ELSE votes
  /\ state' = [state EXCEPT ![r] = "RUNNING"]
  /\ Emit(r, "run.resume_requested")
  /\ UNCHANGED <<reason, reservation, ledger, overdue, claimed, used>>

(* A denial ends the chain and the run; sibling approvals stay as they are. *)
Deny(p, a) ==
  LET r == RunOf[a] IN
  /\ MayDecide(p, a)
  /\ CanMove(state[r], "CANCELED")
  /\ approval' = [approval EXCEPT ![a] = "DENIED"]
  /\ state' = [state EXCEPT ![r] = "CANCELED"]
  /\ reason' = [reason EXCEPT ![r] = "approval_denied"]
  /\ IF KindOf[r] = "standard" THEN Settle(r, "RELEASED") ELSE UNCHANGED reservation
  /\ Emit(r, "run.canceled")
  /\ UNCHANGED <<ledger, votes, overdue, claimed, used>>

(* extendApproval: any PENDING approval, overdue or not, gets a new window. *)
ExtendApproval(a) ==
  /\ approval[a] = "PENDING"
  /\ used.extends < MaxExtends
  /\ used' = [used EXCEPT !.extends = @ + 1]
  /\ overdue' = overdue \ {a}
  /\ UNCHANGED <<rows, approval, votes, claimed>>

(* Time reaches expires_at. *)
Lapse(a) ==
  /\ approval[a] = "PENDING"
  /\ a \notin overdue
  /\ overdue' = overdue \cup {a}
  /\ UNCHANGED <<rows, approval, votes, claimed, used>>

-----------------------------------------------------------------------------
(* Terminal transitions.  The approvals of a run that completes or fails are *)
(* not touched.  A standard run that reports token usage is charged for it.  *)
CompleteRun(r) ==
  /\ CanMove(state[r], "COMPLETED")
  /\ state' = [state EXCEPT ![r] = "COMPLETED"]
  /\ Settle(r, "COMMITTED")
  /\ \/ KindOf[r] = "standard" /\ ledger' = ledger \cup {r}
     \/ UNCHANGED ledger
  /\ Emit(r, "run.completed")
  /\ UNCHANGED <<reason, queue, claimed, used>>

FailRun(r) ==
  /\ CanMove(state[r], "FAILED")
  /\ state' = [state EXCEPT ![r] = "FAILED"]
  /\ reason' = [reason EXCEPT ![r] = "error"]
  /\ IF KindOf[r] = "standard" THEN Settle(r, "RELEASED") ELSE UNCHANGED reservation
  /\ Emit(r, "run.failed")
  /\ UNCHANGED <<ledger, queue, claimed, used>>

(* The watchdog: only a run that executes can exceed its wall-clock budget. *)
FailRunForBudget(r) ==
  /\ state[r] \in {"RUNNING", "DISPATCHED"}
  /\ state' = [state EXCEPT ![r] = "FAILED"]
  /\ reason' = [reason EXCEPT ![r] = "budget_exceeded"]
  /\ Settle(r, "RELEASED")
  /\ Emit(r, "run.failed")
  /\ UNCHANGED <<ledger, queue, claimed, used>>

(* Mutant: the canceled run keeps its reservation. *)
CancelRunHoldingQuota(r) ==
  /\ CanMove(state[r], "CANCELED")
  /\ state' = [state EXCEPT ![r] = "CANCELED"]
  /\ reason' = [reason EXCEPT ![r] = "canceled_by_principal"]
  /\ approval' = [a \in Approvals |-> IF a \in Pending(r) THEN "EXPIRED" ELSE approval[a]]
  /\ Emit(r, "run.canceled")
  /\ UNCHANGED <<reservation, ledger, votes, overdue, claimed, used>>

(* cancelRun: the run's PENDING approvals expire in the same transaction. *)
CancelRun(r) ==
  /\ CanMove(state[r], "CANCELED")
  /\ state' = [state EXCEPT ![r] = "CANCELED"]
  /\ reason' = [reason EXCEPT ![r] = "canceled_by_principal"]
  /\ Settle(r, "RELEASED")
  /\ approval' = [a \in Approvals |-> IF a \in Pending(r) THEN "EXPIRED" ELSE approval[a]]
  /\ Emit(r, "run.canceled")
  /\ UNCHANGED <<ledger, votes, overdue, claimed, used>>

-----------------------------------------------------------------------------
(* Mutant: the sweep looks only at approvals of live runs. *)
SweepClaimLive(s) ==
  /\ claimed[s] = {}
  /\ \E batch \in SUBSET {a \in overdue : approval[a] = "PENDING" /\ Live(RunOf[a])} :
       /\ Cardinality(batch) \in 1 .. SweepLimit
       /\ claimed' = [claimed EXCEPT ![s] = batch]
  /\ UNCHANGED <<rows, queue, used>>

(* Mutant: the claim does not look at the window. *)
SweepClaimEarly(s) ==
  /\ claimed[s] = {}
  /\ \E batch \in SUBSET {a \in Approvals : approval[a] = "PENDING"} :
       /\ Cardinality(batch) \in 1 .. SweepLimit
       /\ claimed' = [claimed EXCEPT ![s] = batch]
  /\ UNCHANGED <<rows, queue, used>>

(* The approval-expiry sweep.  The claim's row locks end with its            *)
(* transaction; SKIP LOCKED may leave out any row another one holds.         *)
SweepClaim(s) ==
  /\ claimed[s] = {}
  /\ \E batch \in SUBSET {a \in overdue : approval[a] = "PENDING"} :
       /\ Cardinality(batch) \in 1 .. SweepLimit
       /\ claimed' = [claimed EXCEPT ![s] = batch]
  /\ UNCHANGED <<rows, queue, used>>

Unclaim(s, a) == claimed' = [claimed EXCEPT ![s] = @ \ {a}]

(* A decision landed between the claim and here. *)
SweepSkip(s, a) ==
  /\ a \in claimed[s]
  /\ approval[a] # "PENDING"
  /\ Unclaim(s, a)
  /\ UNCHANGED <<rows, queue, used>>

(* Mutant: the list takes a parked run for ended. *)
CancelableUnlessParked(r) ==
  state[r] \notin {"none", "COMPLETED", "FAILED", "CANCELED", "WAITING_APPROVAL"}

(* Whether the sweep cancels a run in this state: its own list of the        *)
(* terminal states, which has no EXPIRED.                                    *)
Cancelable(r) == state[r] \notin {"none", "COMPLETED", "FAILED", "CANCELED"}

(* Mutant: the approval is not read again after the claim. *)
SweepExpireUnread(s, a) ==
  LET r == RunOf[a] IN
  /\ a \in claimed[s]
  /\ approval' = [b \in Approvals |-> IF b = a \/ b \in Pending(r) THEN "EXPIRED" ELSE approval[b]]
  /\ IF Cancelable(r)
     THEN /\ state' = [state EXCEPT ![r] = "CANCELED"]
          /\ reason' = [reason EXCEPT ![r] = "approval_expired"]
          /\ Settle(r, "RELEASED")
          /\ Emit(r, "run.canceled")
     ELSE UNCHANGED <<state, reason, reservation, emitted>>
  /\ Unclaim(s, a)
  /\ UNCHANGED <<ledger, votes, overdue, used>>

(* A claimed approval that is still PENDING expires, the run with it unless  *)
(* it ended otherwise, and the run's other PENDING approvals too.  Only the  *)
(* approval's state is read again, not its window.                           *)
SweepExpire(s, a) ==
  LET r == RunOf[a] IN
  /\ a \in claimed[s]
  /\ approval[a] = "PENDING"
  /\ approval' = [b \in Approvals |-> IF b \in Pending(r) THEN "EXPIRED" ELSE approval[b]]
  /\ IF Cancelable(r)
     THEN /\ state' = [state EXCEPT ![r] = "CANCELED"]
          /\ reason' = [reason EXCEPT ![r] = "approval_expired"]
          /\ Settle(r, "RELEASED")
          /\ Emit(r, "run.canceled")
     ELSE UNCHANGED <<state, reason, reservation, emitted>>
  /\ Unclaim(s, a)
  /\ UNCHANGED <<ledger, votes, overdue, used>>

(* The host dies, or a transaction of the loop fails and ends it. *)
SweepAbort(s) ==
  /\ claimed[s] # {}
  /\ used.faults < MaxFaults
  /\ used' = [used EXCEPT !.faults = @ + 1]
  /\ claimed' = [claimed EXCEPT ![s] = {}]
  /\ UNCHANGED <<rows, queue>>

-----------------------------------------------------------------------------
Turn(r) == \/ Accept(r) \/ RequeueAccepted(r) \/ MarkDispatched(r) \/ CompleteRun(r)
           \/ FailRun(r) \/ FailRunForBudget(r) \/ CancelRun(r)

Decision(p, a) == Vote(p, a) \/ Approve(p, a) \/ Deny(p, a)

Window(a) == CreateApprovalRequest(a) \/ ExtendApproval(a) \/ Lapse(a)

Sweep(s) == SweepClaim(s) \/ \E a \in Approvals : SweepSkip(s, a) \/ SweepExpire(s, a)

Next ==
  \/ \E r \in Runs : Turn(r)
  \/ \E p \in Principals, a \in Approvals : Decision(p, a)
  \/ \E a \in Approvals : Window(a)
  \/ \E s \in Sweepers : Sweep(s) \/ SweepAbort(s)

Spec == Init /\ [][Next]_vars

(* Time passes and the sweep's timer fires; nothing is assumed of callers. *)
Fairness == /\ \A a \in Approvals : WF_vars(Lapse(a))
            /\ \A s \in Sweepers : WF_vars(Sweep(s))

FairSpec == Spec /\ Fairness

-----------------------------------------------------------------------------
(* The values every variable takes: the Engine never writes WAITING_INPUT or *)
(* EXPIRED as a run's state, though the state machine has them.              *)
TypeOK ==
  /\ state \in [Runs -> {"none", "ACCEPTED", "DISPATCHED", "RUNNING", "WAITING_APPROVAL",
                         "COMPLETED", "FAILED", "CANCELED"}]
  /\ reason \in [Runs -> {"none", "error", "budget_exceeded", "approval_denied",
                          "approval_expired", "canceled_by_principal"}]
  /\ reservation \in [Runs -> {"none", "RESERVED", "COMMITTED", "RELEASED"}]
  /\ ledger \subseteq Runs
  /\ emitted \in [Runs -> [Events -> Nat]]
  /\ approval \in [Approvals -> {"none", "PENDING", "APPROVED", "DENIED", "EXPIRED"}]
  /\ votes \in [Approvals -> SUBSET Principals]
  /\ overdue \subseteq Approvals
  /\ claimed \in [Sweepers -> SUBSET Approvals]
  /\ used \in [extends : 0 .. MaxExtends, faults : 0 .. MaxFaults]

(* One active turn per conversation, the promise of the partial unique index *)
(* of 0022_conversations.sql: no transition may bring an ended run back      *)
(* beside its successor.                                                     *)
OneActiveTurn ==
  \A q, r \in Runs : Live(q) /\ Live(r) /\ ConversationOf[q] = ConversationOf[r] => q = r

(* Whichever of the six ways a run ends by, its reservation is settled with  *)
(* it: held while the run lives, committed iff it completed, released iff it *)
(* failed or was canceled; and only a completed billable run is charged.     *)
SettledWithRun ==
  \A r \in Runs :
    /\ reservation[r] = "RESERVED" => Live(r)
    /\ reservation[r] = "COMMITTED" => state[r] = "COMPLETED"
    /\ reservation[r] = "RELEASED" => state[r] \in {"FAILED", "CANCELED"}
    /\ reservation[r] # "none" => KindOf[r] = "standard"
    /\ r \in ledger => state[r] = "COMPLETED" /\ KindOf[r] = "standard"

(* The outbox tells of a run's end exactly once, as it ended: the consumers  *)
(* that abort Studio, notify and bill never hear of two ends of one run, nor *)
(* of none, though two sweepers, an operator and Studio may all end it.      *)
AnnouncedOnce ==
  \A r \in Runs : \A end \in DOMAIN TerminalEvent :
    emitted[r][TerminalEvent[end]] = IF state[r] = end THEN 1 ELSE 0

(* A parked run can be woken: some approval of it is still PENDING, so that  *)
(* a decision or the sweep will move it.  No decision, expiry or replayed    *)
(* request may consume the last one and leave the run waiting.               *)
ParkedCanWake == \A r \in Runs : state[r] = "WAITING_APPROVAL" => Pending(r) # {}

(* A run that was canceled by a principal or by the sweep leaves no PENDING  *)
(* approval behind, and no later request adds one.                           *)
CancelClearsQueue ==
  \A r \in Runs :
    reason[r] \in {"canceled_by_principal", "approval_expired"} => Pending(r) = {}

(* Studio is asked to resume once per granted approval, never for a vote     *)
(* below the threshold or for a decision the run's state refused.            *)
ResumedPerApproval ==
  \A r \in Runs :
    emitted[r]["run.resume_requested"] =
      Cardinality({a \in ApprovalsOf(r) : approval[a] = "APPROVED"})

(* An approval that needs several approvers is APPROVED only with that many  *)
(* distinct votes, none of them its author's.                                *)
ApprovedByQuorum ==
  \A a \in Approvals :
    /\ Author[a] \notin votes[a]
    /\ approval[a] = "APPROVED" /\ Required[a] > 1 => Cardinality(votes[a]) = Required[a]

(* A run that ended keeps its state and its reason: a late commit, failure,  *)
(* cancel, decision or sweep is refused or skips it.                         *)
TerminalIsFinal ==
  [][\A r \in Runs : state[r] \in TerminalStates =>
       state'[r] = state[r] /\ reason'[r] = reason[r]]_vars

(* Decisions are final: what was approved, denied or expired stays so.       *)
DecisionIsFinal ==
  [][\A a \in Approvals : approval[a] \notin {"none", "PENDING"} =>
       approval'[a] = approval[a]]_vars

(* A run does not stay parked for ever: a decision moves it, or its window   *)
(* lapses and the sweep cancels it.                                          *)
ParkedRunsMoveOn ==
  \A r \in Runs : state[r] = "WAITING_APPROVAL" ~> state[r] # "WAITING_APPROVAL"

(* Every approval leaves the queue, those of a run that ended included.      *)
QueueDrains == \A a \in Approvals : approval[a] = "PENDING" ~> approval[a] # "PENDING"

-----------------------------------------------------------------------------
(* The inductive invariant of the proofs.  A reason is only given to a run   *)
(* that ended (or else a canceled run might be accepted or parked), and an   *)
(* undecided approval is short of its threshold (or else the deciding vote   *)
(* might be one too many).                                                   *)
ReasonOfEnd == \A r \in Runs : reason[r] # "none" => state[r] \in {"FAILED", "CANCELED"}

VotesShort ==
  \A a \in Approvals :
    /\ IsFiniteSet(votes[a])
    /\ approval[a] \in {"none", "PENDING"} => Cardinality(votes[a]) < Required[a]

(* As long as no window was extended, what a sweeper claimed is overdue.     *)
ClaimsLapsed ==
  used.extends = 0 => \A s \in Sweepers : claimed[s] \subseteq overdue

RunInv == OneActiveTurn /\ SettledWithRun /\ AnnouncedOnce /\ ReasonOfEnd

QueueInv == ParkedCanWake /\ CancelClearsQueue

VoteInv == ResumedPerApproval /\ ApprovedByQuorum /\ VotesShort

(* The bookkeeping of a turn holds together at every commit, whichever of    *)
(* the six transactions ends the run: one live run of a conversation, its    *)
(* reservation settled and its end announced once as it ended, no parked run *)
(* without a PENDING approval, none left of a canceled run, one resume per   *)
(* grant (pg-run.repository.ts:1021-1115, pg-approval.repository.ts:246-433). *)
IInv == TypeOK /\ RunInv /\ QueueInv /\ VoteInv

-----------------------------------------------------------------------------
(* What of a run its clients and the billing plane can tell: see RunTurn.    *)
TurnOf(r) == CASE state[r] = "none" -> "none"
               [] Live(r) -> "open"
               [] OTHER -> state[r]

QuotaOf(r) == CASE reservation[r] = "RESERVED" -> "held"
                [] reservation[r] = "COMMITTED" -> "spent"
                [] reservation[r] = "RELEASED" -> "returned"
                [] OTHER -> "none"

Ended(r) == emitted[r]["run.completed"] + emitted[r]["run.failed"] + emitted[r]["run.canceled"]

Promise == INSTANCE RunTurn WITH
  Billable <- [r \in Runs |-> KindOf[r] = "standard"],
  turn <- [r \in Runs |-> TurnOf(r)],
  quota <- [r \in Runs |-> QuotaOf(r)],
  told <- [r \in Runs |-> Ended(r)],
  charged <- ledger

(* A run is canceled as 'approval_expired' only when an approval of it is    *)
(* overdue, although the sweep reads expires_at in its first transaction and *)
(* expires in its second, as long as no window was extended: the second      *)
(* transaction does not read expires_at again                                *)
(* (pg-approval.repository.ts:482, :500).                                    *)
ExpiryMeansOverdue ==
  [][\A r \in Runs : (/\ used.extends = 0
                      /\ reason[r] # "approval_expired"
                      /\ reason'[r] = "approval_expired")
       => Pending(r) \cap overdue # {}]_vars

(* The transactions of the run, approval and sweep repositories together     *)
(* keep what RunTurn promises: every step of theirs opens a turn, ends one   *)
(* with its settlement and its announcement, or is invisible.                *)
KeepsPromise == Promise!Spec

-----------------------------------------------------------------------------
(* Statements of the code's comments that the code does not keep.            *)

(* "a row claimed by one is skipped by the other" (of concurrent sweepers). *)
ClaimsAreExclusive ==
  \A s, t \in Sweepers : s # t => claimed[s] \cap claimed[t] = {}

(* "the queue never shows decidable work for a dead run". *)
NoDecidableWorkForDeadRun ==
  \A r \in Runs : state[r] \in TerminalStates => Pending(r) \subseteq overdue
=============================================================================
