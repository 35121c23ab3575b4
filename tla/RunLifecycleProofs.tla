------------------------- MODULE RunLifecycleProofs -------------------------
(* What holds of a run for every set of runs, approvals, principals and      *)
(* sweepers and for every bound.  The invariant is proved in three parts, as *)
(* RunLifecycle states it: the run and what is committed beside it (RunInv), *)
(* the run and its queue of approvals (QueueInv), the votes (VoteInv).       *)
EXTENDS RunLifecycle, TLAPS, FiniteSetTheorems

Ends == {"COMPLETED", "FAILED", "CANCELED"}

LiveStates == {"ACCEPTED", "DISPATCHED", "RUNNING", "WAITING_APPROVAL"}

(* A typed run is live in exactly the four states the Engine writes.         *)
LEMMA LiveMeans ==
  ASSUME TypeOK, NEW r \in Runs
  PROVE  /\ Live(r) <=> state[r] \in LiveStates
         /\ state[r] \in {"none"} \cup LiveStates \cup Ends
BY DEF TypeOK, Live, LiveStates, Ends, TerminalStates

(* Emitting an event counts one more of that run's and kind's, and nothing   *)
(* else.                                                                     *)
LEMMA Emitted ==
  ASSUME emitted \in [Runs -> [Events -> Nat]], NEW r \in Runs, NEW e \in Events, Emit(r, e)
  PROVE  /\ emitted' \in [Runs -> [Events -> Nat]]
         /\ \A q \in Runs, f \in Events :
              emitted'[q][f] = IF q = r /\ f = e THEN emitted[q][f] + 1 ELSE emitted[q][f]
BY DEF Emit

(* Settling changes the run's own reservation, and only if it is RESERVED.   *)
LEMMA Settled ==
  ASSUME reservation \in [Runs -> {"none", "RESERVED", "COMMITTED", "RELEASED"}],
         NEW r \in Runs, NEW o \in {"COMMITTED", "RELEASED"}, Settle(r, o)
  PROVE  /\ reservation' \in [Runs -> {"none", "RESERVED", "COMMITTED", "RELEASED"}]
         /\ \A q \in Runs :
              reservation'[q] = IF q = r /\ reservation[q] = "RESERVED" THEN o
                                ELSE reservation[q]
BY DEF Settle

(* The state machine lets only live runs complete, fail, resume or be        *)
(* canceled.                                                                 *)
LEMMA OnlyLiveRunsMove ==
  ASSUME TypeOK, NEW r \in Runs, NEW t \in Ends \cup {"RUNNING"}, CanMove(state[r], t)
  PROVE  Live(r)
BY DEF TypeOK, Live, CanMove, RunStates, AllowedTransitions, TerminalStates, Ends

-----------------------------------------------------------------------------
(* The initial state satisfies the invariant.                                *)
LEMMA InitIInv ==
  ASSUME RunAssumption, Init
  PROVE  IInv
<1> USE DEF Init
<1>1. TypeOK
  <2>1. used \in [extends : 0 .. MaxExtends, faults : 0 .. MaxFaults]
    BY DEF RunAssumption
  <2> QED
    BY <2>1 DEF TypeOK, Events
<1>2. RunInv
  BY DEF RunInv, OneActiveTurn, SettledWithRun, AnnouncedOnce, ReasonOfEnd, Live,
         TerminalEvent, Events, TerminalStates
<1>3. QueueInv
  BY DEF QueueInv, ParkedCanWake, CancelClearsQueue
<1>4. VoteInv
  <2>1. ResumedPerApproval
    <3> SUFFICES ASSUME NEW r \in Runs
                 PROVE  emitted[r]["run.resume_requested"] =
                          Cardinality({a \in ApprovalsOf(r) : approval[a] = "APPROVED"})
      BY DEF ResumedPerApproval
    <3>1. {a \in ApprovalsOf(r) : approval[a] = "APPROVED"} = {}
      BY DEF ApprovalsOf
    <3> QED
      BY <3>1, FS_EmptySet DEF Events
  <2>2. ApprovedByQuorum
    BY DEF ApprovedByQuorum
  <2>3. VotesShort
    <3>1. IsFiniteSet({}) /\ Cardinality({}) = 0
      BY FS_EmptySet
    <3>2. \A a \in Approvals : 0 < Required[a]
      <4> HIDE DEF Init
      <4> SUFFICES ASSUME NEW a \in Approvals PROVE 0 < Required[a]
        OBVIOUS
      <4>1. Required[a] \in 1 .. 5
        BY DEF RunAssumption
      <4> QED
        BY <4>1
    <3>3. \A a \in Approvals : votes[a] = {}
      OBVIOUS
    <3> QED
      BY <3>1, <3>2, <3>3 DEF VotesShort
  <2> QED
    BY <2>1, <2>2, <2>3 DEF VoteInv
<1> QED
  BY <1>1, <1>2, <1>3, <1>4 DEF IInv

-----------------------------------------------------------------------------
(* The run and what is committed beside it.                                  *)

(* A live run goes on to a live state and announces it. *)
GoesOn(r) ==
  /\ Live(r)
  /\ \E t \in LiveStates : state' = [state EXCEPT ![r] = t]
  /\ \E e \in Events \ {"run.completed", "run.failed", "run.canceled"} : Emit(r, e)
  /\ UNCHANGED <<reason, reservation, ledger>>

(* A live run ends: its reservation is settled, its end is announced, and    *)
(* only a completed billable run enters the ledger.                          *)
EndsAs(r, how) ==
  /\ Live(r)
  /\ state' = [state EXCEPT ![r] = how]
  /\ Emit(r, TerminalEvent[how])
  /\ \/ Settle(r, IF how = "COMPLETED" THEN "COMMITTED" ELSE "RELEASED")
     \/ KindOf[r] # "standard" /\ UNCHANGED reservation
  /\ \/ UNCHANGED ledger
     \/ how = "COMPLETED" /\ KindOf[r] = "standard" /\ ledger' = ledger \cup {r}
  /\ \/ UNCHANGED reason
     \/ how # "COMPLETED" /\ \E w : reason' = [reason EXCEPT ![r] = w]

(* A step that leaves the run's rows alone.                                  *)
LEMMA RunStays ==
  ASSUME RunInv, UNCHANGED rows
  PROVE  RunInv'
BY DEF RunInv, rows, OneActiveTurn, SettledWithRun, AnnouncedOnce, ReasonOfEnd, Live

(* Going on preserves the run's part of the invariant.                       *)
LEMMA RunGoesOn ==
  ASSUME TypeOK, RunInv, NEW r \in Runs, GoesOn(r)
  PROVE  RunInv'
<1>a. PICK t \in LiveStates : state' = [state EXCEPT ![r] = t]
  BY DEF GoesOn
<1>b. PICK e \in Events \ {"run.completed", "run.failed", "run.canceled"} : Emit(r, e)
  BY DEF GoesOn
<1>c. Live(r) /\ UNCHANGED <<reason, reservation, ledger>>
  BY DEF GoesOn
<1>1. \A q \in Runs, f \in Events :
        emitted'[q][f] = IF q = r /\ f = e THEN emitted[q][f] + 1 ELSE emitted[q][f]
  BY <1>b, Emitted DEF TypeOK
<1>2. \A q \in Runs : state'[q] = IF q = r THEN t ELSE state[q]
  BY <1>a DEF TypeOK
<1>3. \A q \in Runs : Live(q)' <=> Live(q)
  BY <1>2, <1>c DEF Live, LiveStates, TerminalStates
<1>4. OneActiveTurn'
  BY <1>3, <1>c DEF RunInv, OneActiveTurn
<1>5. SettledWithRun'
  BY <1>2, <1>3, <1>c DEF RunInv, SettledWithRun, Live, TerminalStates, LiveStates
<1>6. AnnouncedOnce'
  BY <1>1, <1>2, <1>c DEF RunInv, AnnouncedOnce, TerminalEvent, Events, Live, TerminalStates,
                    LiveStates
<1>7. ReasonOfEnd'
  BY <1>2, <1>c DEF RunInv, ReasonOfEnd, Live, TerminalStates, LiveStates
<1> QED
  BY <1>4, <1>5, <1>6, <1>7 DEF RunInv

(* Ending preserves the run's part of the invariant.                         *)
LEMMA RunEnds ==
  ASSUME TypeOK, RunInv, NEW r \in Runs, NEW how \in Ends, EndsAs(r, how)
  PROVE  RunInv'
<1> USE DEF EndsAs
<1>1. \A q \in Runs, f \in Events :
        emitted'[q][f] = IF q = r /\ f = TerminalEvent[how]
                         THEN emitted[q][f] + 1 ELSE emitted[q][f]
  <2>1. TerminalEvent[how] \in Events
    BY DEF TerminalEvent, Events, Ends
  <2> QED
    BY <2>1, Emitted DEF TypeOK
<1>2. \A q \in Runs : state'[q] = IF q = r THEN how ELSE state[q]
  BY DEF TypeOK
<1>3. \A q \in Runs : Live(q)' <=> Live(q) /\ q # r
  BY <1>2 DEF Live, TerminalStates, Ends
<1>4. \A q \in Runs :
        reservation'[q] = IF q = r /\ reservation[q] = "RESERVED"
                          THEN IF how = "COMPLETED" THEN "COMMITTED" ELSE "RELEASED"
                          ELSE reservation[q]
  <2>1. CASE Settle(r, IF how = "COMPLETED" THEN "COMMITTED" ELSE "RELEASED")
    BY <2>1 DEF TypeOK, Settle
  <2>2. CASE KindOf[r] # "standard" /\ UNCHANGED reservation
    BY <2>2 DEF RunInv, SettledWithRun
  <2> QED
    BY <2>1, <2>2
<1>5. OneActiveTurn'
  BY <1>3 DEF RunInv, OneActiveTurn
<1>6. SettledWithRun'
  BY <1>2, <1>3, <1>4 DEF RunInv, SettledWithRun, TypeOK, Live, TerminalStates, Ends
<1>7. AnnouncedOnce'
  BY <1>1, <1>2 DEF RunInv, AnnouncedOnce, TerminalEvent, Events, Live, TerminalStates, Ends
<1>8. ReasonOfEnd'
  <2>1. \A q \in Runs : q # r => reason'[q] = reason[q]
    BY DEF TypeOK
  <2>2. how = "COMPLETED" => reason'[r] = "none"
    BY DEF RunInv, ReasonOfEnd, Live, TerminalStates
  <2> QED
    BY <1>2, <2>1, <2>2 DEF RunInv, ReasonOfEnd, Ends
<1> QED
  BY <1>5, <1>6, <1>7, <1>8 DEF RunInv

(* A new run takes the free turn of its conversation.                        *)
LEMMA RunAccepted ==
  ASSUME TypeOK, RunInv, NEW r \in Runs, Accept(r)
  PROVE  RunInv'
<1> USE DEF Accept
<1>1. \A q \in Runs, f \in Events :
        emitted'[q][f] = IF q = r /\ f = "run.created" THEN emitted[q][f] + 1
                         ELSE emitted[q][f]
  BY Emitted DEF TypeOK, Events
<1>2. \A q \in Runs : state'[q] = IF q = r THEN "ACCEPTED" ELSE state[q]
  BY DEF TypeOK
<1>3. \A q \in Runs : Live(q)' <=> Live(q) \/ q = r
  BY <1>2 DEF Live, TerminalStates
<1>4. OneActiveTurn'
  BY <1>3 DEF RunInv, OneActiveTurn
<1>5. \A q \in Runs : q # r => reservation'[q] = reservation[q]
  BY DEF TypeOK
<1>6. \/ reservation'[r] = "none"
      \/ KindOf[r] = "standard" /\ reservation'[r] = "RESERVED"
  <2>1. reservation[r] = "none"
    BY DEF TypeOK, RunInv, SettledWithRun, Live
  <2>2. CASE UNCHANGED reservation
    BY <2>1, <2>2
  <2>3. CASE KindOf[r] = "standard" /\ reservation' = [reservation EXCEPT ![r] = "RESERVED"]
    <3>1. reservation'[r] = "RESERVED"
      BY <2>3 DEF TypeOK
    <3> QED
      BY <2>3, <3>1
  <2> QED
    BY <2>2, <2>3
<1>7. SettledWithRun'
  BY <1>2, <1>3, <1>5, <1>6 DEF RunInv, SettledWithRun
<1>8. AnnouncedOnce'
  BY <1>1, <1>2 DEF RunInv, AnnouncedOnce, TerminalEvent, Events
<1>9. ReasonOfEnd'
  BY <1>2 DEF RunInv, ReasonOfEnd
<1> QED
  BY <1>4, <1>7, <1>8, <1>9 DEF RunInv

(* What a step can do to the runs: leave them alone, accept one, let one go  *)
(* on, or end one.                                                           *)
RunStep ==
  \/ UNCHANGED rows
  \/ \E r \in Runs : Accept(r) \/ GoesOn(r) \/ \E how \in Ends : EndsAs(r, how)

(* Every action does one of these.                                           *)
LEMMA StepKinds ==
  ASSUME RunAssumption, TypeOK, [Next]_vars
  PROVE  RunStep
<1>1. ASSUME NEW r \in Runs, Accept(r)
      PROVE  RunStep
  BY <1>1 DEF RunStep
<1>2. ASSUME NEW r \in Runs, RequeueAccepted(r)
      PROVE  RunStep
  <2>1. Live(r) /\ state' = [state EXCEPT ![r] = "ACCEPTED"]
    BY <1>2 DEF RequeueAccepted, TypeOK, Live, TerminalStates
  <2> QED
    BY <1>2, <2>1 DEF RunStep, GoesOn, RequeueAccepted, LiveStates, Events
<1>3. ASSUME NEW r \in Runs, MarkDispatched(r)
      PROVE  RunStep
  <2>1. Live(r)
    BY <1>3 DEF MarkDispatched, Live, TerminalStates
  <2> QED
    BY <1>3, <2>1 DEF RunStep, GoesOn, MarkDispatched, LiveStates, Events
<1>4. ASSUME NEW r \in Runs, CompleteRun(r)
      PROVE  RunStep
  <2>1. Live(r)
    BY <1>4, OnlyLiveRunsMove DEF CompleteRun, Ends
  <2> QED
    BY <1>4, <2>1 DEF RunStep, EndsAs, CompleteRun, Ends, TerminalEvent
<1>5. ASSUME NEW r \in Runs, FailRun(r)
      PROVE  RunStep
  <2>1. Live(r)
    BY <1>5, OnlyLiveRunsMove DEF FailRun, Ends
  <2> QED
    BY <1>5, <2>1 DEF RunStep, EndsAs, FailRun, Ends, TerminalEvent
<1>6. ASSUME NEW r \in Runs, FailRunForBudget(r)
      PROVE  RunStep
  <2>1. Live(r)
    BY <1>6 DEF FailRunForBudget, Live, TerminalStates
  <2> QED
    BY <1>6, <2>1 DEF RunStep, EndsAs, FailRunForBudget, Ends, TerminalEvent
<1>7. ASSUME NEW r \in Runs, CancelRun(r)
      PROVE  RunStep
  <2>1. Live(r)
    BY <1>7, OnlyLiveRunsMove DEF CancelRun, Ends
  <2> QED
    BY <1>7, <2>1 DEF RunStep, EndsAs, CancelRun, Ends, TerminalEvent
<1>8. ASSUME NEW p \in Principals, NEW a \in Approvals, Decision(p, a)
      PROVE  RunStep
  <2>1. RunOf[a] \in Runs
    BY DEF RunAssumption
  <2>2. CASE Vote(p, a)
    BY <2>2 DEF RunStep, Vote
  <2>3. CASE Approve(p, a)
    <3>1. Live(RunOf[a])
      BY <2>1, <2>3, OnlyLiveRunsMove DEF Approve
    <3> QED
      BY <2>1, <2>3, <3>1 DEF RunStep, GoesOn, Approve, LiveStates, Events
  <2>4. CASE Deny(p, a)
    <3>1. Live(RunOf[a])
      BY <2>1, <2>4, OnlyLiveRunsMove DEF Deny, Ends
    <3> QED
      BY <2>1, <2>4, <3>1 DEF RunStep, EndsAs, Deny, Ends, TerminalEvent
  <2> QED
    BY <1>8, <2>2, <2>3, <2>4 DEF Decision
<1>9. ASSUME NEW a \in Approvals, Window(a)
      PROVE  RunStep
  <2>1. CASE CreateApprovalRequest(a)
    <3>1. RunOf[a] \in Runs
      BY DEF RunAssumption
    <3>2. PICK t \in LiveStates : state' = [state EXCEPT ![RunOf[a]] = t]
      <4>1. CASE state[RunOf[a]] \in {"RUNNING", "DISPATCHED"}
        BY <2>1, <4>1 DEF CreateApprovalRequest, LiveStates
      <4>2. CASE state[RunOf[a]] \notin {"RUNNING", "DISPATCHED"}
        <5>1. state[RunOf[a]] \in LiveStates
          BY <2>1, <3>1, LiveMeans DEF CreateApprovalRequest
        <5> QED
          BY <2>1, <3>1, <4>2, <5>1 DEF CreateApprovalRequest, TypeOK
      <4> QED
        BY <4>1, <4>2
    <3> QED
      BY <2>1, <3>1, <3>2 DEF RunStep, GoesOn, CreateApprovalRequest, Events
  <2>2. CASE ExtendApproval(a) \/ Lapse(a)
    BY <2>2 DEF RunStep, ExtendApproval, Lapse
  <2> QED
    BY <1>9, <2>1, <2>2 DEF Window
<1>10. ASSUME NEW s \in Sweepers, NEW a \in Approvals, SweepExpire(s, a)
       PROVE  RunStep
  <2>1. RunOf[a] \in Runs
    BY DEF RunAssumption
  <2>2. CASE Cancelable(RunOf[a])
    <3>1. Live(RunOf[a])
      BY <2>1, <2>2 DEF Cancelable, Live, TerminalStates, TypeOK
    <3> QED
      BY <1>10, <2>1, <2>2, <3>1 DEF RunStep, EndsAs, SweepExpire, Ends, TerminalEvent
  <2>3. CASE ~Cancelable(RunOf[a])
    BY <1>10, <2>3 DEF RunStep, SweepExpire, rows
  <2> QED
    BY <2>2, <2>3
<1>11. ASSUME NEW s \in Sweepers, Sweep(s) \/ SweepAbort(s)
       PROVE  RunStep
  BY <1>10, <1>11 DEF RunStep, Sweep, SweepClaim, SweepSkip, SweepAbort
<1>12. CASE UNCHANGED vars
  BY <1>12 DEF RunStep, vars
<1> QED
  BY <1>1, <1>2, <1>3, <1>4, <1>5, <1>6, <1>7, <1>8, <1>9, <1>11, <1>12 DEF Next, Turn

(* Every action preserves the run's part of the invariant.                   *)
LEMMA RunInvStep ==
  ASSUME RunAssumption, TypeOK, RunInv, [Next]_vars
  PROVE  RunInv'
BY StepKinds, RunStays, RunAccepted, RunGoesOn, RunEnds DEF RunStep

-----------------------------------------------------------------------------
(* Every action keeps the variables in their types.                          *)
LEMMA TypeStep ==
  ASSUME RunAssumption, TypeOK, [Next]_vars
  PROVE  TypeOK'
<1> DEFINE Reservations == {"none", "RESERVED", "COMMITTED", "RELEASED"}
<1>a. \A a \in Approvals : RunOf[a] \in Runs
  BY DEF RunAssumption
<1>b. ASSUME NEW r \in Runs, NEW o \in {"COMMITTED", "RELEASED"}, Settle(r, o)
      PROVE  reservation' \in [Runs -> Reservations]
  BY <1>b DEF Settle, TypeOK
<1>c. ASSUME NEW r \in Runs, NEW e \in Events, Emit(r, e)
      PROVE  emitted' \in [Runs -> [Events -> Nat]]
  BY <1>c, Emitted DEF TypeOK
<1>1. ASSUME NEW r \in Runs, Turn(r)
      PROVE  TypeOK'
  <2>1. emitted' \in [Runs -> [Events -> Nat]]
    BY <1>1, <1>c DEF Turn, Accept, RequeueAccepted, MarkDispatched, CompleteRun, FailRun,
                      FailRunForBudget, CancelRun, Events
  <2>2. reservation' \in [Runs -> Reservations]
    BY <1>1, <1>b DEF Turn, Accept, RequeueAccepted, MarkDispatched, CompleteRun, FailRun,
                      FailRunForBudget, CancelRun, TypeOK
  <2>3. UNCHANGED <<votes, overdue, claimed, used>>
    BY <1>1 DEF Turn, Accept, RequeueAccepted, MarkDispatched, CompleteRun, FailRun,
                FailRunForBudget, CancelRun, queue
  <2>4. CASE CancelRun(r)
    BY <2>1, <2>2, <2>3, <2>4 DEF TypeOK, CancelRun
  <2>5. CASE Accept(r)
    BY <2>1, <2>2, <2>3, <2>5 DEF TypeOK, Accept, queue
  <2>6. CASE RequeueAccepted(r) \/ MarkDispatched(r)
    BY <2>1, <2>2, <2>3, <2>6 DEF TypeOK, RequeueAccepted, MarkDispatched, queue
  <2>7. CASE CompleteRun(r)
    BY <2>1, <2>2, <2>3, <2>7 DEF TypeOK, CompleteRun, queue
  <2>8. CASE FailRun(r) \/ FailRunForBudget(r)
    BY <2>1, <2>2, <2>3, <2>8, ZenonT(40) DEF TypeOK, FailRun, FailRunForBudget, queue
  <2> QED
    BY <1>1, <2>4, <2>5, <2>6, <2>7, <2>8 DEF Turn
<1>2. ASSUME NEW p \in Principals, NEW a \in Approvals, Decision(p, a)
      PROVE  TypeOK'
  <2>1. CASE Vote(p, a)
    BY <2>1 DEF TypeOK, Vote, rows
  <2>2. CASE Approve(p, a)
    <3>1. emitted' \in [Runs -> [Events -> Nat]]
      BY <2>2, <1>a, <1>c DEF Approve, Events
    <3>2. votes' \in [Approvals -> SUBSET Principals]
      BY <2>2 DEF Approve, TypeOK
    <3>3. state' \in [Runs -> {"none"} \cup LiveStates \cup Ends]
      BY <2>2, <1>a DEF Approve, TypeOK, LiveStates, Ends
    <3>4. approval' \in [Approvals -> {"none", "PENDING", "APPROVED", "DENIED", "EXPIRED"}]
      BY <2>2 DEF Approve, TypeOK
    <3> QED
      BY <2>2, <3>1, <3>2, <3>3, <3>4 DEF TypeOK, Approve, LiveStates, Ends
  <2>3. CASE Deny(p, a)
    <3>1. emitted' \in [Runs -> [Events -> Nat]]
      BY <2>3, <1>a, <1>c DEF Deny, Events
    <3>2. reservation' \in [Runs -> Reservations]
      BY <2>3, <1>a, <1>b DEF Deny, TypeOK
    <3> QED
      BY <2>3, <3>1, <3>2, <1>a DEF TypeOK, Deny
  <2> QED
    BY <1>2, <2>1, <2>2, <2>3 DEF Decision
<1>3. ASSUME NEW a \in Approvals, Window(a)
      PROVE  TypeOK'
  <2>1. CASE CreateApprovalRequest(a)
    <3>1. emitted' \in [Runs -> [Events -> Nat]]
      BY <2>1, <1>a, <1>c DEF CreateApprovalRequest, Events
    <3>2. state' \in [Runs -> {"none"} \cup LiveStates \cup Ends]
      BY <2>1, <1>a DEF CreateApprovalRequest, TypeOK, LiveStates, Ends
    <3> QED
      BY <2>1, <3>1, <3>2 DEF TypeOK, CreateApprovalRequest, LiveStates, Ends
  <2>2. CASE ExtendApproval(a)
    <3>1. used.extends \in Nat /\ MaxExtends \in Nat
      BY DEF TypeOK, RunAssumption
    <3>2. used' \in [extends : 0 .. MaxExtends, faults : 0 .. MaxFaults]
      <4>1. used.extends + 1 \in 0 .. MaxExtends
        BY <2>2, <3>1 DEF ExtendApproval
      <4> QED
        BY <2>2, <4>1 DEF ExtendApproval, TypeOK
    <3> QED
      BY <2>2, <3>2 DEF TypeOK, ExtendApproval, rows
  <2>3. CASE Lapse(a)
    BY <2>3 DEF TypeOK, Lapse, rows
  <2> QED
    BY <1>3, <2>1, <2>2, <2>3 DEF Window
<1>4. ASSUME NEW s \in Sweepers, Sweep(s) \/ SweepAbort(s)
      PROVE  TypeOK'
  <2>1. CASE SweepClaim(s)
    BY <2>1 DEF TypeOK, SweepClaim, rows, queue
  <2>2. ASSUME NEW a \in Approvals, SweepSkip(s, a)
        PROVE  TypeOK'
    BY <2>2 DEF TypeOK, SweepSkip, Unclaim, rows, queue
  <2>3. ASSUME NEW a \in Approvals, SweepExpire(s, a)
        PROVE  TypeOK'
    <3>1. emitted' \in [Runs -> [Events -> Nat]]
      BY <2>3, <1>a, <1>c DEF SweepExpire, Events, TypeOK
    <3>2. reservation' \in [Runs -> Reservations]
      BY <2>3, <1>a, <1>b DEF SweepExpire, TypeOK
    <3>3. state' \in [Runs -> {"none"} \cup LiveStates \cup Ends]
      <4>1. state' = state \/ state' = [state EXCEPT ![RunOf[a]] = "CANCELED"]
        BY <2>3 DEF SweepExpire
      <4>2. state \in [Runs -> {"none"} \cup LiveStates \cup Ends]
        BY DEF TypeOK, LiveStates, Ends
      <4>3. RunOf[a] \in Runs /\ "CANCELED" \in Ends
        BY <1>a DEF Ends
      <4> QED
        BY <4>1, <4>2, <4>3
    <3>4. reason' \in [Runs -> {"none", "error", "budget_exceeded", "approval_denied",
                               "approval_expired", "canceled_by_principal"}]
      BY <2>3, <1>a DEF SweepExpire, TypeOK
    <3> QED
      BY <2>3, <3>1, <3>2, <3>3, <3>4 DEF TypeOK, SweepExpire, Unclaim, LiveStates, Ends
  <2>4. CASE SweepAbort(s)
    <3>1. used.faults \in Nat /\ MaxFaults \in Nat
      BY DEF TypeOK, RunAssumption
    <3>2. used' \in [extends : 0 .. MaxExtends, faults : 0 .. MaxFaults]
      BY <2>4, <3>1 DEF SweepAbort, TypeOK
    <3> QED
      BY <2>4, <3>2 DEF TypeOK, SweepAbort, rows, queue
  <2> QED
    BY <1>4, <2>1, <2>2, <2>3, <2>4 DEF Sweep
<1>5. CASE UNCHANGED vars
  BY <1>5 DEF TypeOK, vars, rows, queue
<1> QED
  BY <1>1, <1>2, <1>3, <1>4, <1>5 DEF Next

-----------------------------------------------------------------------------
(* The run and its queue of approvals.                                       *)

(* A step that leaves the approvals alone parks no run and cancels none.     *)
LEMMA QueueStays ==
  ASSUME QueueInv, UNCHANGED approval,
         \A q \in Runs : state'[q] = "WAITING_APPROVAL" => state[q] = "WAITING_APPROVAL",
         \A q \in Runs : reason'[q] \in {"canceled_by_principal", "approval_expired"} =>
                          reason[q] = reason'[q]
  PROVE  QueueInv'
BY DEF QueueInv, ParkedCanWake, CancelClearsQueue, Pending, ApprovalsOf

(* A step that changes the approvals of one run only: that run is not left   *)
(* parked without a PENDING approval, nor canceled with one.                 *)
LEMMA QueueOfOne ==
  ASSUME QueueInv, NEW r \in Runs,
         \A b \in Approvals : RunOf[b] # r => approval'[b] = approval[b],
         \A q \in Runs : q # r => state'[q] = state[q] /\ reason'[q] = reason[q],
         state'[r] = "WAITING_APPROVAL" => Pending(r)' # {},
         reason'[r] \in {"canceled_by_principal", "approval_expired"} => Pending(r)' = {}
  PROVE  QueueInv'
<1>1. \A q \in Runs : q # r => Pending(q)' = Pending(q)
  BY DEF Pending, ApprovalsOf
<1> QED
  BY <1>1 DEF QueueInv, ParkedCanWake, CancelClearsQueue

(* Every action preserves the queue's part of the invariant.                 *)
LEMMA QueueStep ==
  ASSUME RunAssumption, TypeOK, RunInv, QueueInv, [Next]_vars
  PROVE  QueueInv'
<1>a. \A a \in Approvals : RunOf[a] \in Runs
  BY DEF RunAssumption
<1>1. ASSUME NEW r \in Runs, Turn(r)
      PROVE  QueueInv'
  <2>1. CASE CancelRun(r)
    <3>1. Pending(r)' = {}
      BY <2>1 DEF CancelRun, Pending, ApprovalsOf, TypeOK
    <3>2. \A b \in Approvals : RunOf[b] # r => approval'[b] = approval[b]
      BY <2>1 DEF CancelRun, Pending, ApprovalsOf
    <3>3. state'[r] = "CANCELED"
      BY <2>1 DEF CancelRun, TypeOK
    <3>4. \A q \in Runs : q # r => state'[q] = state[q] /\ reason'[q] = reason[q]
      BY <2>1 DEF CancelRun, TypeOK
    <3> QED
      BY <3>1, <3>2, <3>3, <3>4, QueueOfOne
  <2>2. CASE Accept(r) \/ RequeueAccepted(r) \/ MarkDispatched(r)
    BY <2>2, QueueStays DEF Accept, RequeueAccepted, MarkDispatched, queue, TypeOK
  <2>3. CASE CompleteRun(r)
    BY <2>3, QueueStays DEF CompleteRun, queue, TypeOK
  <2>4. CASE FailRun(r) \/ FailRunForBudget(r)
    BY <2>4, QueueStays DEF FailRun, FailRunForBudget, queue, TypeOK
  <2> QED
    BY <1>1, <2>1, <2>2, <2>3, <2>4 DEF Turn
<1>2. ASSUME NEW p \in Principals, NEW a \in Approvals, Decision(p, a)
      PROVE  QueueInv'
  <2>1. CASE Vote(p, a)
    BY <2>1, QueueStays DEF Vote, rows
  <2>2. CASE Approve(p, a)
    <3>1. \A b \in Approvals : RunOf[b] # RunOf[a] => approval'[b] = approval[b]
      BY <2>2 DEF Approve, TypeOK
    <3>2. \A q \in Runs : q # RunOf[a] => state'[q] = state[q] /\ reason'[q] = reason[q]
      BY <2>2 DEF Approve, TypeOK
    <3>3. state'[RunOf[a]] = "RUNNING" /\ reason' = reason
      BY <2>2, <1>a DEF Approve, TypeOK
    <3>4. Pending(RunOf[a])' \subseteq Pending(RunOf[a])
      BY <2>2 DEF Approve, Pending, ApprovalsOf, TypeOK
    <3>5. reason'[RunOf[a]] \in {"canceled_by_principal", "approval_expired"} =>
            Pending(RunOf[a])' = {}
      BY <1>a, <3>3, <3>4 DEF QueueInv, CancelClearsQueue
    <3> QED
      BY <1>a, <3>1, <3>2, <3>3, <3>5, QueueOfOne
  <2>3. CASE Deny(p, a)
    <3>1. \A b \in Approvals : RunOf[b] # RunOf[a] => approval'[b] = approval[b]
      BY <2>3 DEF Deny, TypeOK
    <3>2. \A q \in Runs : q # RunOf[a] => state'[q] = state[q] /\ reason'[q] = reason[q]
      BY <2>3 DEF Deny, TypeOK
    <3>3. state'[RunOf[a]] = "CANCELED" /\ reason'[RunOf[a]] = "approval_denied"
      BY <2>3, <1>a DEF Deny, TypeOK
    <3> QED
      BY <1>a, <3>1, <3>2, <3>3, QueueOfOne
  <2> QED
    BY <1>2, <2>1, <2>2, <2>3 DEF Decision
<1>3. ASSUME NEW a \in Approvals, Window(a)
      PROVE  QueueInv'
  <2>1. CASE CreateApprovalRequest(a)
    <3>1. \A b \in Approvals : RunOf[b] # RunOf[a] => approval'[b] = approval[b]
      BY <2>1 DEF CreateApprovalRequest, TypeOK
    <3>2. \A q \in Runs : q # RunOf[a] => state'[q] = state[q] /\ reason'[q] = reason[q]
      BY <2>1, <1>a DEF CreateApprovalRequest, TypeOK
    <3>3. a \in Pending(RunOf[a])'
      BY <2>1 DEF CreateApprovalRequest, Pending, ApprovalsOf, TypeOK
    <3>4. reason'[RunOf[a]] = "none"
      BY <2>1, <1>a DEF CreateApprovalRequest, RunInv, ReasonOfEnd, Live, TerminalStates
    <3> QED
      BY <1>a, <3>1, <3>2, <3>3, <3>4, QueueOfOne
  <2>2. CASE ExtendApproval(a) \/ Lapse(a)
    BY <2>2, QueueStays DEF ExtendApproval, Lapse, rows
  <2> QED
    BY <1>3, <2>1, <2>2 DEF Window
<1>4. ASSUME NEW s \in Sweepers, NEW a \in Approvals, SweepExpire(s, a)
      PROVE  QueueInv'
  <2>1. \A b \in Approvals : RunOf[b] # RunOf[a] => approval'[b] = approval[b]
    BY <1>4 DEF SweepExpire, Pending, ApprovalsOf
  <2>2. Pending(RunOf[a])' = {}
    BY <1>4 DEF SweepExpire, Pending, ApprovalsOf
  <2>3. CASE Cancelable(RunOf[a])
    <3>1. \A q \in Runs : q # RunOf[a] => state'[q] = state[q] /\ reason'[q] = reason[q]
      BY <1>4, <2>3 DEF SweepExpire, TypeOK
    <3>2. state'[RunOf[a]] = "CANCELED"
      BY <1>4, <2>3, <1>a DEF SweepExpire, TypeOK
    <3> QED
      BY <1>a, <2>1, <2>2, <3>1, <3>2, QueueOfOne
  <2>4. CASE ~Cancelable(RunOf[a])
    <3>1. UNCHANGED <<state, reason>>
      BY <1>4, <2>4 DEF SweepExpire
    <3>2. state'[RunOf[a]] # "WAITING_APPROVAL"
      BY <2>4, <3>1 DEF Cancelable
    <3> QED
      BY <1>a, <2>1, <2>2, <3>1, <3>2, QueueOfOne
  <2> QED
    BY <2>3, <2>4
<1>5. ASSUME NEW s \in Sweepers, Sweep(s) \/ SweepAbort(s)
      PROVE  QueueInv'
  BY <1>4, <1>5, QueueStays DEF Sweep, SweepClaim, SweepSkip, SweepAbort, rows, queue
<1>6. CASE UNCHANGED vars
  BY <1>6, QueueStays DEF vars, rows, queue
<1> QED
  BY <1>1, <1>2, <1>3, <1>5, <1>6 DEF Next

-----------------------------------------------------------------------------
(* The votes.                                                                *)

(* A step that neither votes nor grants nor reopens an approval.             *)
LEMMA VotesStay ==
  ASSUME VoteInv, UNCHANGED votes,
         \A a \in Approvals : approval'[a] = "APPROVED" <=> approval[a] = "APPROVED",
         \A a \in Approvals : approval'[a] \in {"none", "PENDING"} =>
                               approval[a] \in {"none", "PENDING"},
         \A q \in Runs : emitted'[q]["run.resume_requested"] =
                          emitted[q]["run.resume_requested"]
  PROVE  VoteInv'
<1>1. \A r \in Runs : {a \in ApprovalsOf(r) : approval'[a] = "APPROVED"} =
                     {a \in ApprovalsOf(r) : approval[a] = "APPROVED"}
  BY DEF ApprovalsOf
<1>2. ResumedPerApproval'
  BY <1>1 DEF VoteInv, ResumedPerApproval, ApprovalsOf
<1>3. ApprovedByQuorum' /\ VotesShort'
  BY DEF VoteInv, ApprovedByQuorum, VotesShort
<1> QED
  BY <1>2, <1>3 DEF VoteInv

(* Who votes has not voted before: the votes become one more.                *)
LEMMA OneMoreVote ==
  ASSUME VoteInv, NEW a \in Approvals, NEW p \in Principals, MayDecide(p, a)
  PROVE  /\ IsFiniteSet(votes[a]) /\ IsFiniteSet(votes[a] \cup {p})
         /\ Cardinality(votes[a]) \in Nat
         /\ Cardinality(votes[a] \cup {p}) = Cardinality(votes[a]) + 1
BY FS_AddElement, FS_CardinalityType DEF VoteInv, VotesShort, MayDecide

(* Every action preserves the votes' part of the invariant.                  *)
LEMMA VoteStep ==
  ASSUME RunAssumption, TypeOK, RunInv, VoteInv, [Next]_vars
  PROVE  VoteInv'
<1>a. \A a \in Approvals : RunOf[a] \in Runs /\ Required[a] \in 1 .. 5
  BY DEF RunAssumption
<1>b. ASSUME NEW r \in Runs, NEW e \in Events, e # "run.resume_requested", Emit(r, e)
      PROVE  \A q \in Runs : emitted'[q]["run.resume_requested"] =
                              emitted[q]["run.resume_requested"]
  <2>1. "run.resume_requested" \in Events
    BY DEF Events
  <2> QED
    BY <1>b, <2>1, Emitted DEF TypeOK
<1>1. ASSUME NEW r \in Runs, Turn(r)
      PROVE  VoteInv'
  <2>1. \A q \in Runs : emitted'[q]["run.resume_requested"] =
                         emitted[q]["run.resume_requested"]
    BY <1>1, <1>b DEF Turn, Accept, RequeueAccepted, MarkDispatched, CompleteRun, FailRun,
                      FailRunForBudget, CancelRun, Events
  <2>2. UNCHANGED votes
    BY <1>1 DEF Turn, Accept, RequeueAccepted, MarkDispatched, CompleteRun, FailRun,
                FailRunForBudget, CancelRun, queue
  <2>3. \A a \in Approvals :
          \/ approval'[a] = approval[a]
          \/ approval[a] = "PENDING" /\ approval'[a] = "EXPIRED"
    BY <1>1 DEF Turn, Accept, RequeueAccepted, MarkDispatched, CompleteRun, FailRun,
                FailRunForBudget, CancelRun, queue, Pending, ApprovalsOf
  <2> QED
    BY <2>1, <2>2, <2>3, VotesStay
<1>2. ASSUME NEW p \in Principals, NEW a \in Approvals, Vote(p, a)
      PROVE  VoteInv'
  <2>1. \A b \in Approvals : votes'[b] = IF b = a THEN votes[a] \cup {p} ELSE votes[b]
    BY <1>2 DEF Vote, TypeOK
  <2>2. UNCHANGED <<emitted, approval>> /\ approval[a] = "PENDING" /\ p # Author[a]
    BY <1>2 DEF Vote, rows, MayDecide
  <2>3. ResumedPerApproval'
    BY <2>2 DEF VoteInv, ResumedPerApproval, ApprovalsOf
  <2>4. ApprovedByQuorum'
    BY <2>1, <2>2 DEF VoteInv, ApprovedByQuorum
  <2>5. IsFiniteSet(votes'[a]) /\ Cardinality(votes'[a]) < Required[a]
    <3>1. MayDecide(p, a) /\ ~ (Cardinality(votes[a]) + 1 >= Required[a])
      BY <1>2 DEF Vote, Reaches
    <3>2. /\ IsFiniteSet(votes[a] \cup {p})
          /\ Cardinality(votes[a]) \in Nat
          /\ Cardinality(votes[a] \cup {p}) = Cardinality(votes[a]) + 1
      BY <3>1, OneMoreVote
    <3> QED
      BY <2>1, <3>1, <3>2, <1>a
  <2>6. VotesShort'
    BY <2>1, <2>2, <2>5 DEF VoteInv, VotesShort
  <2> QED
    BY <2>3, <2>4, <2>6 DEF VoteInv
<1>3. ASSUME NEW p \in Principals, NEW a \in Approvals, Approve(p, a)
      PROVE  VoteInv'
  <2>1. \A b \in Approvals : approval'[b] = IF b = a THEN "APPROVED" ELSE approval[b]
    BY <1>3 DEF Approve, TypeOK
  <2>2. \A b \in Approvals : votes'[b] = IF b = a /\ Required[a] > 1
                                         THEN votes[a] \cup {p} ELSE votes[b]
    BY <1>3 DEF Approve, TypeOK
  <2>3. MayDecide(p, a) /\ Cardinality(votes[a]) + 1 >= Required[a]
    BY <1>3 DEF Approve, Reaches
  <2>4. /\ approval[a] = "PENDING" /\ p # Author[a]
        /\ Cardinality(votes[a]) < Required[a] /\ IsFiniteSet(votes[a])
    BY <2>3 DEF MayDecide, VoteInv, VotesShort
  <2>5. /\ IsFiniteSet(votes[a] \cup {p})
        /\ Cardinality(votes[a]) \in Nat
        /\ Cardinality(votes[a] \cup {p}) = Cardinality(votes[a]) + 1
    BY <2>3, OneMoreVote
  <2>6. ResumedPerApproval'
    <3> DEFINE Granted(r) == {b \in ApprovalsOf(r) : approval[b] = "APPROVED"}
    <3>1. \A q \in Runs : emitted'[q]["run.resume_requested"] =
                           IF q = RunOf[a] THEN emitted[q]["run.resume_requested"] + 1
                           ELSE emitted[q]["run.resume_requested"]
      <4>1. "run.resume_requested" \in Events
        BY DEF Events
      <4> QED
        BY <1>3, <1>a, <4>1, Emitted DEF Approve, TypeOK
    <3>2. \A r \in Runs : Granted(r)' = IF r = RunOf[a] THEN Granted(r) \cup {a} ELSE Granted(r)
      BY <2>1 DEF ApprovalsOf
    <3>3. \A r \in Runs : IsFiniteSet(Granted(r))
      BY FS_Subset DEF RunAssumption, ApprovalsOf
    <3>4. \A r \in Runs : a \notin Granted(r)
      BY <2>4
    <3>5. \A r \in Runs : Cardinality(Granted(r) \cup {a}) = Cardinality(Granted(r)) + 1
      BY <3>3, <3>4, FS_AddElement
    <3>6. \A r \in Runs : emitted[r]["run.resume_requested"] = Cardinality(Granted(r))
      BY DEF VoteInv, ResumedPerApproval
    <3>7. \A r \in Runs : emitted'[r]["run.resume_requested"] = Cardinality(Granted(r)')
      BY <3>1, <3>2, <3>5, <3>6, ZenonT(40)
    <3> QED
      BY <3>7 DEF ResumedPerApproval, ApprovalsOf
  <2>7. ApprovedByQuorum'
    <3>1. Required[a] > 1 => Cardinality(votes'[a]) = Required[a]
      BY <2>2, <2>3, <2>4, <2>5, <1>a
    <3> QED
      BY <2>1, <2>2, <2>4, <3>1 DEF VoteInv, ApprovedByQuorum
  <2>8. VotesShort'
    BY <2>1, <2>2, <2>4, <2>5 DEF VoteInv, VotesShort
  <2> QED
    BY <2>6, <2>7, <2>8 DEF VoteInv
<1>4. ASSUME NEW p \in Principals, NEW a \in Approvals, Deny(p, a)
      PROVE  VoteInv'
  <2>1. \A b \in Approvals : approval'[b] = IF b = a THEN "DENIED" ELSE approval[b]
    BY <1>4 DEF Deny, TypeOK
  <2>2. approval[a] = "PENDING" /\ UNCHANGED votes
    BY <1>4 DEF Deny, MayDecide
  <2>3. \A q \in Runs : emitted'[q]["run.resume_requested"] =
                         emitted[q]["run.resume_requested"]
    BY <1>4, <1>a, <1>b DEF Deny, Events
  <2> QED
    BY <2>1, <2>2, <2>3, VotesStay
<1>5. ASSUME NEW a \in Approvals, Window(a)
      PROVE  VoteInv'
  <2>1. CASE CreateApprovalRequest(a)
    <3>1. \A b \in Approvals : approval'[b] = IF b = a THEN "PENDING" ELSE approval[b]
      BY <2>1 DEF CreateApprovalRequest, TypeOK
    <3>2. approval[a] = "none" /\ UNCHANGED votes
      BY <2>1 DEF CreateApprovalRequest
    <3>3. \A q \in Runs : emitted'[q]["run.resume_requested"] =
                           emitted[q]["run.resume_requested"]
      BY <2>1, <1>a, <1>b DEF CreateApprovalRequest, Events
    <3> QED
      BY <3>1, <3>2, <3>3, VotesStay
  <2>2. CASE ExtendApproval(a) \/ Lapse(a)
    BY <2>2, VotesStay DEF ExtendApproval, Lapse, rows
  <2> QED
    BY <1>5, <2>1, <2>2 DEF Window
<1>6. ASSUME NEW s \in Sweepers, NEW a \in Approvals, SweepExpire(s, a)
      PROVE  VoteInv'
  <2>1. \A b \in Approvals :
          \/ approval'[b] = approval[b]
          \/ approval[b] = "PENDING" /\ approval'[b] = "EXPIRED"
    BY <1>6 DEF SweepExpire, Pending, ApprovalsOf
  <2>2. \A q \in Runs : emitted'[q]["run.resume_requested"] =
                         emitted[q]["run.resume_requested"]
    BY <1>6, <1>a, <1>b DEF SweepExpire, Events
  <2> QED
    BY <1>6, <2>1, <2>2, VotesStay DEF SweepExpire
<1>7. ASSUME NEW s \in Sweepers, Sweep(s) \/ SweepAbort(s)
      PROVE  VoteInv'
  BY <1>6, <1>7, VotesStay DEF Sweep, SweepClaim, SweepSkip, SweepAbort, rows, queue
<1>8. CASE UNCHANGED vars
  BY <1>8, VotesStay DEF vars, rows, queue
<1> QED
  BY <1>1, <1>2, <1>3, <1>4, <1>5, <1>7, <1>8 DEF Next, Decision

-----------------------------------------------------------------------------
(* The invariant holds in every state of every run of the repositories.      *)
THEOREM Invariance == Spec => []IInv
<1>1. Init => IInv
  BY InitIInv, RunAssumption
<1>2. IInv /\ [Next]_vars => IInv'
  BY RunAssumption, TypeStep, RunInvStep, QueueStep, VoteStep DEF IInv
<1> QED
  BY <1>1, <1>2, PTL DEF Spec

(* Every variable keeps its type.                                            *)
THEOREM TypeCorrect == Spec => []TypeOK
<1>1. IInv => TypeOK
  BY DEF IInv
<1> QED
  BY <1>1, Invariance, PTL

(* A conversation never has two active turns (the partial unique index).     *)
THEOREM OneTurnAtATime == Spec => []OneActiveTurn
<1>1. IInv => OneActiveTurn
  BY DEF IInv, RunInv
<1> QED
  BY <1>1, Invariance, PTL

(* A reservation is held exactly as long as its run lives and is settled by  *)
(* the way the run ends (settleRunQuota, the releases of failRun, of         *)
(* decideApproval and of the sweep).                                         *)
THEOREM Settlement == Spec => []SettledWithRun
<1>1. IInv => SettledWithRun
  BY DEF IInv, RunInv
<1> QED
  BY <1>1, Invariance, PTL

(* The end of a run is announced once, by the one transaction that ended it. *)
THEOREM Announcement == Spec => []AnnouncedOnce
<1>1. IInv => AnnouncedOnce
  BY DEF IInv, RunInv
<1> QED
  BY <1>1, Invariance, PTL

(* A parked run keeps an approval that a decision or the sweep can take.     *)
THEOREM ParkedRunsCanWake == Spec => []ParkedCanWake
<1>1. IInv => ParkedCanWake
  BY DEF IInv, QueueInv
<1> QED
  BY <1>1, Invariance, PTL

(* cancelRun and the sweep leave no PENDING approval of the run they cancel. *)
THEOREM CanceledRunsAreCleared == Spec => []CancelClearsQueue
<1>1. IInv => CancelClearsQueue
  BY DEF IInv, QueueInv
<1> QED
  BY <1>1, Invariance, PTL

(* One resume request for every granted approval (decideApproval).           *)
THEOREM ResumeOncePerGrant == Spec => []ResumedPerApproval
<1>1. IInv => ResumedPerApproval
  BY DEF IInv, VoteInv
<1> QED
  BY <1>1, Invariance, PTL

(* An approval is granted with exactly the votes it requires, none of them   *)
(* its author's.                                                             *)
THEOREM Quorums == Spec => []ApprovedByQuorum
<1>1. IInv => ApprovedByQuorum
  BY DEF IInv, VoteInv
<1> QED
  BY <1>1, Invariance, PTL

-----------------------------------------------------------------------------
(* An ended run is never written again: only a free slot is accepted and     *)
(* only a live run goes on or ends.                                          *)
THEOREM EndsAreFinal == Spec => TerminalIsFinal
<1> DEFINE Final == \A r \in Runs : state[r] \in TerminalStates =>
                      state'[r] = state[r] /\ reason'[r] = reason[r]
<1>1. ASSUME IInv, [Next]_vars
      PROVE  Final
  <2>1. TypeOK /\ RunStep
    BY <1>1, RunAssumption, StepKinds DEF IInv
  <2>2. CASE UNCHANGED rows
    BY <2>2 DEF rows
  <2>3. ASSUME NEW r \in Runs, Accept(r)
        PROVE  Final
    BY <2>1, <2>3 DEF Accept, TypeOK, TerminalStates
  <2>4. ASSUME NEW r \in Runs, GoesOn(r)
        PROVE  Final
    BY <2>1, <2>4 DEF GoesOn, Live, TypeOK
  <2>5. ASSUME NEW r \in Runs, NEW how \in Ends, EndsAs(r, how)
        PROVE  Final
    BY <2>1, <2>5 DEF EndsAs, Live, TypeOK
  <2> QED
    BY <2>1, <2>2, <2>3, <2>4, <2>5 DEF RunStep
<1>2. IInv /\ [Next]_vars => [Final]_vars
  BY <1>1
<1>3. Spec => [][Final]_vars
  BY <1>2, Invariance, PTL DEF Spec
<1> QED
  BY <1>3 DEF TerminalIsFinal

(* A decision stands: every action that writes an approval writes one that   *)
(* was never asked for or is still PENDING (decideApproval, the sweep and    *)
(* cancelRun all read the row again under its lock).                         *)
THEOREM DecisionsStand == Spec => DecisionIsFinal
<1> DEFINE Stands == \A a \in Approvals : approval[a] \notin {"none", "PENDING"} =>
                       approval'[a] = approval[a]
<1>1. ASSUME IInv, [Next]_vars
      PROVE  Stands
  <2>a. approval \in [Approvals -> {"none", "PENDING", "APPROVED", "DENIED", "EXPIRED"}]
    BY <1>1 DEF IInv, TypeOK
  <2>1. ASSUME NEW r \in Runs, Turn(r)
        PROVE  Stands
    <3>1. CASE CancelRun(r)
      BY <2>a, <3>1 DEF CancelRun, Pending
    <3>2. CASE UNCHANGED approval
      BY <3>2
    <3> QED
      BY <2>1, <3>1, <3>2 DEF Turn, Accept, RequeueAccepted, MarkDispatched, CompleteRun,
                              FailRun, FailRunForBudget, queue
  <2>2. ASSUME NEW p \in Principals, NEW a \in Approvals, Decision(p, a)
        PROVE  Stands
    BY <2>a, <2>2 DEF Decision, Vote, Approve, Deny, MayDecide
  <2>3. ASSUME NEW a \in Approvals, Window(a)
        PROVE  Stands
    BY <2>a, <2>3 DEF Window, CreateApprovalRequest, ExtendApproval, Lapse
  <2>4. ASSUME NEW s \in Sweepers, Sweep(s) \/ SweepAbort(s)
        PROVE  Stands
    <3>1. ASSUME NEW a \in Approvals, SweepExpire(s, a)
          PROVE  Stands
      BY <2>a, <3>1 DEF SweepExpire, Pending
    <3>2. CASE UNCHANGED approval
      BY <3>2
    <3> QED
      BY <2>4, <3>1, <3>2 DEF Sweep, SweepClaim, SweepSkip, SweepAbort, queue
  <2>5. CASE UNCHANGED vars
    BY <2>5 DEF vars, queue
  <2> QED
    BY <1>1, <2>1, <2>2, <2>3, <2>4, <2>5 DEF Next
<1>2. IInv /\ [Next]_vars => [Stands]_vars
  BY <1>1
<1>3. Spec => [][Stands]_vars
  BY <1>2, Invariance, PTL DEF Spec
<1> QED
  BY <1>3 DEF DecisionIsFinal

(* A sweeper's claims stay overdue until a window is extended: only an       *)
(* extension takes an approval out of overdue.                               *)
LEMMA ClaimsLapsedStep ==
  ASSUME RunAssumption, TypeOK, ClaimsLapsed, [Next]_vars
  PROVE  ClaimsLapsed'
<1>a. /\ used \in [extends : 0 .. MaxExtends, faults : 0 .. MaxFaults]
      /\ claimed \in [Sweepers -> SUBSET Approvals]
  BY DEF TypeOK
<1>1. ASSUME UNCHANGED <<overdue, claimed, used>>
      PROVE  ClaimsLapsed'
  BY <1>1 DEF ClaimsLapsed
<1>2. ASSUME NEW r \in Runs, Turn(r)
      PROVE  ClaimsLapsed'
  BY <1>1, <1>2 DEF Turn, Accept, RequeueAccepted, MarkDispatched, CompleteRun, FailRun,
                    FailRunForBudget, CancelRun, queue
<1>3. ASSUME NEW p \in Principals, NEW a \in Approvals, Decision(p, a)
      PROVE  ClaimsLapsed'
  BY <1>1, <1>3 DEF Decision, Vote, Approve, Deny
<1>4. ASSUME NEW a \in Approvals, Window(a)
      PROVE  ClaimsLapsed'
  <2>1. CASE CreateApprovalRequest(a)
    BY <1>1, <2>1 DEF CreateApprovalRequest
  <2>2. CASE ExtendApproval(a)
    <3>1. used'.extends = used.extends + 1 /\ used.extends \in Nat
      BY <1>a, <2>2 DEF ExtendApproval
    <3> QED
      BY <3>1 DEF ClaimsLapsed
  <2>3. CASE Lapse(a)
    BY <2>3 DEF Lapse, ClaimsLapsed
  <2> QED
    BY <1>4, <2>1, <2>2, <2>3 DEF Window
<1>5. ASSUME NEW s \in Sweepers, Sweep(s) \/ SweepAbort(s)
      PROVE  ClaimsLapsed'
  <2>1. overdue' = overdue /\ used'.extends = used.extends
    BY <1>5, <1>a DEF Sweep, SweepClaim, SweepSkip, SweepExpire, SweepAbort, queue
  <2>2. claimed'[s] \subseteq claimed[s] \cup overdue
        /\ \A t \in Sweepers : t # s => claimed'[t] = claimed[t]
    BY <1>5, <1>a DEF Sweep, SweepClaim, SweepSkip, SweepExpire, SweepAbort, Unclaim
  <2> QED
    BY <2>1, <2>2 DEF ClaimsLapsed
<1>6. CASE UNCHANGED vars
  BY <1>1, <1>6 DEF vars, queue
<1> QED
  BY <1>2, <1>3, <1>4, <1>5, <1>6 DEF Next

(* A run is canceled as 'approval_expired' only with an overdue approval of  *)
(* its own, though the sweep reads expires_at one transaction earlier, as    *)
(* long as no window was extended (pg-approval.repository.ts:482, :500).     *)
THEOREM ExpiriesAreDue == Spec => ExpiryMeansOverdue
<1> DEFINE Due == \A r \in Runs : (/\ used.extends = 0
                                   /\ reason[r] # "approval_expired"
                                   /\ reason'[r] = "approval_expired")
                    => Pending(r) \cap overdue # {}
<1>1. Init => ClaimsLapsed
  BY DEF Init, ClaimsLapsed
<1>2. TypeOK /\ ClaimsLapsed /\ [Next]_vars => ClaimsLapsed'
  BY RunAssumption, ClaimsLapsedStep
<1>3. ASSUME TypeOK, ClaimsLapsed, [Next]_vars
      PROVE  Due
  <2>a. reason \in [Runs -> {"none", "error", "budget_exceeded", "approval_denied",
                             "approval_expired", "canceled_by_principal"}]
        /\ \A a \in Approvals : RunOf[a] \in Runs
    BY <1>3, RunAssumption DEF TypeOK, RunAssumption
  <2>1. CASE UNCHANGED reason
    BY <2>1
  <2>2. ASSUME NEW r \in Runs, Turn(r)
        PROVE  Due
    BY <2>a, <2>2 DEF Turn, Accept, RequeueAccepted, MarkDispatched, CompleteRun, FailRun,
                      FailRunForBudget, CancelRun
  <2>3. ASSUME NEW p \in Principals, NEW a \in Approvals, Decision(p, a)
        PROVE  Due
    BY <2>a, <2>3 DEF Decision, Vote, Approve, Deny, rows
  <2>4. ASSUME NEW s \in Sweepers, NEW a \in Approvals, SweepExpire(s, a)
        PROVE  Due
    <3> SUFFICES ASSUME NEW r \in Runs, used.extends = 0, reason[r] # "approval_expired",
                        reason'[r] = "approval_expired"
                 PROVE  Pending(r) \cap overdue # {}
      OBVIOUS
    <3>1. r = RunOf[a]
      BY <2>a, <2>4 DEF SweepExpire
    <3>2. a \in overdue /\ approval[a] = "PENDING"
      BY <1>3, <2>4 DEF SweepExpire, ClaimsLapsed
    <3> QED
      BY <3>1, <3>2 DEF Pending, ApprovalsOf
  <2>5. \/ UNCHANGED reason
        \/ \E r \in Runs : Turn(r)
        \/ \E p \in Principals, a \in Approvals : Decision(p, a)
        \/ \E s \in Sweepers, a \in Approvals : SweepExpire(s, a)
    BY <1>3 DEF Next, Window, CreateApprovalRequest, ExtendApproval, Lapse, Sweep, SweepClaim,
                SweepSkip, SweepAbort, rows, vars
  <2> QED
    BY <2>1, <2>2, <2>3, <2>4, <2>5
<1>4. TypeOK /\ ClaimsLapsed /\ [Next]_vars => [Due]_vars
  BY <1>3
<1>5. Spec => []ClaimsLapsed
  BY <1>1, <1>2, TypeCorrect, PTL DEF Spec
<1>6. Spec => [][Due]_vars
  BY <1>4, <1>5, TypeCorrect, PTL DEF Spec
<1> QED
  BY <1>6 DEF ExpiryMeansOverdue

-----------------------------------------------------------------------------
(* The refinement.  What a step does to the runs decides what it does to the *)
(* turns.                                                                    *)

(* A live run that goes on is the same open turn.                            *)
LEMMA GoingOnIsInvisible ==
  ASSUME TypeOK, NEW r \in Runs, GoesOn(r)
  PROVE  UNCHANGED Promise!vars
<1>1. PICK t \in LiveStates : state' = [state EXCEPT ![r] = t]
  BY DEF GoesOn
<1>2. PICK e \in Events \ {"run.completed", "run.failed", "run.canceled"} : Emit(r, e)
  BY DEF GoesOn
<1>3. \A q \in Runs, f \in Events :
        emitted'[q][f] = IF q = r /\ f = e THEN emitted[q][f] + 1 ELSE emitted[q][f]
  BY <1>2, Emitted DEF TypeOK
<1>4. \A q \in Runs : TurnOf(q)' = TurnOf(q)
  BY <1>1 DEF GoesOn, TypeOK, TurnOf, Live, LiveStates, TerminalStates
<1>5. \A q \in Runs : QuotaOf(q)' = QuotaOf(q)
  BY DEF GoesOn, QuotaOf
<1>6. \A q \in Runs : Ended(q)' = Ended(q)
  BY <1>3 DEF Ended, Events
<1> QED
  BY <1>4, <1>5, <1>6 DEF Promise!vars, GoesOn

(* Accepting a run opens its turn.                                           *)
LEMMA AcceptingOpens ==
  ASSUME TypeOK, RunInv, NEW r \in Runs, Accept(r)
  PROVE  Promise!Open(r)
<1>1. \A q \in Runs : TurnOf(q)' = IF q = r THEN "open" ELSE TurnOf(q)
  BY DEF Accept, TypeOK, TurnOf, Live, TerminalStates
<1>2. TurnOf(r) = "none"
  BY DEF Accept, TurnOf
<1>3. \A q \in Runs : ConversationOf[q] = ConversationOf[r] => TurnOf(q) # "open"
  BY DEF Accept, TypeOK, TurnOf, TerminalStates
<1>4. \A q \in Runs : Ended(q)' = Ended(q)
  <2>1. \A q \in Runs, f \in Events :
          emitted'[q][f] = IF q = r /\ f = "run.created" THEN emitted[q][f] + 1
                           ELSE emitted[q][f]
    BY Emitted DEF TypeOK, Events, Accept
  <2> QED
    BY <2>1 DEF Ended, Events
<1>5. \/ UNCHANGED reservation
      \/ KindOf[r] = "standard" /\ reservation' = [reservation EXCEPT ![r] = "RESERVED"]
  BY DEF Accept
<1>6. CASE UNCHANGED reservation
  <2>1. \A q \in Runs : QuotaOf(q)' = QuotaOf(q)
    BY <1>6 DEF QuotaOf
  <2> QED
    BY <1>1, <1>2, <1>3, <1>4, <2>1 DEF Promise!Open, Accept
<1>7. CASE KindOf[r] = "standard" /\ reservation' = [reservation EXCEPT ![r] = "RESERVED"]
  <2>1. \A q \in Runs : QuotaOf(q)' = IF q = r THEN "held" ELSE QuotaOf(q)
    BY <1>7 DEF QuotaOf, TypeOK
  <2> QED
    BY <1>1, <1>2, <1>3, <1>4, <1>7, <2>1 DEF Promise!Open, Accept
<1> QED
  BY <1>5, <1>6, <1>7

(* A run that ends ends its turn, with its settlement and its announcement.  *)
LEMMA EndingEnds ==
  ASSUME TypeOK, RunInv, NEW r \in Runs, NEW how \in Ends, EndsAs(r, how)
  PROVE  Promise!End(r, how)
<1>1. \A q \in Runs : TurnOf(q)' = IF q = r THEN how ELSE TurnOf(q)
  BY DEF EndsAs, TypeOK, TurnOf, Live, TerminalStates, Ends
<1>2. TurnOf(r) = "open"
  BY DEF EndsAs, TurnOf, Live
<1>3. \A q \in Runs : Ended(q)' = IF q = r THEN Ended(q) + 1 ELSE Ended(q)
  <2>1. TerminalEvent[how] \in {"run.completed", "run.failed", "run.canceled"}
    BY DEF TerminalEvent, Ends
  <2>2. \A q \in Runs, f \in Events :
          emitted'[q][f] = IF q = r /\ f = TerminalEvent[how] THEN emitted[q][f] + 1
                           ELSE emitted[q][f]
    BY <2>1, Emitted DEF TypeOK, Events, EndsAs
  <2>3. \A q \in Runs : /\ emitted[q]["run.completed"] \in Nat
                       /\ emitted[q]["run.failed"] \in Nat
                       /\ emitted[q]["run.canceled"] \in Nat
    BY DEF TypeOK, Events
  <2> QED
    BY <2>1, <2>2, <2>3 DEF Ended, Events
<1>4. reservation[r] = "none" \/ reservation[r] = "RESERVED"
  BY DEF TypeOK, RunInv, SettledWithRun, EndsAs, Live, TerminalStates
<1>5. \A q \in Runs :
        QuotaOf(q)' = IF q # r THEN QuotaOf(q)
                      ELSE IF QuotaOf(r) = "none" THEN "none"
                      ELSE IF how = "COMPLETED" THEN "spent" ELSE "returned"
  <2>1. CASE Settle(r, IF how = "COMPLETED" THEN "COMMITTED" ELSE "RELEASED")
    BY <1>4, <2>1 DEF TypeOK, Settle, QuotaOf
  <2>2. CASE KindOf[r] # "standard" /\ UNCHANGED reservation
    BY <1>4, <2>2 DEF RunInv, SettledWithRun, QuotaOf
  <2> QED
    BY <2>1, <2>2 DEF EndsAs
<1>6. \/ UNCHANGED ledger
      \/ how = "COMPLETED" /\ KindOf[r] = "standard" /\ ledger' = ledger \cup {r}
  BY DEF EndsAs
<1> QED
  BY <1>1, <1>2, <1>3, <1>5, <1>6 DEF Promise!End

(* The repositories keep the promise of RunTurn.                             *)
THEOREM PromiseKept == Spec => KeepsPromise
<1>1. Init => Promise!Init
  BY DEF Init, Promise!Init, TurnOf, QuotaOf, Ended, Events, Live
<1>2. ASSUME IInv, [Next]_vars
      PROVE  [Promise!Next]_(Promise!vars)
  <2>1. TypeOK /\ RunInv /\ RunStep
    BY <1>2, RunAssumption, StepKinds DEF IInv
  <2>2. CASE UNCHANGED rows
    BY <2>2 DEF rows, Promise!vars, TurnOf, QuotaOf, Ended, Live
  <2>3. ASSUME NEW r \in Runs, Accept(r)
        PROVE  Promise!Next
    BY <2>1, <2>3, AcceptingOpens DEF Promise!Next
  <2>4. ASSUME NEW r \in Runs, GoesOn(r)
        PROVE  UNCHANGED Promise!vars
    BY <2>1, <2>4, GoingOnIsInvisible
  <2>5. ASSUME NEW r \in Runs, NEW how \in Ends, EndsAs(r, how)
        PROVE  Promise!Next
    BY <2>1, <2>5, EndingEnds DEF Promise!Next, Promise!Ends, Ends
  <2> QED
    BY <2>1, <2>2, <2>3, <2>4, <2>5 DEF RunStep
<1>3. IInv /\ [Next]_vars => [Promise!Next]_(Promise!vars)
  BY <1>2
<1>4. Spec => Promise!Spec
  BY <1>1, <1>3, Invariance, PTL DEF Spec, Promise!Spec
<1> QED
  BY <1>4 DEF KeepsPromise
=============================================================================
