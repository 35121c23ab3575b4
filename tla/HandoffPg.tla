------------------------------ MODULE HandoffPg ------------------------------
(* The handlers of Conversation on PostgreSQL: READ COMMITTED transactions   *)
(* that lock rows one after the other (SELECT ... FOR UPDATE, and the key    *)
(* share lock of a foreign key), decide on what they read under each lock    *)
(* and publish their writes at commit.  Nobody else sees those writes        *)
(* before, so a commit is one step.  PostgreSQL breaks a deadlock by         *)
(* aborting a transaction of the cycle.                                      *)
EXTENDS Conversation

CONSTANTS Tx,          \* the transactions in flight
          Approvals,   \* what one run may ask people to approve
          NoApproval,
          Asking,      \* bound: the runs that ask for an approval
          MaxMessages, MaxRuns, MaxEscalations, MaxVersion  \* bounds

ASSUME ApprovalAssumption == NoApproval \notin Approvals

ASSUME BoundAssumption == 
  {MaxMessages, MaxRuns, MaxEscalations, MaxVersion} \subseteq Nat

VARIABLES call,        \* what a transaction runs, Idle between two
          way,         \* how it ends the run, if that is what it does
          view,        \* what it has read
          held         \* the rows it holds locked

vars == <<db, call, way, view, held>>

Conv == <<"conversation", 0, NoApproval>>
Esc(e) == <<"escalation", e, NoApproval>>
Run(r) == <<"run", r, NoApproval>>
Approval(r, a) == <<"approval", r, a>>

(* The handlers that end a run without a reply: failRun and                  *)
(* failRunForBudget lock the run alone; cancelRun then expires its           *)
(* approvals, all the rest of them; decideApproval locks its approval first  *)
(* and then the run; the expiry sweep does that too and goes on to the rest. *)
(* Approvals are here for their locks only.  A vote or a grant takes the     *)
(* locks of a denial and writes nothing of what is modelled: it is one that  *)
(* ends in Fail.                                                             *)
Ways == [first : Approvals \cup {NoApproval}, rest : BOOLEAN]

RunOnly == [first |-> NoApproval, rest |-> FALSE]

PgInit ==
  /\ Init
  /\ call = [t \in Tx |-> Idle]
  /\ way = [t \in Tx |-> RunOnly]
  /\ view = [t \in Tx |-> NoRows]
  /\ held = [t \in Tx |-> {}]

(* The row a handler locks first. *)
FirstRow(c, w) ==
  CASE c.op = "end" /\ w.first # NoApproval -> Approval(c.at, w.first)
    [] c.op \in {"complete", "end"} -> Run(c.at)
    [] c.op \in {"claim", "resolve", "reply"} -> Esc(c.at)
    [] OTHER -> Conv

(* Mutant: the resolution reads the conversation without locking it. *)
SecondRowNotConv(c, v) ==
  CASE c.op = "escalate" /\ c.at # 0 -> {Run(c.at)}
    [] c.op = "end" -> {Run(c.at)}
    [] c.op \in {"complete", "reply"} -> {Conv}
    [] OTHER -> {}

(* The row it needs besides, given what it read under the first: the rows    *)
(* of an escalation refer to the run, and the lock of that foreign key waits *)
(* for FOR UPDATE; a resolution locks the conversation unless another        *)
(* escalation is open.                                                       *)
SecondRow(c, v) ==
  CASE c.op = "escalate" /\ c.at # 0 -> {Run(c.at)}
    [] c.op = "end" -> {Run(c.at)}
    [] c.op \in {"complete", "reply"} -> {Conv}
    [] c.op = "resolve" /\ Open(v) \subseteq {c.at} -> {Conv}
    [] OTHER -> {}

(* Mutant: a cancellation touches the conversation too, after the run. *)
LaterRowsAndConv(c, w) ==
  IF c.op = "end" /\ w.rest THEN {Conv} \cup {Approval(c.at, a) : a \in Approvals} ELSE {}

(* The rows it locks last, in no order of their own. *)
LaterRows(c, w) ==
  IF c.op = "end" /\ w.rest THEN {Approval(c.at, a) : a \in Approvals} ELSE {}

(* The rows a transaction asks for now. *)
Needs(t) ==
  IF SecondRow(call[t], view[t]) \subseteq held[t]
  THEN LaterRows(call[t], way[t]) \ held[t]
  ELSE SecondRow(call[t], view[t]) \ held[t]

Free(row) == \A t \in Tx : row \notin held[t]

-----------------------------------------------------------------------------
(* A run outside Asking never asked for an approval. *)
Fits(c, w) ==
  /\ w # RunOnly => c.op = "end" /\ c.at \in Asking
  /\ Posts(c) => Len(db.msgs) < MaxMessages
  /\ c.op \in {"accept", "regenerate", "edit"} => Len(db.runs) < MaxRuns
  /\ c.op = "escalate" => Len(db.escs) < MaxEscalations
  /\ c.op = "status" => db.version < MaxVersion

(* What the lock of a row shows a handler: the conversation with its         *)
(* transcript (and, to a request for a human, its escalations), the run it   *)
(* ends or the escalation it is about.  A foreign key only locks.            *)
Seen(v, c, row) ==
  CASE row = Conv ->
         [v EXCEPT !.status = db.status, !.version = db.version, !.msgs = db.msgs,
                   !.escs = IF c.op = "escalate" THEN db.escs ELSE @]
    [] row = Run(c.at) /\ c.op \in {"complete", "end"} -> [v EXCEPT !.runs = db.runs]
    [] row = Esc(c.at) -> [v EXCEPT !.escs = db.escs]
    [] OTHER -> v

(* A transaction that waits for its first row holds nothing, so it begins    *)
(* when that row is free.  What it reads under that lock it reads at once;   *)
(* a call refused on that ground locks no more and is left out.              *)
Begin(t, c, w) ==
  /\ call[t] = Idle
  /\ Fits(c, w)
  /\ Free(FirstRow(c, w))
  /\ w.first = NoApproval => Allowed(c, Seen(NoRows, c, FirstRow(c, w)))
  /\ call' = [call EXCEPT ![t] = c]
  /\ way' = [way EXCEPT ![t] = w]
  /\ held' = [held EXCEPT ![t] = {FirstRow(c, w)}]
  /\ view' = [view EXCEPT ![t] = Seen(NoRows, c, FirstRow(c, w))]
  /\ UNCHANGED db

(* A waiter gets a row when it is free, and reads under its lock. *)
Lock(t) ==
  /\ \E row \in Needs(t) :
       /\ Free(row)
       /\ held' = [held EXCEPT ![t] = @ \cup {row}]
       /\ view' = [view EXCEPT ![t] = Seen(@, call[t], row)]
  /\ UNCHANGED <<db, call, way>>

(* Mutant: a failed transaction is given back to the pool as it is. *)
LeaveLocked(t) ==
  /\ call' = [call EXCEPT ![t] = Idle]
  /\ way' = [way EXCEPT ![t] = RunOnly]
  /\ view' = [view EXCEPT ![t] = NoRows]
  /\ UNCHANGED held

(* The end of a transaction drops its locks. *)
Leave(t) ==
  /\ call' = [call EXCEPT ![t] = Idle]
  /\ way' = [way EXCEPT ![t] = RunOnly]
  /\ view' = [view EXCEPT ![t] = NoRows]
  /\ held' = [held EXCEPT ![t] = {}]

Ready(t) == call[t] # Idle /\ Needs(t) = {}

Proceeds(t) == Allowed(call[t], view[t]) /\ Insertable(call[t], view[t], db)

Commit(t) ==
  /\ Ready(t) /\ Proceeds(t)
  /\ db' = Effect(call[t], view[t], db)
  /\ Leave(t)

(* A refusal throws, a replay returns early: nothing is written. *)
Refuse(t) ==
  /\ Ready(t) /\ ~Proceeds(t)
  /\ UNCHANGED db
  /\ Leave(t)

(* Any statement may fail; the transaction rolls back. *)
Fail(t) ==
  /\ call[t] # Idle
  /\ UNCHANGED db
  /\ Leave(t)

WaitsFor(t, u) == t # u /\ Needs(t) \cap held[u] # {}

(* Each waits for a row of another and none for a row outside the set. *)
Cycle(S) ==
  /\ \A t \in S : \E u \in S : WaitsFor(t, u)
  /\ \A u \in S : \E t \in S : WaitsFor(t, u)

Deadlocked(t) == \E S \in SUBSET Tx : t \in S /\ Cycle(S)

BreakDeadlock == \E t \in Tx : Deadlocked(t) /\ UNCHANGED db /\ Leave(t)

-----------------------------------------------------------------------------
PgNext ==
  \/ \E t \in Tx : \/ \E c \in Calls(db), w \in Ways : Begin(t, c, w)
                   \/ Lock(t) \/ Commit(t) \/ Refuse(t) \/ Fail(t)
  \/ BreakDeadlock

PgSpec == PgInit /\ [][PgNext]_vars

(* Waiters queue for a row, statements return, and a deadlock is looked for  *)
(* after deadlock_timeout.  Only a client's calls are not owed.              *)
FairPgSpec ==
  /\ PgSpec
  /\ \A t \in Tx : SF_vars(Lock(t)) /\ WF_vars(Commit(t) \/ Refuse(t))
  /\ WF_vars(BreakDeadlock)

-----------------------------------------------------------------------------
(* Type invariant. *)
TypeOK ==
  /\ RowsOK
  /\ call \in [Tx -> Requests]
  /\ view \in [Tx -> Rows]
  /\ way \in [Tx -> Ways]
  /\ held \in [Tx -> SUBSET ({"conversation", "escalation", "run", "approval"} \X Nat
                              \X (Approvals \cup {NoApproval}))]
  /\ \A t \in Tx : call[t] = Idle <=> held[t] = {}

(* Every handler is one transaction, and the row locks are enough to make    *)
(* the handlers of a conversation run as if one after the other, although    *)
(* what they decide on was read earlier and under different locks.           *)
Serial == Init /\ [][Next]_db

(* While a human is asked for, nothing resumes the assistant but the         *)
(* resolution, or an operator's change of the status.                        *)
OnlyAPatchResumes ==
  [][db.status = "escalated" /\ db'.status = "active" =>
       Open(db') = {} \/ \E t \in Tx : call[t].op = "status"]_vars

(* The handlers lock in different orders (the run before the conversation,   *)
(* the conversation before a run; an approval before its run, a run before   *)
(* its approvals), so some of them can block each other for good.  Every     *)
(* such circle is two transactions about one run that hold what the other    *)
(* asks for: its request for a human and its completion, or two handlers     *)
(* that lock its approvals.  No longer circle can form, and no other         *)
(* handler is ever the victim.                                               *)
DeadlocksArePairs ==
  \A t \in Tx : Deadlocked(t) =>
    \E u \in Tx : /\ WaitsFor(t, u) /\ WaitsFor(u, t)
                  /\ call[t].at = call[u].at
                  /\ \/ {call[t].op, call[u].op} = {"escalate", "complete"}
                     \/ {call[t].op, call[u].op} = {"end"}

(* Every transaction ends, a deadlocked one too. *)
TransactionsEnd == \A t \in Tx : call[t] # Idle ~> call[t] = Idle
=============================================================================
