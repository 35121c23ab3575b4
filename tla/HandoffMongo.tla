---------------------------- MODULE HandoffMongo ----------------------------
(* The handlers of Conversation on MongoDB: snapshot transactions without    *)
(* read locks.  A transaction reads the rows as they were when it began and  *)
(* aborts with a write conflict if a document it writes has changed since;   *)
(* runInTransaction then runs the whole handler again, a bounded number of   *)
(* times.  Documents it only reads are not protected.                        *)
EXTENDS Conversation

CONSTANTS Tx,          \* the transactions in flight
          MaxAttempts, \* runInTransaction: attempts of one handler
          MaxMessages, MaxRuns, MaxEscalations, MaxVersion  \* bounds

ASSUME BoundAssumption ==
  /\ MaxAttempts \in Nat \ {0}
  /\ {MaxMessages, MaxRuns, MaxEscalations, MaxVersion} \subseteq Nat

VARIABLES call,        \* what a transaction runs, Idle between two
          snapshot,    \* the rows as it sees them
          attempt      \* the attempts begun

vars == <<db, call, snapshot, attempt>>

MongoInit ==
  /\ Init
  /\ call = [t \in Tx |-> Idle]
  /\ snapshot = [t \in Tx |-> NoRows]
  /\ attempt = [t \in Tx |-> 0]

-----------------------------------------------------------------------------
(* Whether a document a call writes is not the one of its snapshot: the      *)
(* conversation, whose version every write bumps; the counter of message     *)
(* numbers; a run or an escalation; a message that is superseded.            *)
ConvChanged(v) == v.version # db.version

CounterChanged(v) == Len(v.msgs) # Len(db.msgs)

(* Mutant: an escalation leaves the conversation's document alone. *)
WritesConvSeldom(c, v) ==
  CASE c.op \in {"end", "claim", "reply", "escalate"} -> FALSE
    [] c.op = "resolve" -> Open(v) \subseteq {c.at} /\ v.status = "escalated"
    [] OTHER -> TRUE

WritesConv(c, v) ==
  CASE c.op \in {"end", "claim", "reply"} -> FALSE
    [] c.op = "escalate" -> v.status = "active"
    [] c.op = "resolve" -> Open(v) \subseteq {c.at} /\ v.status = "escalated"
    [] OTHER -> TRUE

Superseded(c, v) ==
  CASE c.op = "edit" -> c.at
    [] c.op = "complete" -> v.runs[c.at].regenerated
    [] OTHER -> 0

(* Mutant: an escalation's document is read, not written, by its claim. *)
WriteConflictLess(c, v) ==
  \/ WritesConv(c, v) /\ ConvChanged(v)
  \/ Posts(c) /\ CounterChanged(v)
  \/ c.op \in {"complete", "end"} /\ v.runs[c.at] # db.runs[c.at]

WriteConflict(c, v) ==
  \/ WritesConv(c, v) /\ ConvChanged(v)
  \/ Posts(c) /\ CounterChanged(v)
  \/ c.op \in {"complete", "end"} /\ v.runs[c.at] # db.runs[c.at]
  \/ c.op \in {"claim", "resolve"} /\ v.escs[c.at] # db.escs[c.at]
  \/ LET m == Superseded(c, v) IN m # 0 /\ v.msgs[m] # db.msgs[m]

-----------------------------------------------------------------------------
Fits(c) ==
  /\ Posts(c) => Len(db.msgs) < MaxMessages
  /\ c.op \in {"accept", "regenerate", "edit"} => Len(db.runs) < MaxRuns
  /\ c.op = "escalate" => Len(db.escs) < MaxEscalations
  /\ c.op = "status" => db.version < MaxVersion

Leave(t) ==
  /\ call' = [call EXCEPT ![t] = Idle]
  /\ snapshot' = [snapshot EXCEPT ![t] = NoRows]
  /\ attempt' = [attempt EXCEPT ![t] = 0]

Begin(t, c) ==
  /\ call[t] = Idle
  /\ Fits(c) /\ Allowed(c, db)
  /\ call' = [call EXCEPT ![t] = c]
  /\ snapshot' = [snapshot EXCEPT ![t] = db]
  /\ attempt' = [attempt EXCEPT ![t] = 1]
  /\ UNCHANGED db

Proceeds(t) ==
  /\ Allowed(call[t], snapshot[t])
  /\ Insertable(call[t], snapshot[t], db)

Commit(t) ==
  /\ call[t] # Idle
  /\ ~WriteConflict(call[t], snapshot[t])
  /\ Proceeds(t)
  /\ db' = Effect(call[t], snapshot[t], db)
  /\ Leave(t)

(* Mutant: one attempt too many. *)
RetryOnceMore(t) ==
  /\ call[t] # Idle
  /\ attempt[t] <= MaxAttempts
  /\ snapshot[t] # db
  /\ snapshot' = [snapshot EXCEPT ![t] = db]
  /\ attempt' = [attempt EXCEPT ![t] = @ + 1]
  /\ UNCHANGED <<db, call>>

(* A write conflict, or any transient error: the handler runs once more on   *)
(* what is committed by then. *)
Retry(t) ==
  /\ call[t] # Idle
  /\ attempt[t] < MaxAttempts
  /\ snapshot[t] # db
  /\ snapshot' = [snapshot EXCEPT ![t] = db]
  /\ attempt' = [attempt EXCEPT ![t] = @ + 1]
  /\ UNCHANGED <<db, call>>

(* A refusal, another error, or the last attempt failed. *)
Abort(t) ==
  /\ call[t] # Idle
  /\ UNCHANGED db
  /\ Leave(t)

-----------------------------------------------------------------------------
MongoNext ==
  \E t \in Tx : \/ \E c \in Calls(db) : Begin(t, c)
                \/ Commit(t) \/ Retry(t) \/ Abort(t)

MongoSpec == MongoInit /\ [][MongoNext]_vars

-----------------------------------------------------------------------------
(* Type invariant. *)
TypeOK ==
  /\ RowsOK
  /\ call \in [Tx -> Requests]
  /\ snapshot \in [Tx -> Rows]
  /\ attempt \in [Tx -> 0 .. MaxAttempts]
  /\ \A t \in Tx : call[t] = Idle <=> attempt[t] = 0

(* A reply reads its escalation and does not write it, so it may commit      *)
(* after a resolution it did not see.                                        *)
LateReply(e) ==
  /\ db.escs[e].state = "RESOLVED" /\ db.escs[e].closed = Len(db.msgs)
  /\ db' = Reply(db, e)

(* Without a lock the handlers still run as if one after the other, but for  *)
(* one: a human agent's reply may come in right after the resolution, before *)
(* anything else is said.                                                    *)
SerialButLateReply ==
  Init /\ [][Next \/ \E e \in DOMAIN db.escs : LateReply(e)]_db
=============================================================================
