-------------------------- MODULE HandoffMongoProofs --------------------------
(* Write conflicts are enough to make the handlers of HandoffMongo serial,   *)
(* but for a late reply, although nothing they read is locked.               *)
EXTENDS HandoffMongo, ConversationProofs

-----------------------------------------------------------------------------
(* The inductive invariant: the rows are sound, and so is every snapshot,    *)
(* which tells of the rows of now.  Nothing is said of whether the call was  *)
(* allowed: a retry decides anew.                                            *)
Informed(t) ==
  /\ call[t] \in Targets(snapshot[t])
  /\ Sound(snapshot[t]) /\ Since(snapshot[t], db)

MongoInv ==
  /\ TypeOK /\ Sound(db)
  /\ \A t \in Tx : call[t] # Idle => Informed(t)

LEMMA MongoInitInv == MongoInit => MongoInv
<1> SUFFICES ASSUME MongoInit PROVE MongoInv
  OBVIOUS
<1>1. NoRows \in Rows
  BY SoundFirst DEF Sound
<1>2. TypeOK
  BY <1>1, BoundAssumption DEF MongoInit, Init, TypeOK, RowsOK, Idle, Call, Requests
<1> QED
  BY <1>2, SoundFirst DEF MongoInit, Init, MongoInv

(* No write conflict, by what the call writes. *)
LEMMA Unconflicted ==
  ASSUME NEW c, NEW v, ~WriteConflict(c, v)
  PROVE  /\ WritesConv(c, v) => v.version = db.version
         /\ Posts(c) => Len(v.msgs) = Len(db.msgs)
         /\ c.op \in {"complete", "end"} => v.runs[c.at] = db.runs[c.at]
         /\ c.op \in {"claim", "resolve"} => v.escs[c.at] = db.escs[c.at]
  BY DEF WriteConflict, ConvChanged, CounterChanged

(* The user messages before a message of the snapshot are those of now, when *)
(* the conversation's document is.                                           *)
LEMMA SameUsers ==
  ASSUME NEW v \in Rows, NEW d \in Rows, Since(v, d), v.version = d.version,
         NEW m \in Nat, m <= Len(v.msgs) + 1
  PROVE  UsersBefore(v, m) = UsersBefore(d, m)
<1>1. /\ DOMAIN v.msgs = 1 .. Len(v.msgs) /\ DOMAIN d.msgs = 1 .. Len(d.msgs)
      /\ Len(v.msgs) \in Nat /\ Len(d.msgs) \in Nat /\ Len(v.msgs) <= Len(d.msgs)
  BY Fields DEF Since
<1>2. \A i \in DOMAIN v.msgs : d.msgs[i] = v.msgs[i]
  BY DEF Since
<1>3. \A i \in DOMAIN d.msgs : i < m => i \in DOMAIN v.msgs
  BY <1>1
<1>4. DOMAIN v.msgs \subseteq DOMAIN d.msgs
  BY <1>1
<1> QED
  BY <1>2, <1>3, <1>4 DEF UsersBefore

(* What a handler decides on its snapshot it would decide on the rows, unless *)
(* it is a reply to an escalation resolved meanwhile. *)
LEMMA DecidesTheSame ==
  ASSUME NEW c, NEW v, Sound(v), Sound(db), Since(v, db), c \in Targets(v),
         ~WriteConflict(c, v), Allowed(c, v), Insertable(c, v, db),
         db' = Effect(c, v, db)
  PROVE  \/ \E k \in Calls(db) : Handle(k)
         \/ \E e \in DOMAIN db.escs : LateReply(e)
<1>1. /\ v \in Rows /\ db \in Rows /\ c \in Targets(db)
      /\ c.op # "escalate" => c \in Calls(db)
  <2>1. v \in Rows /\ db \in Rows /\ Grows(v, db)
    BY DEF Sound, Since
  <2>2. c \in Targets(db)
    BY <2>1, TargetsStay
  <2> QED
    BY <2>1, <2>2, TargetCases
<1>2. /\ Len(v.msgs) \in Nat /\ Len(db.msgs) \in Nat
      /\ DOMAIN v.msgs = 1 .. Len(v.msgs) /\ DOMAIN db.msgs = 1 .. Len(db.msgs)
  BY <1>1, Fields
<1>3. v.version = db.version
        => /\ v.status = db.status /\ DOMAIN v.escs = DOMAIN db.escs
           /\ \A i \in DOMAIN v.msgs : db.msgs[i] = v.msgs[i]
  BY DEF Since
<1>4. ASSUME c.op # "escalate", Allowed(c, db), Insertable(c, db, db),
             Effect(c, v, db) = Effect(c, db, db)
      PROVE  \E k \in Calls(db) : Handle(k)
  BY <1>1, <1>4 DEF Handle
<1>5. CASE c.op = "accept"
  <2>1. v.version = db.version /\ Len(v.msgs) = Len(db.msgs) /\ v.status = db.status
    BY <1>3, <1>5, Unconflicted DEF WritesConv, Posts
  <2>2. Allowed(c, db) /\ Insertable(c, db, db)
    BY <1>5, <2>1 DEF Allowed, CanAccept, Insertable, StartsRun
  <2>3. Accept(v, db) = Accept(db, db)
    BY <2>1 DEF Accept, Bump, NextNumber
  <2> QED
    BY <1>4, <1>5, <2>2, <2>3 DEF Effect
<1>6. CASE c.op = "regenerate"
  <2>1. v.version = db.version /\ v.status = db.status
    BY <1>3, <1>6, Unconflicted DEF WritesConv
  <2>2. c.at \in DOMAIN v.msgs /\ c.at \in Nat /\ c.at <= Len(v.msgs) + 1
    BY <1>1, <1>2, <1>6, TargetCases
  <2>3. UsersBefore(v, c.at) = UsersBefore(db, c.at) /\ db.msgs[c.at] = v.msgs[c.at]
    BY <1>1, <1>3, <2>1, <2>2, SameUsers
  <2>4. Allowed(c, db) /\ Insertable(c, db, db)
    BY <1>6, <2>1, <2>3 DEF Allowed, CanRegenerate, Insertable, StartsRun, Posts
  <2>5. Regenerate(v, db, c.at) = Regenerate(db, db, c.at)
    BY <2>1, <2>3 DEF Regenerate, Bump
  <2> QED
    BY <1>4, <1>6, <2>4, <2>5 DEF Effect
<1>7. CASE c.op = "edit"
  <2>1. v.version = db.version /\ v.status = db.status /\ Len(v.msgs) = Len(db.msgs)
    BY <1>3, <1>7, Unconflicted DEF WritesConv, Posts
  <2>2. /\ NextNumber(v) = NextNumber(db) /\ NextNumber(v) \in Nat
        /\ NextNumber(v) <= Len(v.msgs) + 1
    BY <1>2, <2>1 DEF NextNumber
  <2>3. UsersBefore(v, NextNumber(v)) = UsersBefore(db, NextNumber(db))
    BY <1>1, <2>1, <2>2, SameUsers
  <2>4. Allowed(c, db) /\ Insertable(c, db, db)
    BY <1>7, <2>1, <2>2, <2>3 DEF Allowed, CanEdit, Insertable, StartsRun, Posts
  <2>5. Edit(v, db, c.at) = Edit(db, db, c.at)
    BY <2>1, <2>2 DEF Edit, Bump
  <2> QED
    BY <1>4, <1>7, <2>4, <2>5 DEF Effect
<1>8. CASE c.op = "complete"
  <2>1. /\ v.version = db.version /\ Len(v.msgs) = Len(db.msgs)
        /\ v.runs[c.at] = db.runs[c.at]
    BY <1>8, Unconflicted DEF WritesConv, Posts
  <2>2. Allowed(c, db) /\ Insertable(c, db, db)
    BY <1>8, <2>1 DEF Allowed, CanComplete, Insertable, StartsRun
  <2>3. Complete(v, db, c.at) = Complete(db, db, c.at)
    BY <2>1 DEF Complete, Bump, NextNumber
  <2> QED
    BY <1>4, <1>8, <2>2, <2>3 DEF Effect
<1>9. CASE c.op = "end"
  <2>1. v.runs[c.at] = db.runs[c.at]
    BY <1>9, Unconflicted
  <2>2. Allowed(c, db) /\ Insertable(c, db, db)
    BY <1>9, <2>1 DEF Allowed, CanEnd, Insertable, StartsRun, Posts
  <2> QED
    BY <1>4, <1>9, <2>2 DEF Effect
<1>10. CASE c.op = "escalate"
  <2> DEFINE k == Call("escalate", 0, "none")
  <2>1. k \in Calls(db) /\ k.op = "escalate"
    BY DEF Calls, Call
  <2>2. v.status = "active" /\ Open(v) = {}
    BY <1>1, <1>10, Fields DEF Allowed, CanEscalate, Sound, Statuses
  <2>3. v.version = db.version /\ db.status = "active" /\ DOMAIN v.escs = DOMAIN db.escs
    BY <1>3, <1>10, <2>2, Unconflicted DEF WritesConv
  <2>4. Open(db) = {}
    BY <2>2, <2>3 DEF Since, Open, Resolved
  <2> HIDE DEF k
  <2>5. Allowed(k, db) /\ Insertable(k, db, db)
    BY <2>1, <2>3, <2>4 DEF Allowed, CanEscalate, Insertable, StartsRun, Posts
  <2>6. Escalate(v, db) = Escalate(db, db)
    BY <2>2, <2>3 DEF Escalate, Bump
  <2>7. Effect(k, db, db) = Escalate(db, db) /\ Effect(c, v, db) = Escalate(v, db)
    BY <1>10, <2>1 DEF Effect
  <2> QED
    BY <2>1, <2>5, <2>6, <2>7 DEF Handle
<1>11. CASE c.op = "claim"
  <2>1. v.escs[c.at] = db.escs[c.at]
    BY <1>11, Unconflicted
  <2>2. Allowed(c, db) /\ Insertable(c, db, db)
    BY <1>11, <2>1 DEF Allowed, CanClaim, Insertable, StartsRun, Posts
  <2> QED
    BY <1>4, <1>11, <2>2 DEF Effect
<1>12. CASE c.op = "resolve"
  <2>1. /\ v.escs[c.at] = db.escs[c.at] /\ c.at \in DOMAIN v.escs /\ c.at \in DOMAIN db.escs
        /\ v.escs[c.at].state = "CLAIMED"
    BY <1>1, <1>12, Unconflicted, TargetCases DEF Allowed, CanResolve
  <2>2. c.at \in Open(v) /\ c.at \in Open(db)
    BY <2>1 DEF Open
  <2>3. Open(v) \subseteq {c.at} /\ Open(db) \subseteq {c.at}
    BY <2>2 DEF Sound
  <2>4. Allowed(c, db) /\ Insertable(c, db, db)
    BY <1>12, <2>1 DEF Allowed, CanResolve, Insertable, StartsRun, Posts
  <2>5. v.status = "escalated" => v.version = db.version /\ db.status = "escalated"
    BY <1>3, <1>12, <2>3, Unconflicted DEF WritesConv
  <2>6. db.status = "escalated" => v.status = "escalated"
    BY <2>2 DEF Since
  <2>7. Resolve(v, db, c.at) = Resolve(db, db, c.at)
    <3>1. CASE v.status = "escalated"
      <4>1. v.version = db.version /\ db.status = "escalated"
        BY <2>5, <3>1
      <4> QED
        BY <2>3, <3>1, <4>1 DEF Resolve, Bump
    <3>2. CASE v.status # "escalated"
      BY <2>6, <3>2 DEF Resolve
    <3> QED
      BY <3>1, <3>2
  <2> QED
    BY <1>4, <1>12, <2>4, <2>7 DEF Effect
<1>13. CASE c.op = "reply"
  <2>1. Len(v.msgs) = Len(db.msgs) /\ c.at \in DOMAIN v.escs /\ c.at \in DOMAIN db.escs
    BY <1>1, <1>13, Unconflicted, TargetCases DEF Posts
  <2>2. c.at \in Open(v) /\ db' = Reply(db, c.at)
    BY <1>13, <2>1 DEF Allowed, CanReply, Open, Effect
  <2>3. CASE db.escs[c.at].state = "RESOLVED"
    <3>1. c.at \in Resolved(db) /\ db.escs[c.at] \in Escalations
      BY <1>1, <2>1, <2>3, Fields DEF Resolved
    <3>2. db.escs[c.at].closed \in Nat
      BY <3>1 DEF Escalations
    <3>3. Len(v.msgs) <= db.escs[c.at].closed /\ db.escs[c.at].closed <= Len(db.msgs)
      BY <2>2, <3>1 DEF Since, Sound
    <3>4. LateReply(c.at)
      BY <1>2, <2>1, <2>2, <2>3, <3>2, <3>3 DEF LateReply
    <3> QED
      BY <2>1, <3>4
  <2>4. CASE db.escs[c.at].state # "RESOLVED"
    <3>1. Allowed(c, db) /\ Insertable(c, db, db)
      BY <1>13, <2>4 DEF Allowed, CanReply, Insertable, StartsRun
    <3> QED
      BY <1>4, <1>13, <3>1 DEF Effect
  <2> QED
    BY <2>3, <2>4
<1>14. CASE c.op = "status"
  <2>1. v.version = db.version
    BY <1>14, Unconflicted DEF WritesConv
  <2>2. Allowed(c, db) /\ Insertable(c, db, db)
    BY <1>14 DEF Allowed, Insertable, StartsRun, Posts
  <2>3. SetStatus(v, db, c.arg) = SetStatus(db, db, c.arg)
    BY <2>1 DEF SetStatus, Bump
  <2> QED
    BY <1>4, <1>14, <2>2, <2>3 DEF Effect
<1> QED
  BY <1>1, <1>5, <1>6, <1>7, <1>8, <1>9, <1>10, <1>11, <1>12, <1>13, <1>14, TargetCases

-----------------------------------------------------------------------------
(* Each step keeps the invariant. *)

LEMMA BeginKeeps ==
  ASSUME MongoInv, NEW t \in Tx, NEW c \in Calls(db), Begin(t, c)
  PROVE  MongoInv'
<1>1. /\ db' = db /\ call' = [call EXCEPT ![t] = c]
      /\ snapshot' = [snapshot EXCEPT ![t] = db]
      /\ attempt' = [attempt EXCEPT ![t] = 1]
  BY DEF Begin
<1>2. TypeOK /\ Sound(db) /\ db \in Rows /\ c \in Targets(db)
  BY DEF MongoInv, Sound, Targets
<1>3. c \in Requests /\ c # Idle /\ 1 \in 0 .. MaxAttempts
  BY <1>2, TargetCases, BoundAssumption
<1>4. TypeOK'
  BY <1>1, <1>2, <1>3 DEF TypeOK, RowsOK
<1>5. Informed(t)'
  BY <1>1, <1>2, SinceItself DEF Informed, TypeOK
<1>6. ASSUME NEW u \in Tx, u # t, call'[u] # Idle PROVE Informed(u)'
  BY <1>1, <1>2, <1>6 DEF MongoInv, Informed, TypeOK
<1> QED
  BY <1>1, <1>2, <1>4, <1>5, <1>6 DEF MongoInv

LEMMA RetryKeeps ==
  ASSUME MongoInv, NEW t \in Tx, Retry(t)
  PROVE  MongoInv'
<1>1. /\ db' = db /\ call' = call /\ call[t] # Idle /\ attempt[t] < MaxAttempts
      /\ snapshot' = [snapshot EXCEPT ![t] = db]
      /\ attempt' = [attempt EXCEPT ![t] = attempt[t] + 1]
  BY DEF Retry
<1>2. TypeOK /\ Sound(db) /\ db \in Rows /\ Informed(t) /\ snapshot[t] \in Rows
  BY <1>1 DEF MongoInv, Sound, TypeOK
<1>3. attempt[t] + 1 \in 0 .. MaxAttempts /\ attempt[t] + 1 # 0
  BY <1>1, <1>2, BoundAssumption DEF TypeOK
<1>4. TypeOK'
  BY <1>1, <1>2, <1>3 DEF TypeOK, RowsOK
<1>5. call[t] \in Targets(db)
  BY <1>2, TargetsStay DEF Informed, Since
<1>6. Informed(t)'
  BY <1>1, <1>2, <1>5, SinceItself DEF Informed, TypeOK
<1>7. ASSUME NEW u \in Tx, u # t, call'[u] # Idle PROVE Informed(u)'
  BY <1>1, <1>2, <1>7 DEF MongoInv, Informed, TypeOK
<1> QED
  BY <1>1, <1>2, <1>4, <1>6, <1>7 DEF MongoInv

(* A transaction that ends leaves what the others read true, whether it      *)
(* wrote or not. *)
LEMMA LeaveKeeps ==
  ASSUME MongoInv, NEW t \in Tx, Leave(t), Sound(db'), Since(db, db')
  PROVE  MongoInv'
<1>1. /\ call' = [call EXCEPT ![t] = Idle]
      /\ snapshot' = [snapshot EXCEPT ![t] = NoRows]
      /\ attempt' = [attempt EXCEPT ![t] = 0]
  BY DEF Leave
<1>2. /\ TypeOK /\ Sound(db) /\ db \in Rows /\ db' \in Rows /\ NoRows \in Rows
      /\ Idle \in Requests
  BY SoundFirst DEF MongoInv, Sound, Idle, Call, Requests
<1>3. TypeOK'
  BY <1>1, <1>2, BoundAssumption DEF TypeOK, RowsOK
<1>4. ASSUME NEW u \in Tx, call'[u] # Idle PROVE Informed(u)'
  <2>1. u # t /\ call'[u] = call[u] /\ snapshot'[u] = snapshot[u] /\ Informed(u)
    BY <1>1, <1>2, <1>4 DEF MongoInv, TypeOK
  <2>2. Since(snapshot[u], db')
    BY <1>2, <2>1, SinceLonger DEF Informed, Sound
  <2> QED
    BY <2>1, <2>2 DEF Informed
<1> QED
  BY <1>3, <1>4 DEF MongoInv

LEMMA CommitIsSerial ==
  ASSUME MongoInv, NEW t \in Tx, Commit(t)
  PROVE  Next \/ \E e \in DOMAIN db.escs : LateReply(e)
<1>1. Informed(t) /\ Sound(db)
  BY DEF MongoInv, Commit
<1> QED
  BY <1>1, DecidesTheSame DEF Commit, Proceeds, Informed, Next

LEMMA CommitKeeps ==
  ASSUME MongoInv, NEW t \in Tx, Commit(t)
  PROVE  MongoInv'
<1>1. Sound(db) /\ Leave(t) /\ db \in Rows
  BY DEF MongoInv, Commit, Sound
<1>2. CASE Next
  BY <1>1, <1>2, HandlerSound, LeaveKeeps DEF Next
<1>3. ASSUME NEW e \in DOMAIN db.escs, LateReply(e) PROVE MongoInv'
  <2>1. e \in Nat
    BY <1>1, Fields
  <2> QED
    BY <1>1, <1>3, <2>1, ReplySound, LeaveKeeps DEF LateReply
<1> QED
  BY <1>2, <1>3, CommitIsSerial

LEMMA StepKeeps == MongoInv /\ [MongoNext]_vars => MongoInv'
<1> SUFFICES ASSUME MongoInv, [MongoNext]_vars PROVE MongoInv'
  OBVIOUS
<1>1. ASSUME NEW t \in Tx, Abort(t) PROVE MongoInv'
  <2>1. Sound(db') /\ Since(db, db') /\ Leave(t)
    BY <1>1, SinceItself DEF MongoInv, Sound, Abort
  <2> QED
    BY <2>1, LeaveKeeps
<1>2. CASE UNCHANGED vars
  BY <1>2 DEF vars, MongoInv, TypeOK, RowsOK, Informed
<1> QED
  BY <1>1, <1>2, BeginKeeps, RetryKeeps, CommitKeeps DEF MongoNext

LEMMA MongoInvariant == MongoSpec => []MongoInv
  BY MongoInitInv, StepKeeps, PTL DEF MongoSpec

LEMMA StepIsSerial ==
  MongoInv /\ [MongoNext]_vars => [Next \/ \E e \in DOMAIN db.escs : LateReply(e)]_db
<1> SUFFICES ASSUME MongoInv, [MongoNext]_vars
             PROVE  Next \/ (\E e \in DOMAIN db.escs : LateReply(e)) \/ db' = db
  OBVIOUS
<1>1. ASSUME NEW t \in Tx, (\E c \in Calls(db) : Begin(t, c)) \/ Retry(t) \/ Abort(t)
      PROVE  db' = db
  BY <1>1 DEF Begin, Retry, Abort
<1> QED
  BY <1>1, CommitIsSerial DEF MongoNext, vars

-----------------------------------------------------------------------------
(* The theorems. *)

(* Rows, calls and snapshots keep their types, and no handler is attempted   *)
(* more often than runInTransaction allows. *)
THEOREM MongoTypes == MongoSpec => []TypeOK
<1>1. MongoInv => TypeOK
  BY DEF MongoInv
<1> QED
  BY <1>1, MongoInvariant, PTL

(* However many transactions ask for a human at once, one escalation is open *)
(* at a time: the conversation's document stands in for a unique index.      *)
THEOREM OneEscalationOpen == MongoSpec => []OneOpen
<1>1. MongoInv => OneOpen
  BY DEF MongoInv, Sound, OneOpen
<1> QED
  BY <1>1, MongoInvariant, PTL

(* A paused conversation always has an open escalation. *)
THEOREM PausedConversationsHaveOwners == MongoSpec => []PausedHasOwner
<1>1. MongoInv => PausedHasOwner
  BY DEF MongoInv, Sound, PausedHasOwner
<1> QED
  BY <1>1, MongoInvariant, PTL

(* Snapshots and write conflicts make the handlers serial, but for a reply   *)
(* that comes in right after the resolution it did not see.                  *)
THEOREM HandlersAreSerial == MongoSpec => SerialButLateReply
<1>1. MongoInit => Init
  BY DEF MongoInit
<1> QED
  BY <1>1, MongoInvariant, StepIsSerial, PTL DEF MongoSpec, SerialButLateReply

LEMMA LateReplyKeepsChains ==
  ASSUME ChainInv, NEW e \in DOMAIN db.escs, LateReply(e)
  PROVE  ChainInv'
<1>1. e \in Nat
  BY Fields DEF ChainInv, RowsOK
<1> QED
  BY <1>1, ReplyKeepsChains DEF LateReply

LEMMA SerialReplyKeepsChains ==
  ChainInv /\ [Next \/ \E e \in DOMAIN db.escs : LateReply(e)]_db => ChainInv'
  BY SerialKeepsChains, LateReplyKeepsChains

(* Branches stay chains in this lane too: the late reply starts no branch.   *)
THEOREM BranchesStayChains == MongoSpec => []BranchesAreChains
<1>1. SerialButLateReply => []ChainInv
  BY ChainInitInv, SerialReplyKeepsChains, PTL DEF SerialButLateReply
<1> QED
  BY <1>1, HandlersAreSerial, ChainsFollow, PTL
=============================================================================
