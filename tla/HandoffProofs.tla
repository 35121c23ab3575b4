---------------------------- MODULE HandoffProofs ----------------------------
(* The row locks of HandoffPg make the handlers of a conversation serial.    *)
EXTENDS HandoffPg, ConversationProofs

-----------------------------------------------------------------------------
(* The inductive invariant.  What a transaction has read under a lock it     *)
(* holds is still so: the conversation's row and transcript under Conv, the  *)
(* run it ends under that run, the escalation of a resolution; and although  *)
(* it locks no escalation, a request for a human has none to fear while it   *)
(* holds the conversation, as only such a request opens one.  It has no more *)
(* than its first row before it has its second, and the rest after both.     *)
Current(t) ==
  LET c == call[t]
      v == view[t]
      w == way[t]
  IN  /\ c \in Targets(db)
      /\ FirstRow(c, w) \in held[t]
      /\ held[t] = {FirstRow(c, w)} \/ SecondRow(c, v) \subseteq held[t]
      /\ held[t] \subseteq {FirstRow(c, w)} \cup SecondRow(c, v) \cup LaterRows(c, w)
      /\ c.op # "end" => w = RunOnly /\ Allowed(c, v)
      /\ Conv \in held[t] => /\ v.status = db.status /\ v.version = db.version
                             /\ v.msgs = db.msgs
      /\ c.op \in {"complete", "end"} /\ Run(c.at) \in held[t]
           => v.runs[c.at] = db.runs[c.at]
      /\ c.op \in {"claim", "resolve", "reply"} => v.escs[c.at] = db.escs[c.at]
      /\ c.op = "escalate" => Open(db) = {}
      /\ c.op = "resolve" => Open(v) = {c.at}

PgInv ==
  /\ TypeOK /\ OneOpen /\ PausedHasOwner
  /\ \A t, u \in Tx : t # u => held[t] \cap held[u] = {}
  /\ \A t \in Tx : call[t] # Idle => Current(t)

LEMMA PgInitInv == PgInit => PgInv
<1> SUFFICES ASSUME PgInit PROVE PgInv
  OBVIOUS
<1> USE DEF PgInit, Init
<1>1. NoRows \in Rows
  BY DEF NoRows, Rows, Statuses
<1>2. Open(NoRows) = {}
  BY DEF Open, NoRows
<1>3. TypeOK
  BY <1>1 DEF TypeOK, RowsOK, Idle, Call, Requests, Ways, RunOnly
<1>4. OneOpen /\ PausedHasOwner
  BY <1>2 DEF OneOpen, PausedHasOwner, NoRows
<1> QED
  BY <1>3, <1>4 DEF PgInv

LEMMA ReadyRows ==
  ASSUME NEW t \in Tx, Needs(t) = {}
  PROVE  SecondRow(call[t], view[t]) \subseteq held[t]
  BY DEF Needs

(* What a handler decides on a current view it would decide on the rows. *)
LEMMA DecidesTheSame ==
  ASSUME PgInv, NEW t \in Tx, Ready(t), Proceeds(t)
  PROVE  /\ call[t].op # "escalate"
              => /\ Allowed(call[t], db) /\ Insertable(call[t], db, db)
                 /\ Effect(call[t], view[t], db) = Effect(call[t], db, db)
         /\ call[t].op = "escalate"
              => /\ Allowed(Call("escalate", 0, "none"), db)
                 /\ Insertable(Call("escalate", 0, "none"), db, db)
                 /\ Effect(call[t], view[t], db)
                      = Effect(Call("escalate", 0, "none"), db, db)
<1> DEFINE c == call[t]
           v == view[t]
<1>1. Current(t) /\ db \in Rows /\ v \in Rows
  BY DEF PgInv, Ready, TypeOK, RowsOK
<1>2. Allowed(c, v) /\ Insertable(c, v, db) /\ c \in Targets(db)
  BY <1>1 DEF Proceeds, Current
<1>3. Conv \in held[t] => v.status = db.status /\ v.version = db.version /\ v.msgs = db.msgs
  BY <1>1 DEF Current
<1>4. FirstRow(c, way[t]) \in held[t] /\ SecondRow(c, v) \subseteq held[t]
  BY <1>1, ReadyRows DEF Current, Ready
<1>5. CASE c.op = "accept"
  <2>1. v.status = db.status /\ v.version = db.version /\ v.msgs = db.msgs
    BY <1>3, <1>4, <1>5 DEF FirstRow
  <2>2. Allowed(c, db) /\ Insertable(c, db, db)
    BY <1>2, <1>5, <2>1 DEF Allowed, CanAccept, Insertable, StartsRun, Posts
  <2>3. Accept(v, db) = Accept(db, db)
    BY <2>1 DEF Accept, Bump, NextNumber
  <2> QED
    BY <1>5, <2>2, <2>3 DEF Effect
<1>6. CASE c.op = "regenerate"
  <2>1. v.status = db.status /\ v.version = db.version /\ v.msgs = db.msgs
    BY <1>3, <1>4, <1>6 DEF FirstRow
  <2>2. Allowed(c, db) /\ Insertable(c, db, db)
    BY <1>2, <1>6, <2>1 DEF Allowed, CanRegenerate, UsersBefore, Insertable, StartsRun, Posts
  <2>3. Regenerate(v, db, c.at) = Regenerate(db, db, c.at)
    BY <2>1 DEF Regenerate, Bump, UsersBefore
  <2> QED
    BY <1>6, <2>2, <2>3 DEF Effect
<1>7. CASE c.op = "edit"
  <2>1. v.status = db.status /\ v.version = db.version /\ v.msgs = db.msgs
    BY <1>3, <1>4, <1>7 DEF FirstRow
  <2>2. Allowed(c, db) /\ Insertable(c, db, db)
    BY <1>2, <1>7, <2>1 DEF Allowed, CanEdit, UsersBefore, NextNumber, Insertable, StartsRun,
                            Posts
  <2>3. Edit(v, db, c.at) = Edit(db, db, c.at)
    BY <2>1 DEF Edit, Bump, NextNumber
  <2> QED
    BY <1>7, <2>2, <2>3 DEF Effect
<1>8. CASE c.op = "complete"
  <2>1. v.status = db.status /\ v.version = db.version /\ v.msgs = db.msgs
    BY <1>3, <1>4, <1>8 DEF SecondRow
  <2>2. v.runs[c.at] = db.runs[c.at]
    BY <1>1, <1>4, <1>8 DEF Current, FirstRow
  <2>3. Allowed(c, db) /\ Insertable(c, db, db)
    BY <1>2, <1>8, <2>1, <2>2 DEF Allowed, CanComplete, Insertable, StartsRun, Posts
  <2>4. Complete(v, db, c.at) = Complete(db, db, c.at)
    BY <2>1, <2>2 DEF Complete, Bump, NextNumber
  <2> QED
    BY <1>8, <2>3, <2>4 DEF Effect
<1>9. CASE c.op = "end"
  <2>1. v.runs[c.at] = db.runs[c.at]
    BY <1>1, <1>4, <1>9 DEF Current, SecondRow
  <2>2. Allowed(c, db) /\ Insertable(c, db, db)
    BY <1>2, <1>9, <2>1 DEF Allowed, CanEnd, Insertable, StartsRun, Posts
  <2> QED
    BY <1>9, <2>2 DEF Effect
<1>10. CASE c.op = "escalate"
  <2> DEFINE e == Call("escalate", 0, "none")
  <2>1. v.status = db.status /\ v.version = db.version
    BY <1>3, <1>4, <1>10 DEF FirstRow
  <2>2. Open(db) = {} /\ e.op = "escalate"
    BY <1>1, <1>10 DEF Current, Call
  <2>3. Allowed(e, db) /\ Insertable(e, db, db)
    BY <1>2, <1>10, <2>1, <2>2 DEF Allowed, CanEscalate, Insertable, StartsRun, Posts
  <2>4. Escalate(v, db) = Escalate(db, db)
    BY <2>1 DEF Escalate, Bump
  <2>5. Effect(c, v, db) = Escalate(v, db) /\ Effect(e, db, db) = Escalate(db, db)
    BY <1>10, <2>2 DEF Effect
  <2> QED
    BY <1>10, <2>3, <2>4, <2>5
<1>11. CASE c.op = "claim"
  <2>1. v.escs[c.at] = db.escs[c.at]
    BY <1>1, <1>11 DEF Current
  <2>2. Allowed(c, db) /\ Insertable(c, db, db)
    BY <1>2, <1>11, <2>1 DEF Allowed, CanClaim, Insertable, StartsRun, Posts
  <2> QED
    BY <1>11, <2>2 DEF Effect
<1>12. CASE c.op = "resolve"
  <2>1. v.escs[c.at] = db.escs[c.at] /\ Open(v) = {c.at} /\ c.at \in DOMAIN db.escs
    BY <1>1, <1>12, TargetCases DEF Current
  <2>2. v.status = db.status /\ v.version = db.version
    BY <1>3, <1>4, <1>12, <2>1 DEF SecondRow
  <2>3. Allowed(c, db) /\ Insertable(c, db, db)
    BY <1>2, <1>12, <2>1 DEF Allowed, CanResolve, Insertable, StartsRun, Posts
  <2>4. c.at \in Open(db)
    BY <1>12, <2>1, <2>3 DEF Allowed, CanResolve, Open
  <2>5. Open(db) = {c.at}
    BY <2>4 DEF PgInv, OneOpen
  <2>6. Resolve(v, db, c.at) = Resolve(db, db, c.at)
    BY <2>1, <2>2, <2>5 DEF Resolve, Bump
  <2> QED
    BY <1>12, <2>3, <2>6 DEF Effect
<1>13. CASE c.op = "reply"
  <2>1. v.escs[c.at] = db.escs[c.at]
    BY <1>1, <1>13 DEF Current
  <2>2. Allowed(c, db) /\ Insertable(c, db, db)
    BY <1>2, <1>13, <2>1 DEF Allowed, CanReply, Insertable, StartsRun, Posts
  <2> QED
    BY <1>13, <2>2 DEF Effect
<1>14. CASE c.op = "status"
  <2>1. v.version = db.version
    BY <1>3, <1>4, <1>14 DEF FirstRow
  <2>2. Allowed(c, db) /\ Insertable(c, db, db)
    BY <1>14 DEF Allowed, Insertable, StartsRun, Posts
  <2>3. SetStatus(v, db, c.arg) = SetStatus(db, db, c.arg)
    BY <2>1 DEF SetStatus, Bump
  <2> QED
    BY <1>14, <2>2, <2>3 DEF Effect
<1> QED
  BY <1>1, <1>2, <1>5, <1>6, <1>7, <1>8, <1>9, <1>10, <1>11, <1>12, <1>13, <1>14, TargetCases

(* What a commit leaves alone, and that it keeps the invariants of the rows. *)
LEMMA CommitRows ==
  ASSUME PgInv, NEW t \in Tx, Commit(t)
  PROVE  /\ db' \in Rows /\ Grows(db, db')
         /\ Conv \notin held[t] => /\ db'.status = db.status /\ db'.version = db.version
                                   /\ db'.msgs = db.msgs /\ Open(db') \subseteq Open(db)
         /\ \A r \in DOMAIN db.runs : Run(r) \notin held[t] => db'.runs[r] = db.runs[r]
         /\ \A e \in DOMAIN db.escs : Esc(e) \notin held[t] => db'.escs[e] = db.escs[e]
         /\ OneOpen' /\ PausedHasOwner'
         /\ db'.status = "active" => \/ db.status = "active" \/ Open(db') = {}
                                    \/ call[t].op = "status"
<1> DEFINE c == call[t]
           v == view[t]
           d == db
<1>1. Current(t) /\ d \in Rows /\ v \in Rows /\ Ready(t)
  BY DEF PgInv, Commit, Ready, TypeOK, RowsOK
<1>2. Allowed(c, v) /\ c \in Targets(d) /\ db' = Effect(c, v, d)
  BY <1>1 DEF Commit, Proceeds, Current
<1>3. Conv \in held[t] => v.status = d.status /\ v.msgs = d.msgs
  BY <1>1 DEF Current
<1>4. FirstRow(c, way[t]) \in held[t] /\ SecondRow(c, v) \subseteq held[t]
  BY <1>1, ReadyRows DEF Current, Ready
<1>5. OneOpen /\ PausedHasOwner
  BY DEF PgInv
<1>6. ASSUME db'.escs = d.escs PROVE Open(db') = Open(d)
  BY <1>6 DEF Open
<1>7. \A e, f \in DOMAIN d.escs \cup DOMAIN d.runs : Esc(e) # Run(f)
  BY DEF Esc, Run
<1>8. CASE c.op = "accept"
  <2>1. Conv \in held[t] /\ db' = Accept(v, d)
    BY <1>2, <1>4, <1>8 DEF FirstRow, Effect
  <2>2. /\ db' \in Rows /\ Grows(d, db') /\ db'.escs = d.escs /\ db'.status = d.status
        /\ \A r \in DOMAIN d.runs : db'.runs[r] = d.runs[r]
    BY <1>1, <2>1, AcceptRows
  <2> QED
    BY <1>5, <1>6, <2>1, <2>2 DEF OneOpen, PausedHasOwner
<1>9. CASE c.op = "regenerate"
  <2>1. Conv \in held[t] /\ db' = Regenerate(v, d, c.at)
    BY <1>2, <1>4, <1>9 DEF FirstRow, Effect
  <2>2. c.at \in DOMAIN v.msgs /\ c.at \in Nat
    BY <1>1, <1>2, <1>3, <1>9, <2>1, TargetCases DEF Requests
  <2>3. UsersBefore(v, c.at) # {}
    BY <1>2, <1>9 DEF Allowed, CanRegenerate
  <2>4. Newest(UsersBefore(v, c.at)) \in Nat
    BY <1>1, <2>2, <2>3, NewestUser
  <2>5. /\ db' \in Rows /\ Grows(d, db') /\ db'.escs = d.escs /\ db'.status = d.status
        /\ \A r \in DOMAIN d.runs : db'.runs[r] = d.runs[r]
    BY <1>1, <2>1, <2>2, <2>4, RegenerateRows
  <2> QED
    BY <1>5, <1>6, <2>1, <2>5 DEF OneOpen, PausedHasOwner
<1>10. CASE c.op = "edit"
  <2>1. Conv \in held[t] /\ db' = Edit(v, d, c.at) /\ c.at \in DOMAIN d.msgs
    BY <1>1, <1>2, <1>4, <1>10, TargetCases DEF FirstRow, Effect
  <2>2. /\ db' \in Rows /\ Grows(d, db') /\ db'.escs = d.escs /\ db'.status = d.status
        /\ \A r \in DOMAIN d.runs : db'.runs[r] = d.runs[r]
    BY <1>1, <2>1, EditRows
  <2> QED
    BY <1>5, <1>6, <2>1, <2>2 DEF OneOpen, PausedHasOwner
<1>11. CASE c.op = "complete"
  <2>1. /\ Conv \in held[t] /\ Run(c.at) \in held[t] /\ db' = Complete(v, d, c.at)
        /\ c.at \in DOMAIN d.runs /\ v.runs[c.at] = d.runs[c.at]
    BY <1>1, <1>2, <1>4, <1>11, TargetCases DEF FirstRow, SecondRow, Effect, Current
  <2>2. /\ db' \in Rows /\ Grows(d, db') /\ db'.escs = d.escs /\ db'.status = d.status
        /\ \A q \in DOMAIN d.runs : q # c.at => db'.runs[q] = d.runs[q]
    BY <1>1, <2>1, CompleteRows, SMTT(30)
  <2> QED
    BY <1>5, <1>6, <2>1, <2>2 DEF OneOpen, PausedHasOwner
<1>12. CASE c.op = "end"
  <2>1. /\ Run(c.at) \in held[t] /\ db' = End(d, c.at) /\ c.at \in DOMAIN d.runs
    BY <1>1, <1>2, <1>4, <1>12, TargetCases DEF SecondRow, Effect
  <2>2. /\ db' \in Rows /\ Grows(d, db') /\ db'.escs = d.escs /\ db'.status = d.status
        /\ db'.msgs = d.msgs /\ db'.version = d.version
        /\ \A q \in DOMAIN d.runs : q # c.at => db'.runs[q] = d.runs[q]
    BY <1>1, <2>1, EndRows
  <2> QED
    BY <1>5, <1>6, <2>1, <2>2 DEF OneOpen, PausedHasOwner
<1>13. CASE c.op = "escalate"
  <2>1. Conv \in held[t] /\ db' = Escalate(v, d) /\ Open(d) = {} /\ v.status = d.status
    BY <1>1, <1>2, <1>3, <1>4, <1>13 DEF FirstRow, Effect, Current
  <2>2. /\ db' \in Rows /\ Grows(d, db') /\ db'.runs = d.runs
        /\ \A e \in DOMAIN d.escs : db'.escs[e] = d.escs[e]
        /\ Open(db') = {Len(d.escs) + 1}
        /\ db'.status = "active" => d.status = "active"
    BY <1>1, <2>1, EscalateRows
  <2>3. OneOpen' /\ PausedHasOwner'
    BY <2>2 DEF OneOpen, PausedHasOwner
  <2> QED
    BY <2>1, <2>2, <2>3
<1>14. CASE c.op = "claim"
  <2>1. /\ Esc(c.at) \in held[t] /\ db' = Claim(d, c.at, c.arg)
        /\ c.at \in DOMAIN d.escs /\ c.arg \in Agents
    BY <1>1, <1>2, <1>4, <1>14, TargetCases DEF FirstRow, Effect
  <2>2. d.escs[c.at].state = "WAITING"
    BY <1>1, <1>2, <1>14 DEF Current, Allowed, CanClaim
  <2>3. /\ db' \in Rows /\ Grows(d, db') /\ db'.runs = d.runs /\ db'.msgs = d.msgs
        /\ db'.status = d.status /\ db'.version = d.version /\ Open(db') = Open(d)
        /\ \A g \in DOMAIN d.escs : g # c.at => db'.escs[g] = d.escs[g]
    BY <1>1, <2>1, <2>2, ClaimRows
  <2> QED
    BY <1>5, <2>1, <2>3 DEF OneOpen, PausedHasOwner
<1>15. CASE c.op = "resolve"
  <2>1. /\ Esc(c.at) \in held[t] /\ db' = Resolve(v, d, c.at) /\ c.at \in DOMAIN d.escs
        /\ Open(v) = {c.at}
    BY <1>1, <1>2, <1>4, <1>15, TargetCases DEF FirstRow, Effect, Current
  <2>2. Conv \in held[t] /\ v.status = d.status
    BY <1>3, <1>4, <1>15, <2>1 DEF SecondRow
  <2>3. /\ db' \in Rows /\ Grows(d, db') /\ db'.runs = d.runs
        /\ Open(db') = Open(d) \ {c.at}
        /\ \A g \in DOMAIN d.escs : g # c.at => db'.escs[g] = d.escs[g]
        /\ IF v.status = "escalated" THEN db'.status = "active" ELSE db'.status = d.status
    BY <1>1, <2>1, ResolveRows, SMTT(30)
  <2>4. db'.status # "escalated"
    BY <2>2, <2>3
  <2>5. OneOpen' /\ PausedHasOwner'
    BY <1>5, <2>3, <2>4 DEF OneOpen, PausedHasOwner
  <2>6. v.escs[c.at] = d.escs[c.at] /\ v.escs[c.at].state = "CLAIMED"
    BY <1>1, <1>2, <1>15 DEF Current, Allowed, CanResolve
  <2>7. c.at \in Open(d)
    BY <2>1, <2>6 DEF Open
  <2>8. Open(db') = {}
    BY <1>5, <2>3, <2>7 DEF OneOpen
  <2> QED
    BY <2>1, <2>2, <2>3, <2>5, <2>8
<1>16. CASE c.op = "reply"
  <2>1. /\ Conv \in held[t] /\ db' = Reply(d, c.at) /\ c.at \in Nat
    BY <1>1, <1>2, <1>4, <1>16, TargetCases DEF SecondRow, Effect, Requests
  <2>2. /\ db' \in Rows /\ Grows(d, db') /\ db'.runs = d.runs /\ db'.escs = d.escs
        /\ db'.status = d.status
    BY <1>1, <2>1, ReplyRows
  <2> QED
    BY <1>5, <1>6, <2>1, <2>2 DEF OneOpen, PausedHasOwner
<1>17. CASE c.op = "status"
  <2>1. /\ Conv \in held[t] /\ db' = SetStatus(v, d, c.arg)
        /\ c.arg \in {"active", "archived", "deleted"}
    BY <1>1, <1>2, <1>4, <1>17, TargetCases DEF FirstRow, Effect
  <2>2. /\ db' \in Rows /\ Grows(d, db') /\ db'.runs = d.runs /\ db'.escs = d.escs
        /\ db'.status # "escalated"
    BY <1>1, <2>1, SetStatusRows
  <2> QED
    BY <1>5, <1>6, <1>17, <2>1, <2>2 DEF OneOpen, PausedHasOwner
<1> QED
  BY <1>1, <1>2, <1>8, <1>9, <1>10, <1>11, <1>12, <1>13, <1>14, <1>15, <1>16, <1>17,
     TargetCases

-----------------------------------------------------------------------------
(* Each step keeps the invariant. *)

Names == {"conversation", "escalation", "run", "approval"} \X Nat \X (Approvals \cup {NoApproval})

LEMMA RowNames ==
  /\ Conv \in Names
  /\ \A n \in Nat : Esc(n) \in Names /\ Run(n) \in Names
  /\ \A n \in Nat, a \in Approvals : Approval(n, a) \in Names
  BY DEF Names, Conv, Esc, Run, Approval

(* Rows of one name are one row. *)
LEMMA RowsDiffer ==
  ASSUME NEW m, NEW n, NEW a, NEW b
  PROVE  /\ Conv # Esc(n) /\ Conv # Run(n) /\ Conv # Approval(n, a)
         /\ Esc(m) # Run(n) /\ Esc(m) # Approval(n, a) /\ Run(m) # Approval(n, a)
         /\ Esc(m) = Esc(n) => m = n
         /\ Run(m) = Run(n) => m = n
         /\ Approval(m, a) = Approval(n, b) => m = n /\ a = b
  BY DEF Conv, Esc, Run, Approval

LEMMA FirstRowNames ==
  ASSUME NEW d \in Rows, NEW c \in Targets(d), NEW w \in Ways
  PROVE  FirstRow(c, w) \in Names
<1>1. c.at \in Nat
  BY TargetCases DEF Requests
<1>2. w.first \in Approvals \cup {NoApproval}
  BY DEF Ways
<1> QED
  BY <1>1, <1>2, RowNames DEF FirstRow

(* What a lock shows. *)
LEMMA SeenRows ==
  ASSUME db \in Rows, NEW v \in Rows, NEW c, NEW row
  PROVE  LET s == Seen(v, c, row)
         IN  /\ s \in Rows
             /\ row = Conv => /\ s.status = db.status /\ s.version = db.version
                              /\ s.msgs = db.msgs
             /\ row # Conv => /\ s.status = v.status /\ s.version = v.version
                              /\ s.msgs = v.msgs
             /\ row = Run(c.at) /\ c.op \in {"complete", "end"} => s.runs = db.runs
             /\ row # Run(c.at) => s.runs = v.runs
             /\ row = Esc(c.at) \/ (row = Conv /\ c.op = "escalate") => s.escs = db.escs
             /\ row # Esc(c.at) /\ (row = Conv => c.op # "escalate") => s.escs = v.escs
<1>1. Conv # Run(c.at) /\ Conv # Esc(c.at) /\ Run(c.at) # Esc(c.at)
  BY RowsDiffer
<1>2. CASE row = Conv
  BY <1>1, <1>2 DEF Seen, Rows
<1>3. CASE row = Run(c.at)
  BY <1>1, <1>3 DEF Seen, Rows
<1>4. CASE row = Esc(c.at)
  BY <1>1, <1>4 DEF Seen, Rows
<1>5. CASE row \notin {Conv, Run(c.at), Esc(c.at)}
  BY <1>5 DEF Seen
<1> QED
  BY <1>2, <1>3, <1>4, <1>5

LEMMA BeginKeeps ==
  ASSUME PgInv, NEW t \in Tx, NEW c \in Calls(db), NEW w \in Ways, Begin(t, c, w)
  PROVE  PgInv'
<1> DEFINE first == FirstRow(c, w)
           s == Seen(NoRows, c, first)
<1>1. /\ call[t] = Idle /\ Free(first) /\ db' = db
      /\ w.first = NoApproval => Allowed(c, s)
      /\ w # RunOnly => c.op = "end"
      /\ call' = [call EXCEPT ![t] = c]
      /\ way' = [way EXCEPT ![t] = w]
      /\ held' = [held EXCEPT ![t] = {first}]
      /\ view' = [view EXCEPT ![t] = s]
  BY DEF Begin, Fits
<1>2. TypeOK /\ OneOpen /\ PausedHasOwner /\ db \in Rows
  BY DEF PgInv, TypeOK, RowsOK
<1>3. c \in Targets(db)
  BY DEF Targets
<1>4. NoRows \in Rows
  BY DEF NoRows, Rows, Statuses
<1>5. /\ s \in Rows
      /\ first = Conv => s.status = db.status /\ s.version = db.version /\ s.msgs = db.msgs
      /\ first = Run(c.at) /\ c.op \in {"complete", "end"} => s.runs = db.runs
      /\ first = Esc(c.at) \/ (first = Conv /\ c.op = "escalate") => s.escs = db.escs
  BY <1>2, <1>4, SeenRows
<1>6. first \in Names
  BY <1>2, <1>3, FirstRowNames
<1>7. /\ c.op = "escalate" => first = Conv
      /\ c.op \in {"claim", "resolve", "reply"} => first = Esc(c.at)
      /\ c.op = "complete" => first = Run(c.at)
      /\ c.op = "end" => first = Run(c.at) \/ first = Approval(c.at, w.first)
  BY DEF FirstRow
<1>8. c.op # "end" => w = RunOnly /\ Allowed(c, s)
  BY <1>1 DEF RunOnly
<1> HIDE DEF first, s
<1>9. TypeOK'
  <2>1. c # Idle /\ c \in Requests
    BY <1>2, <1>3, TargetCases
  <2>2. call' \in [Tx -> Requests] /\ way' \in [Tx -> Ways] /\ view' \in [Tx -> Rows]
    BY <1>1, <1>2, <1>5, <2>1 DEF TypeOK
  <2>3. held' \in [Tx -> SUBSET Names]
    BY <1>1, <1>2, <1>6 DEF TypeOK, Names
  <2>4. \A u \in Tx : call'[u] = Idle <=> held'[u] = {}
    BY <1>1, <1>2, <2>1 DEF TypeOK
  <2> QED
    BY <1>1, <1>2, <2>2, <2>3, <2>4 DEF TypeOK, RowsOK, Names
<1>10. OneOpen' /\ PausedHasOwner'
  BY <1>1, <1>2 DEF OneOpen, PausedHasOwner
<1>11. /\ call'[t] = c /\ view'[t] = s /\ held'[t] = {first} /\ way'[t] = w
       /\ \A u \in Tx : u # t => /\ call'[u] = call[u] /\ view'[u] = view[u]
                                 /\ way'[u] = way[u] /\ held'[u] = held[u]
  BY <1>1, <1>2 DEF TypeOK
<1>12. ASSUME NEW a \in Tx, NEW b \in Tx, a # b PROVE held'[a] \cap held'[b] = {}
  BY <1>1, <1>11, <1>12 DEF PgInv, Free
<1>13. c.op = "escalate" => Open(db) = {}
  BY <1>5, <1>7, <1>8 DEF Allowed, CanEscalate, Open
<1>14. c.op = "resolve" => Open(s) = {c.at}
  <2> SUFFICES ASSUME c.op = "resolve" PROVE Open(s) = {c.at}
    OBVIOUS
  <2>1. s.escs = db.escs /\ Open(s) = Open(db)
    BY <1>5, <1>7 DEF Open
  <2>2. c.at \in Open(s)
    BY <1>2, <1>3, <1>8, <2>1, TargetCases DEF Allowed, CanResolve, Open
  <2> QED
    BY <1>2, <2>1, <2>2 DEF OneOpen
<1>15. Current(t)'
  <2>1. /\ Conv \in {first} => /\ s.status = db.status /\ s.version = db.version
                               /\ s.msgs = db.msgs
        /\ c.op \in {"complete", "end"} /\ Run(c.at) \in {first} => s.runs[c.at] = db.runs[c.at]
        /\ c.op \in {"claim", "resolve", "reply"} => s.escs[c.at] = db.escs[c.at]
    BY <1>5, <1>7
  <2> QED
    BY <1>1, <1>3, <1>8, <1>11, <1>13, <1>14, <2>1 DEF Current, first
<1>16. ASSUME NEW u \in Tx, u # t, call'[u] # Idle PROVE Current(u)'
  <2>1. Current(u)
    BY <1>11, <1>16 DEF PgInv
  <2>2. /\ call'[u] = call[u] /\ view'[u] = view[u] /\ way'[u] = way[u]
        /\ held'[u] = held[u] /\ db' = db
    BY <1>1, <1>11, <1>16
  <2> QED
    BY <2>1, <2>2 DEF Current
<1> QED
  BY <1>9, <1>10, <1>12, <1>15, <1>16 DEF PgInv

LEMMA LockKeeps ==
  ASSUME PgInv, NEW t \in Tx, Lock(t)
  PROVE  PgInv'
<1> DEFINE c == call[t]
           v == view[t]
           w == way[t]
<1>1. PICK row \in Needs(t) :
        /\ Free(row)
        /\ held' = [held EXCEPT ![t] = @ \cup {row}]
        /\ view' = [view EXCEPT ![t] = Seen(@, c, row)]
  BY DEF Lock
<1>2. db' = db /\ call' = call /\ way' = way
  BY DEF Lock
<1>3. TypeOK /\ OneOpen /\ PausedHasOwner /\ db \in Rows /\ v \in Rows
  BY DEF PgInv, TypeOK, RowsOK
<1>4. /\ row \notin held[t]
      /\ \/ row \in SecondRow(c, v)
         \/ row \in LaterRows(c, w) /\ SecondRow(c, v) \subseteq held[t]
  BY DEF Needs
<1>5. /\ c # Idle
      /\ \/ row = Conv /\ c.op \in {"complete", "resolve", "reply"}
         \/ row = Run(c.at) /\ c.op \in {"escalate", "end"}
         \/ c.op = "end" /\ \E a \in Approvals : row = Approval(c.at, a)
  BY <1>4 DEF SecondRow, LaterRows, Idle, Call
<1>6. Current(t)
  BY <1>5 DEF PgInv
<1>7. PICK s : s = Seen(v, c, row)
  OBVIOUS
<1>8. /\ s \in Rows
      /\ row = Conv => s.status = db.status /\ s.version = db.version /\ s.msgs = db.msgs
      /\ row # Conv => s.status = v.status /\ s.version = v.version /\ s.msgs = v.msgs
      /\ row = Run(c.at) /\ c.op \in {"complete", "end"} => s.runs = db.runs
      /\ row # Run(c.at) => s.runs = v.runs
      /\ s.escs = v.escs
  BY <1>3, <1>5, <1>7, SeenRows, RowsDiffer
<1>9. /\ held'[t] = held[t] \cup {row} /\ view'[t] = s
      /\ \A u \in Tx : u # t => view'[u] = view[u] /\ held'[u] = held[u]
  BY <1>1, <1>3, <1>7 DEF TypeOK
<1> HIDE DEF c, v, w
<1>10. TypeOK'
  <2>1. c.at \in Nat
    BY <1>3, <1>6, TargetCases DEF Current, Requests, c
  <2>2. row \in Names
    BY <1>5, <2>1, RowNames
  <2>3. view' \in [Tx -> Rows]
    BY <1>1, <1>3, <1>7, <1>8 DEF TypeOK, v
  <2>4. held' \in [Tx -> SUBSET Names]
    BY <1>1, <1>3, <2>2 DEF TypeOK, Names
  <2>5. \A u \in Tx : call'[u] = Idle <=> held'[u] = {}
    BY <1>2, <1>3, <1>5, <1>9 DEF TypeOK, c
  <2> QED
    BY <1>2, <1>3, <2>3, <2>4, <2>5 DEF TypeOK, RowsOK, Names
<1>11. OneOpen' /\ PausedHasOwner'
  BY <1>2, <1>3 DEF OneOpen, PausedHasOwner
<1>12. ASSUME NEW a \in Tx, NEW b \in Tx, a # b PROVE held'[a] \cap held'[b] = {}
  BY <1>1, <1>9, <1>12 DEF PgInv, Free
<1>13. /\ c \in Targets(db) /\ FirstRow(c, w) \in held[t]
       /\ held[t] = {FirstRow(c, w)} \/ SecondRow(c, v) \subseteq held[t]
       /\ held[t] \subseteq {FirstRow(c, w)} \cup SecondRow(c, v) \cup LaterRows(c, w)
       /\ c.op # "end" => w = RunOnly /\ Allowed(c, v)
       /\ Conv \in held[t] => /\ v.status = db.status /\ v.version = db.version
                              /\ v.msgs = db.msgs
       /\ c.op \in {"complete", "end"} /\ Run(c.at) \in held[t]
            => v.runs[c.at] = db.runs[c.at]
       /\ c.op \in {"claim", "resolve", "reply"} => v.escs[c.at] = db.escs[c.at]
       /\ c.op = "escalate" => Open(db) = {}
       /\ c.op = "resolve" => Open(v) = {c.at}
  BY <1>6 DEF Current, c, v, w
<1>14. c.op # "end" => Allowed(c, s)
  <2>1. CASE c.op = "escalate"
    BY <1>5, <1>8, <1>13, <2>1, RowsDiffer DEF Allowed, CanEscalate, Open
  <2>2. CASE c.op \in {"complete", "resolve", "reply"}
    BY <1>5, <1>8, <1>13, <2>2, RowsDiffer DEF Allowed, CanComplete, CanResolve, CanReply
  <2> QED
    BY <1>5, <2>1, <2>2
<1>15. Open(s) = Open(v)
  BY <1>8 DEF Open
<1>16. /\ FirstRow(c, w) \in held'[t]
       /\ SecondRow(c, s) \subseteq held'[t]
       /\ held'[t] \subseteq {FirstRow(c, w)} \cup SecondRow(c, s) \cup LaterRows(c, w)
  <2>1. SecondRow(c, s) = SecondRow(c, v)
    BY <1>15 DEF SecondRow
  <2>2. row \in SecondRow(c, v) => SecondRow(c, v) = {row}
    BY DEF SecondRow
  <2> QED
    BY <1>4, <1>9, <1>13, <2>1, <2>2
<1>17. Conv \in held'[t] => s.status = db.status /\ s.msgs = db.msgs /\ s.version = db.version
  BY <1>8, <1>9, <1>13
<1>18. c.op \in {"complete", "end"} /\ Run(c.at) \in held'[t] => s.runs[c.at] = db.runs[c.at]
  BY <1>8, <1>9, <1>13
<1>19. Current(t)'
  BY <1>2, <1>8, <1>9, <1>13, <1>14, <1>15, <1>16, <1>17, <1>18 DEF Current, c, v, w
<1>20. ASSUME NEW u \in Tx, u # t, call'[u] # Idle PROVE Current(u)'
  BY <1>2, <1>9, <1>20 DEF PgInv, Current
<1> QED
  BY <1>10, <1>11, <1>12, <1>19, <1>20 DEF PgInv

LEMMA LeaveKeeps ==
  ASSUME PgInv, NEW t \in Tx, Leave(t), db' = db
  PROVE  PgInv'
<1>1. /\ call' = [call EXCEPT ![t] = Idle]
      /\ way' = [way EXCEPT ![t] = RunOnly]
      /\ view' = [view EXCEPT ![t] = NoRows]
      /\ held' = [held EXCEPT ![t] = {}]
  BY DEF Leave
<1>2. TypeOK /\ OneOpen /\ PausedHasOwner
  BY DEF PgInv
<1>3. NoRows \in Rows
  BY DEF NoRows, Rows, Statuses
<1>4. /\ call'[t] = Idle /\ held'[t] = {}
      /\ \A u \in Tx : u # t => /\ call'[u] = call[u] /\ view'[u] = view[u]
                                /\ way'[u] = way[u] /\ held'[u] = held[u]
  BY <1>1, <1>2 DEF TypeOK
<1>5. TypeOK'
  <2>1. RowsOK'
    BY <1>2 DEF TypeOK, RowsOK
  <2>2. way' \in [Tx -> Ways]
    BY <1>1, <1>2 DEF TypeOK, Ways, RunOnly
  <2> QED
    BY <1>1, <1>2, <1>3, <1>4, <2>1, <2>2 DEF TypeOK, Idle, Call, Requests
<1>6. OneOpen' /\ PausedHasOwner'
  BY <1>2 DEF OneOpen, PausedHasOwner
<1>7. ASSUME NEW a \in Tx, NEW b \in Tx, a # b PROVE held'[a] \cap held'[b] = {}
  BY <1>4, <1>7 DEF PgInv
<1>8. ASSUME NEW u \in Tx, call'[u] # Idle PROVE Current(u)'
  BY <1>4, <1>8 DEF PgInv, Current
<1> QED
  BY <1>5, <1>6, <1>7, <1>8 DEF PgInv

LEMMA CommitKeeps ==
  ASSUME PgInv, NEW t \in Tx, Commit(t)
  PROVE  PgInv'
<1>1. /\ call' = [call EXCEPT ![t] = Idle]
      /\ way' = [way EXCEPT ![t] = RunOnly]
      /\ view' = [view EXCEPT ![t] = NoRows]
      /\ held' = [held EXCEPT ![t] = {}]
  BY DEF Commit, Leave
<1>2. TypeOK /\ db \in Rows
  BY DEF PgInv, TypeOK, RowsOK
<1>3. /\ db' \in Rows /\ Grows(db, db')
      /\ Conv \notin held[t] => /\ db'.status = db.status /\ db'.version = db.version
                                /\ db'.msgs = db.msgs /\ Open(db') \subseteq Open(db)
      /\ \A r \in DOMAIN db.runs : Run(r) \notin held[t] => db'.runs[r] = db.runs[r]
      /\ \A e \in DOMAIN db.escs : Esc(e) \notin held[t] => db'.escs[e] = db.escs[e]
      /\ OneOpen' /\ PausedHasOwner'
  BY CommitRows
<1>4. NoRows \in Rows
  BY DEF NoRows, Rows, Statuses
<1>5. /\ call'[t] = Idle /\ held'[t] = {}
      /\ \A u \in Tx : u # t => /\ call'[u] = call[u] /\ view'[u] = view[u]
                                /\ way'[u] = way[u] /\ held'[u] = held[u]
  BY <1>1, <1>2 DEF TypeOK
<1>6. TypeOK'
  <2>1. way' \in [Tx -> Ways]
    BY <1>1, <1>2 DEF TypeOK, Ways, RunOnly
  <2> QED
    BY <1>1, <1>2, <1>3, <1>4, <1>5, <2>1 DEF TypeOK, RowsOK, Idle, Call, Requests
<1>7. ASSUME NEW a \in Tx, NEW b \in Tx, a # b PROVE held'[a] \cap held'[b] = {}
  BY <1>5, <1>7 DEF PgInv
<1>8. ASSUME NEW u \in Tx, call'[u] # Idle PROVE Current(u)'
  <2> DEFINE c == call[u]
             v == view[u]
             w == way[u]
  <2>1. u # t /\ Current(u) /\ held[u] \cap held[t] = {}
    BY <1>5, <1>8 DEF PgInv
  <2>2. c \in Targets(db) /\ FirstRow(c, w) \in held[u] /\ FirstRow(c, w) \notin held[t]
    BY <2>1 DEF Current
  <2>3. c \in Targets(db')
    BY <1>2, <1>3, <2>2, TargetsStay
  <2>4. Conv \in held[u] => /\ v.status = db'.status /\ v.version = db'.version
                            /\ v.msgs = db'.msgs
    BY <1>3, <2>1 DEF Current
  <2>5. c.op \in {"complete", "end"} /\ Run(c.at) \in held[u] => v.runs[c.at] = db'.runs[c.at]
    BY <1>2, <1>3, <2>1, <2>2, TargetCases DEF Current
  <2>6. c.op \in {"claim", "resolve", "reply"} => v.escs[c.at] = db'.escs[c.at]
    BY <1>2, <1>3, <2>1, <2>2, TargetCases DEF Current, FirstRow
  <2>7. c.op = "escalate" => Open(db') = {}
    BY <1>3, <2>1, <2>2 DEF Current, FirstRow
  <2>8. call'[u] = c /\ view'[u] = v /\ held'[u] = held[u] /\ way'[u] = w
    BY <1>5, <2>1
  <2> HIDE DEF c, v, w
  <2>9. /\ c.op # "end" => w = RunOnly /\ Allowed(c, v)
        /\ c.op = "resolve" => Open(v) = {c.at}
        /\ held[u] = {FirstRow(c, w)} \/ SecondRow(c, v) \subseteq held[u]
        /\ held[u] \subseteq {FirstRow(c, w)} \cup SecondRow(c, v) \cup LaterRows(c, w)
    BY <2>1 DEF Current, c, v, w
  <2> QED
    BY <2>2, <2>3, <2>4, <2>5, <2>6, <2>7, <2>8, <2>9 DEF Current
<1> QED
  BY <1>3, <1>6, <1>7, <1>8 DEF PgInv

LEMMA StepKeeps == PgInv /\ [PgNext]_vars => PgInv'
<1> SUFFICES ASSUME PgInv, [PgNext]_vars PROVE PgInv'
  OBVIOUS
<1>1. ASSUME NEW t \in Tx, NEW c \in Calls(db), NEW w \in Ways, Begin(t, c, w) PROVE PgInv'
  BY <1>1, BeginKeeps
<1>2. ASSUME NEW t \in Tx, Lock(t) PROVE PgInv'
  BY <1>2, LockKeeps
<1>3. ASSUME NEW t \in Tx, Commit(t) PROVE PgInv'
  BY <1>3, CommitKeeps
<1>4. ASSUME NEW t \in Tx, Refuse(t) \/ Fail(t) PROVE PgInv'
  BY <1>4, LeaveKeeps DEF Refuse, Fail
<1>5. CASE BreakDeadlock
  BY <1>5, LeaveKeeps DEF BreakDeadlock
<1>6. CASE UNCHANGED vars
  BY <1>6 DEF vars, PgInv, TypeOK, RowsOK, OneOpen, PausedHasOwner, Current, Open
<1> QED
  BY <1>1, <1>2, <1>3, <1>4, <1>5, <1>6 DEF PgNext

LEMMA PgInvariant == PgSpec => []PgInv
  BY PgInitInv, StepKeeps, PTL DEF PgSpec

-----------------------------------------------------------------------------
(* The theorems. *)

(* Rows, calls, views and locks keep their types, and a transaction holds    *)
(* locks exactly while it runs.                                              *)
THEOREM HandoffTypes == PgSpec => []TypeOK
<1>1. PgInv => TypeOK
  BY DEF PgInv
<1> QED
  BY <1>1, PgInvariant, PTL

(* However many transactions ask for a human at once, one escalation is open *)
(* at a time.                                                                *)
THEOREM OneEscalationOpen == PgSpec => []OneOpen
<1>1. PgInv => OneOpen
  BY DEF PgInv
<1> QED
  BY <1>1, PgInvariant, PTL

(* A paused conversation always has an open escalation. *)
THEOREM PausedConversationsHaveOwners == PgSpec => []PausedHasOwner
<1>1. PgInv => PausedHasOwner
  BY DEF PgInv
<1> QED
  BY <1>1, PgInvariant, PTL

LEMMA StepIsSerial == PgInv /\ [PgNext]_vars => [Next]_db
<1> SUFFICES ASSUME PgInv, [PgNext]_vars PROVE [Next]_db
  OBVIOUS
<1>1. ASSUME NEW t \in Tx, Commit(t) PROVE Next
  <2> DEFINE c == call[t]
             e == Call("escalate", 0, "none")
  <2>1. Ready(t) /\ Proceeds(t) /\ db' = Effect(c, view[t], db)
    BY <1>1 DEF Commit
  <2>2. c \in Targets(db) /\ db \in Rows
    BY <2>1 DEF PgInv, Current, Ready, TypeOK, RowsOK
  <2>3. CASE c.op # "escalate"
    <3>1. c \in Calls(db)
      BY <2>2, <2>3, TargetCases
    <3>2. Handle(c)
      BY <2>1, <2>3, DecidesTheSame DEF Handle
    <3> QED
      BY <3>1, <3>2 DEF Next
  <2>4. CASE c.op = "escalate"
    <3>1. e \in Calls(db)
      BY DEF Calls
    <3>2. Handle(e)
      BY <2>1, <2>4, DecidesTheSame DEF Handle
    <3> QED
      BY <3>1, <3>2 DEF Next
  <2> QED
    BY <2>3, <2>4
<1>2. ASSUME NEW t \in Tx, \/ \E c \in Calls(db), w \in Ways : Begin(t, c, w)
                          \/ Lock(t) \/ Refuse(t) \/ Fail(t)
      PROVE db' = db
  BY <1>2 DEF Begin, Lock, Refuse, Fail
<1>3. CASE BreakDeadlock
  BY <1>3 DEF BreakDeadlock
<1>4. CASE UNCHANGED vars
  BY <1>4 DEF vars
<1> QED
  BY <1>1, <1>2, <1>3, <1>4 DEF PgNext

(* The row locks make the handlers serial: the transactions implement the    *)
(* conversation whose handlers run alone.                                    *)
THEOREM HandlersAreSerial == PgSpec => Serial
<1>1. PgInit => Init
  BY DEF PgInit
<1> QED
  BY <1>1, PgInvariant, StepIsSerial, PTL DEF PgSpec, Serial

LEMMA StepResumes ==
  PgInv /\ [PgNext]_vars =>
    [db.status = "escalated" /\ db'.status = "active" =>
       Open(db') = {} \/ \E t \in Tx : call[t].op = "status"]_vars
<1> SUFFICES ASSUME PgInv, PgNext, db.status = "escalated", db'.status = "active"
             PROVE  Open(db') = {} \/ \E t \in Tx : call[t].op = "status"
  OBVIOUS
<1>1. ASSUME NEW t \in Tx, Commit(t)
      PROVE  Open(db') = {} \/ \E u \in Tx : call[u].op = "status"
  BY <1>1, CommitRows
<1>2. ASSUME NEW t \in Tx, \/ \E c \in Calls(db), w \in Ways : Begin(t, c, w)
                          \/ Lock(t) \/ Refuse(t) \/ Fail(t)
      PROVE  FALSE
  BY <1>2 DEF Begin, Lock, Refuse, Fail
<1>3. CASE BreakDeadlock
  BY <1>3 DEF BreakDeadlock
<1> QED
  BY <1>1, <1>2, <1>3 DEF PgNext

(* Only the resolution and an operator's status change resume the assistant. *)
THEOREM OnlyResolutionResumes == PgSpec => OnlyAPatchResumes
  BY PgInvariant, StepResumes, PTL DEF PgSpec, OnlyAPatchResumes

(* A transaction that waits for a row, by what it is doing: it holds its     *)
(* first row alone, or it ends a run and is at the run's approvals.          *)
Completes(t) ==
  call[t].op = "complete" /\ held[t] = {Run(call[t].at)} /\ Needs(t) = {Conv}
Escalates(t) ==
  call[t].op = "escalate" /\ held[t] = {Conv} /\ Needs(t) = {Run(call[t].at)}
Attends(t) == held[t] = {Esc(call[t].at)} /\ Needs(t) = {Conv}
Decides(t) ==
  /\ call[t].op = "end" /\ Needs(t) = {Run(call[t].at)}
  /\ \E a \in Approvals : held[t] = {Approval(call[t].at, a)}
Expires(t) ==
  LET approvals == {Approval(call[t].at, a) : a \in Approvals}
  IN  /\ call[t].op = "end" /\ Run(call[t].at) \in held[t]
      /\ Needs(t) \subseteq approvals /\ held[t] \subseteq {Run(call[t].at)} \cup approvals

LEMMA Waiters ==
  ASSUME PgInv, NEW t \in Tx, Needs(t) # {}
  PROVE  Completes(t) \/ Escalates(t) \/ Attends(t) \/ Decides(t) \/ Expires(t)
<1> DEFINE c == call[t]
           v == view[t]
           w == way[t]
<1>1. Needs(t) = IF SecondRow(c, v) \subseteq held[t] THEN LaterRows(c, w) \ held[t]
                 ELSE SecondRow(c, v) \ held[t]
  BY DEF Needs
<1>2. c # Idle
  BY <1>1 DEF SecondRow, LaterRows, Idle, Call
<1>3. /\ FirstRow(c, w) \in held[t]
      /\ held[t] = {FirstRow(c, w)} \/ SecondRow(c, v) \subseteq held[t]
      /\ held[t] \subseteq {FirstRow(c, w)} \cup SecondRow(c, v) \cup LaterRows(c, w)
  BY <1>2 DEF PgInv, Current
<1>4. w.first \in Approvals \cup {NoApproval}
  BY DEF PgInv, TypeOK, Ways
<1> HIDE DEF c, v, w
<1>5. CASE SecondRow(c, v) \subseteq held[t]
  <2>1. c.op = "end" /\ LaterRows(c, w) = {Approval(c.at, a) : a \in Approvals}
    BY <1>1, <1>5 DEF LaterRows
  <2>2. SecondRow(c, v) = {Run(c.at)}
    BY <2>1 DEF SecondRow
  <2>3. FirstRow(c, w) = Run(c.at) \/ FirstRow(c, w) \in LaterRows(c, w)
    BY <1>4, <2>1 DEF FirstRow
  <2>4. Expires(t)
    BY <1>1, <1>3, <1>5, <2>1, <2>2, <2>3 DEF Expires, c
  <2> QED
    BY <2>4
<1>6. CASE ~(SecondRow(c, v) \subseteq held[t])
  <2>1. PICK row \in SecondRow(c, v) : row \notin held[t]
    BY <1>6
  <2>2. SecondRow(c, v) = {row} /\ Needs(t) = {row} /\ held[t] = {FirstRow(c, w)}
    <3>1. SecondRow(c, v) = {row}
      BY <2>1 DEF SecondRow
    <3> QED
      BY <1>1, <1>3, <1>6, <2>1, <3>1
  <2>3. CASE c.op = "complete"
    <3>1. row = Conv /\ FirstRow(c, w) = Run(c.at)
      BY <2>2, <2>3 DEF SecondRow, FirstRow
    <3> QED
      BY <2>2, <2>3, <3>1 DEF Completes, c
  <2>4. CASE c.op = "escalate"
    <3>1. row = Run(c.at) /\ FirstRow(c, w) = Conv
      BY <2>1, <2>4 DEF SecondRow, FirstRow
    <3> QED
      BY <2>2, <2>4, <3>1 DEF Escalates, c
  <2>5. CASE c.op \in {"resolve", "reply"}
    <3>1. row = Conv /\ FirstRow(c, w) = Esc(c.at)
      BY <2>1, <2>5 DEF SecondRow, FirstRow
    <3> QED
      BY <2>2, <3>1 DEF Attends, c
  <2>6. CASE c.op = "end"
    <3>1. row = Run(c.at)
      BY <2>1, <2>6 DEF SecondRow
    <3>2. FirstRow(c, w) # Run(c.at)
      BY <2>1, <2>2, <3>1
    <3>3. w.first \in Approvals /\ FirstRow(c, w) = Approval(c.at, w.first)
      BY <1>4, <2>6, <3>2 DEF FirstRow
    <3> QED
      BY <2>2, <2>6, <3>1, <3>3 DEF Decides, c
  <2> QED
    BY <2>1, <2>3, <2>4, <2>5, <2>6 DEF SecondRow
<1> QED
  BY <1>5, <1>6

(* A deadlock names its pair.  In a circle everyone waits and everyone is    *)
(* waited for; a row has one holder, which leaves each kind of waiter the    *)
(* one it waits for as the one that waits for it.                            *)
LEMMA DeadlockMembers == PgInv => DeadlocksArePairs
<1> SUFFICES ASSUME PgInv, NEW S \in SUBSET Tx, NEW t \in S, Cycle(S)
             PROVE  \E u \in Tx : /\ WaitsFor(t, u) /\ WaitsFor(u, t)
                                  /\ call[t].at = call[u].at
                                  /\ \/ {call[t].op, call[u].op} = {"escalate", "complete"}
                                     \/ {call[t].op, call[u].op} = {"end"}
  BY DEF DeadlocksArePairs, Deadlocked
<1>1. \A a \in S : /\ \E b \in S : WaitsFor(a, b)
                   /\ \E b \in S : WaitsFor(b, a)
  BY DEF Cycle
<1>2. \A a \in S : Completes(a) \/ Escalates(a) \/ Attends(a) \/ Decides(a) \/ Expires(a)
  BY <1>1, Waiters DEF WaitsFor
<1>3. \A a, b \in S : \A row : row \in held[a] /\ row \in held[b] => a = b
  BY DEF PgInv
<1>4. \A a, b \in S : \A row : row \in Needs(a) /\ row \in held[b] /\ a # b => WaitsFor(a, b)
  BY DEF WaitsFor
<1>5. \A a, b \in S : WaitsFor(a, b) => a # b /\ \E row : row \in Needs(a) /\ row \in held[b]
  BY DEF WaitsFor
<1>6. ASSUME NEW a \in S PROVE ~Attends(a)
  <2> SUFFICES ASSUME Attends(a) PROVE FALSE
    OBVIOUS
  <2>1. held[a] = {Esc(call[a].at)}
    BY DEF Attends
  <2>2. PICK b \in S : WaitsFor(b, a)
    BY <1>1
  <2>3. Esc(call[a].at) \in Needs(b)
    BY <1>5, <2>1, <2>2
  <2> QED
    BY <1>2, <2>3, RowsDiffer DEF Completes, Escalates, Attends, Decides, Expires
<1>7. ASSUME NEW a \in S, Decides(a)
      PROVE  \E b \in S : /\ Expires(b) /\ call[b].at = call[a].at
                          /\ WaitsFor(a, b) /\ WaitsFor(b, a)
  <2>1. PICK p \in Approvals : held[a] = {Approval(call[a].at, p)}
    BY <1>7 DEF Decides
  <2>2. PICK b \in S : WaitsFor(b, a)
    BY <1>1
  <2>3. Approval(call[a].at, p) \in Needs(b) /\ a # b
    BY <1>5, <2>1, <2>2
  <2>4. Expires(b)
    BY <1>2, <2>3, RowsDiffer DEF Completes, Escalates, Attends, Decides
  <2>5. call[b].at = call[a].at
    BY <2>3, <2>4, RowsDiffer DEF Expires
  <2>6. Run(call[a].at) \in Needs(a) /\ Run(call[a].at) \in held[b]
    BY <1>7, <2>4, <2>5 DEF Decides, Expires
  <2> QED
    BY <1>4, <2>2, <2>3, <2>4, <2>5, <2>6
<1>8. ASSUME NEW a \in S, Completes(a)
      PROVE  \E b \in S : /\ Escalates(b) /\ call[b].at = call[a].at
                          /\ WaitsFor(a, b) /\ WaitsFor(b, a)
  <2>1. PICK b \in S : WaitsFor(a, b)
    BY <1>1
  <2>2. Conv \in held[b]
    BY <1>5, <1>8, <2>1 DEF Completes
  <2>3. Escalates(b)
    BY <1>2, <2>2, RowsDiffer DEF Completes, Attends, Decides, Expires
  <2>4. PICK d \in S : WaitsFor(d, a)
    BY <1>1
  <2>5. Run(call[a].at) \in Needs(d) /\ d # a
    BY <1>5, <1>8, <2>4 DEF Completes
  <2>6. ~Decides(d)
    <3> SUFFICES ASSUME Decides(d) PROVE FALSE
      OBVIOUS
    <3>1. call[d].at = call[a].at
      BY <2>5, RowsDiffer DEF Decides
    <3>2. PICK e \in S : Expires(e) /\ call[e].at = call[d].at
      BY <1>7
    <3>3. Run(call[a].at) \in held[e] /\ Run(call[a].at) \in held[a]
      BY <1>8, <3>1, <3>2 DEF Expires, Completes
    <3>4. e = a
      BY <1>3, <3>3
    <3> QED
      BY <1>8, <3>2, <3>4 DEF Expires, Completes
  <2>7. Escalates(d)
    BY <1>2, <1>6, <2>5, <2>6, RowsDiffer DEF Completes, Expires
  <2>8. call[d].at = call[a].at
    BY <2>5, <2>7, RowsDiffer DEF Escalates
  <2>9. d = b
    BY <1>3, <2>2, <2>7 DEF Escalates
  <2> QED
    BY <2>1, <2>3, <2>4, <2>8, <2>9
<1>9. CASE Completes(t)
  BY <1>8, <1>9 DEF Completes, Escalates
<1>10. CASE Escalates(t)
  <2>1. PICK b \in S : WaitsFor(b, t)
    BY <1>1
  <2>2. Conv \in Needs(b)
    BY <1>5, <1>10, <2>1 DEF Escalates
  <2>3. Completes(b)
    BY <1>2, <1>6, <2>2, RowsDiffer DEF Escalates, Decides, Expires
  <2>4. PICK d \in S : /\ Escalates(d) /\ call[d].at = call[b].at
                       /\ WaitsFor(b, d) /\ WaitsFor(d, b)
    BY <1>8, <2>3
  <2>5. d = t
    BY <1>3, <1>10, <2>4 DEF Escalates
  <2> QED
    BY <1>10, <2>3, <2>4, <2>5 DEF Completes, Escalates
<1>11. CASE Decides(t)
  BY <1>7, <1>11 DEF Decides, Expires
<1>12. CASE Expires(t)
  <2>1. PICK b \in S : WaitsFor(t, b)
    BY <1>1
  <2>2. PICK a \in Approvals : Approval(call[t].at, a) \in held[b] /\ b # t
    BY <1>5, <1>12, <2>1 DEF Expires
  <2>3. Decides(b) \/ Expires(b)
    BY <1>2, <2>2, RowsDiffer DEF Completes, Escalates, Attends
  <2>4. call[b].at = call[t].at
    BY <2>2, <2>3, RowsDiffer DEF Decides, Expires
  <2>5. ~Expires(b)
    BY <1>3, <1>12, <2>2, <2>4 DEF Expires
  <2>6. Decides(b)
    BY <2>3, <2>5
  <2>7. Run(call[t].at) \in Needs(b) /\ Run(call[t].at) \in held[t]
    BY <1>12, <2>4, <2>6 DEF Decides, Expires
  <2>8. WaitsFor(b, t)
    BY <1>4, <2>2, <2>7
  <2> QED
    BY <1>12, <2>1, <2>4, <2>6, <2>8 DEF Decides, Expires
<1> QED
  BY <1>2, <1>6, <1>9, <1>10, <1>11, <1>12

(* Whatever runs at once and however many transactions, a circle of waiting  *)
(* handlers is always two of one run: its request for a human and its        *)
(* completion, or two that lock its approvals.                               *)
THEOREM DeadlocksAreOfOneRun == PgSpec => []DeadlocksArePairs
  BY PgInvariant, DeadlockMembers, PTL

(* Branches stay chains however the transactions interleave, because they    *)
(* implement handlers that run alone.                                        *)
THEOREM BranchesStayChains == PgSpec => []BranchesAreChains
<1>1. Serial => []ChainInv
  BY ChainInitInv, SerialKeepsChains, PTL DEF Serial
<1> QED
  BY <1>1, HandlersAreSerial, ChainsFollow, PTL
=============================================================================
