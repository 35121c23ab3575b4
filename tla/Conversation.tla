---------------------------- MODULE Conversation ----------------------------
(* One conversation, its transcript, its runs and its escalations, as the    *)
(* handlers' documentation promises them: each handler runs alone.  What a   *)
(* handler reads (v) and what it writes to (d) are separate arguments; here  *)
(* both are the committed rows, and the two database lanes, which EXTEND     *)
(* this module, pass what the transaction read.  A call that is refused, or  *)
(* that replays what was done before, changes nothing and is no step.        *)
(* A stale expected version, a blocked assistant and the quota wall only     *)
(* refuse more, and are left out.                                            *)
EXTENDS Integers, Sequences

CONSTANTS Agents, NoAgent

ASSUME AgentAssumption == NoAgent \notin Agents

VARIABLE db            \* the committed rows

Statuses == {"active", "escalated", "archived", "deleted"}

(* A message's number is its position.  Role "assistant" has two authors: a  *)
(* run, and a human agent replying to escalation "esc".                      *)
Messages == [by : {"user", "run", "human"}, esc : Nat, supersededBy : Nat]

(* "ACTIVE" stands for the states uq_runs_one_active_per_conversation lists; *)
(* "ENDED" for every end without a reply.                                    *)
Runs == [state : {"ACTIVE", "COMPLETED", "ENDED"},
         input : Nat, regenerated : Nat, result : Nat]

(* "closed" is history: how many messages there were at the resolution.      *)
Escalations == [state : {"WAITING", "CLAIMED", "RESOLVED"},
                claimedBy : Agents \cup {NoAgent}, closed : Nat]

Rows == [status : Statuses, version : Nat, msgs : Seq(Messages),
         runs : Seq(Runs), escs : Seq(Escalations)]

NoRows == [status |-> "active", version |-> 1,
           msgs |-> <<>>, runs |-> <<>>, escs |-> <<>>]

(* A conversation just created. *)
Init == db = NoRows

Open(v) == {e \in DOMAIN v.escs : v.escs[e].state # "RESOLVED"}

Active(v) == {r \in DOMAIN v.runs : v.runs[r].state = "ACTIVE"}

(* nextMessageSequence: max(sequence) + 1. *)
NextNumber(v) == Len(v.msgs) + 1

(* The user messages of the active branch before a number. *)
UsersBefore(v, n) ==
  {i \in DOMAIN v.msgs : i < n /\ v.msgs[i].by = "user" /\ v.msgs[i].supersededBy = 0}

Newest(S) == CHOOSE i \in S : \A j \in S : j <= i

(* The writes handlers share. *)
Post(d, by, e) ==
  [d EXCEPT !.msgs = Append(@, [by |-> by, esc |-> e, supersededBy |-> 0])]

StartRun(d, input, regenerated) ==
  [d EXCEPT !.runs = Append(@, [state |-> "ACTIVE", input |-> input,
                                regenerated |-> regenerated, result |-> 0])]

Bump(v, d) == [d EXCEPT !.version = v.version + 1]

-----------------------------------------------------------------------------
(* The handlers: when one goes through, and what it then writes. *)

CanAccept(v) == v.status \in {"active", "escalated"}

(* Mutant: a message reactivates the conversation. *)
AcceptActive(v, d) ==
  Bump(v, [StartRun(Post(d, "user", 0), NextNumber(v), 0) EXCEPT !.status = "active"])

(* While escalated the message is stored and no run starts. *)
Accept(v, d) ==
  Bump(v, IF v.status = "escalated" THEN Post(d, "user", 0)
          ELSE StartRun(Post(d, "user", 0), NextNumber(v), 0))

CanRegenerate(v, m) ==
  /\ v.status = "active"
  /\ v.msgs[m].by # "user" /\ v.msgs[m].supersededBy = 0
  /\ UsersBefore(v, m) # {}

(* Mutant: the run is to replace its input. *)
RegenerateInput(v, d, m) ==
  Bump(v, StartRun(d, Newest(UsersBefore(v, m)), Newest(UsersBefore(v, m))))

Regenerate(v, d, m) == Bump(v, StartRun(d, Newest(UsersBefore(v, m)), m))

CanEdit(v, m) ==
  /\ v.status = "active"
  /\ m \in UsersBefore(v, NextNumber(v))
  /\ m = Newest(UsersBefore(v, NextNumber(v)))

Edit(v, d, m) ==
  Bump(v, StartRun([Post(d, "user", 0) EXCEPT !.msgs[m].supersededBy = NextNumber(v)],
                   NextNumber(v), 0))

CanComplete(v, r) == v.runs[r].state = "ACTIVE"

(* The set-once pointer: UPDATE ... WHERE superseded_by IS NULL. *)
Supersede(d, m, n) ==
  IF m # 0 /\ d.msgs[m].supersededBy = 0
  THEN [d EXCEPT !.msgs[m].supersededBy = n] ELSE d

Complete(v, d, r) ==
  LET n == NextNumber(v)
  IN  Bump(v, [Supersede(Post(d, "run", 0), v.runs[r].regenerated, n)
                 EXCEPT !.runs[r].state = "COMPLETED", !.runs[r].result = n])

(* cancelRun, failRunForBudget and the other ends without a reply. *)
CanEnd(v, r) == v.runs[r].state = "ACTIVE"

End(d, r) == [d EXCEPT !.runs[r].state = "ENDED"]

CanEscalate(v) == v.status \notin {"archived", "deleted"} /\ Open(v) = {}

Escalate(v, d) ==
  LET opened == [d EXCEPT !.escs = Append(@, [state |-> "WAITING", claimedBy |-> NoAgent,
                                              closed |-> 0])]
  IN  IF v.status = "active" THEN Bump(v, [opened EXCEPT !.status = "escalated"])
      ELSE opened

CanClaim(v, e) == v.escs[e].state = "WAITING"

Claim(d, e, a) == [d EXCEPT !.escs[e].state = "CLAIMED", !.escs[e].claimedBy = a]

CanResolve(v, e) == v.escs[e].state = "CLAIMED"

(* Mutant: the resolution leaves the conversation paused. *)
ResolveOnly(v, d, e) ==
  [d EXCEPT !.escs[e].state = "RESOLVED", !.escs[e].closed = Len(d.msgs)]

(* The last open escalation to close resumes the auto-responder. *)
Resolve(v, d, e) ==
  LET closed == [d EXCEPT !.escs[e].state = "RESOLVED", !.escs[e].closed = Len(d.msgs)]
  IN  IF Open(v) \subseteq {e} /\ v.status = "escalated"
      THEN Bump(v, [closed EXCEPT !.status = "active"]) ELSE closed

CanReply(v, e) == v.escs[e].state # "RESOLVED"

Reply(d, e) == Post(d, "human", e)

SetStatus(v, d, s) == Bump(v, [d EXCEPT !.status = s])

-----------------------------------------------------------------------------
(* A call names the handler and the row it is about. *)
Call(op, at, arg) == [op |-> op, at |-> at, arg |-> arg]

(* What a transaction of a lane runs while it runs no call. *)
Idle == Call("idle", 0, "none")

Requests == [op : {"idle", "accept", "regenerate", "edit", "complete", "end",
                   "escalate", "claim", "resolve", "reply", "status"},
             at : Nat, arg : Agents \cup Statuses \cup {"none"}]

Calls(d) ==
  {Call("accept", 0, "none")}
  \cup {Call(op, m, "none") : op \in {"regenerate", "edit"}, m \in DOMAIN d.msgs}
  \cup {Call(op, r, "none") : op \in {"complete", "end"}, r \in DOMAIN d.runs}
  \cup {Call("escalate", r, "none") : r \in {0} \cup Active(d)}
  \cup {Call("claim", e, a) : e \in DOMAIN d.escs, a \in Agents}
  \cup {Call(op, e, "none") : op \in {"resolve", "reply"}, e \in DOMAIN d.escs}
  \cup {Call("status", 0, s) : s \in {"active", "archived", "deleted"}}

Allowed(c, v) ==
  \/ c.op = "accept" /\ CanAccept(v)
  \/ c.op = "regenerate" /\ CanRegenerate(v, c.at)
  \/ c.op = "edit" /\ CanEdit(v, c.at)
  \/ c.op = "complete" /\ CanComplete(v, c.at)
  \/ c.op = "end" /\ CanEnd(v, c.at)
  \/ c.op = "escalate" /\ CanEscalate(v)
  \/ c.op = "claim" /\ CanClaim(v, c.at)
  \/ c.op = "resolve" /\ CanResolve(v, c.at)
  \/ c.op = "reply" /\ CanReply(v, c.at)
  \/ c.op = "status"

Effect(c, v, d) ==
  CASE c.op = "accept" -> Accept(v, d)
    [] c.op = "regenerate" -> Regenerate(v, d, c.at)
    [] c.op = "edit" -> Edit(v, d, c.at)
    [] c.op = "complete" -> Complete(v, d, c.at)
    [] c.op = "end" -> End(d, c.at)
    [] c.op = "escalate" -> Escalate(v, d)
    [] c.op = "claim" -> Claim(d, c.at, c.arg)
    [] c.op = "resolve" -> Resolve(v, d, c.at)
    [] c.op = "reply" -> Reply(d, c.at)
    [] c.op = "status" -> SetStatus(v, d, c.arg)

(* What the unique indexes let through: one active run of a conversation,    *)
(* and one message of a number.                                              *)
StartsRun(c, v) ==
  c.op \in {"regenerate", "edit"} \/ (c.op = "accept" /\ v.status # "escalated")

Posts(c) == c.op \in {"accept", "edit", "complete", "reply"}

Insertable(c, v, d) ==
  /\ StartsRun(c, v) => Active(d) = {}
  /\ Posts(c) => Len(v.msgs) = Len(d.msgs)

Handle(c) ==
  /\ Allowed(c, db)
  /\ Insertable(c, db, db)
  /\ db' = Effect(c, db, db)

Next == \E c \in Calls(db) : Handle(c)

Spec == Init /\ [][Next]_db

-----------------------------------------------------------------------------
(* Type invariant of the rows. *)
RowsOK == db \in Rows

(* Two requests for a human never leave two escalations open: nothing but    *)
(* the conversation's lock, or its write conflict, stands between two calls  *)
(* of escalate, for the table has no unique index.                           *)
OneOpen == \A e, f \in Open(db) : e = f

(* A paused conversation has an open escalation, whose resolution resumes    *)
(* it: no order of escalate, resolve and status changes strands it.          *)
PausedHasOwner == db.status = "escalated" => Open(db) # {}

(* A message is replaced at most once and by a later message of its role,    *)
(* and a message replaces at most one.                                       *)
ReplacedOnce ==
  \A m \in DOMAIN db.msgs : LET n == db.msgs[m].supersededBy IN
    n # 0 => /\ n \in DOMAIN db.msgs /\ m < n
             /\ (db.msgs[m].by = "user") <=> (db.msgs[n].by = "user")
             /\ \A k \in DOMAIN db.msgs : db.msgs[k].supersededBy = n => k = m

(* The reply of a regeneration replaces the message it was asked for. *)
ReplacesWhatItRegenerates ==
  \A r \in DOMAIN db.runs :
    db.runs[r].state = "COMPLETED" /\ db.runs[r].regenerated # 0
      => db.msgs[db.runs[r].regenerated].supersededBy = db.runs[r].result

(* The branches of a transcript are chains, and a regeneration extends its   *)
(* own, whatever was edited, ended or regenerated meanwhile.                 *)
BranchesAreChains == ReplacedOnce /\ ReplacesWhatItRegenerates

(* escalations.schema.ts: the status is 'escalated' while a row is open.     *)
PausedWhileOpen == Open(db) # {} => db.status # "active"

(* regenerateMessage: "replays the ORIGINAL input user message" of the reply *)
(* it regenerates.                                                           *)
ReplaysOriginalInput ==
  \A r, q \in DOMAIN db.runs :
    db.runs[q].regenerated # 0 /\ db.runs[r].result = db.runs[q].regenerated
      => db.runs[q].input = db.runs[r].input
=============================================================================
