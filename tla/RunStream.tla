------------------------------ MODULE RunStream ------------------------------
(* The server-sent event stream of a run, beside the writers of RunLog.  A   *)
(* timer starts a poll every second, whether or not the last one is back;    *)
(* the poll reads the run, then the events after the cursor it was started   *)
(* with, in two statements of a READ COMMITTED transaction, and its          *)
(* continuation hands the rows to the subscriber and moves the cursor.  The  *)
(* connection may break with rows on the way; the client comes back with the *)
(* id of the last event it received.                                         *)
EXTENDS RunLog, SequencesExt

CONSTANTS Clients,
          Polls,        \* bound: polls of one connection in flight
          BatchLimit,   \* batchLimit, 200 in the code
          MaxFaults     \* bound: broken connections, caps and failed polls

ASSUME StreamAssumption == BatchLimit \in Nat \ {0} /\ MaxFaults \in Nat

VARIABLES conn,     \* "closed", "open", or "done" once the stream completed
          cursor,   \* the connection's cursor
          poll,     \* the polls in flight
          recv,     \* the engine sequences a client received, in order
          faults    \* what of MaxFaults is spent

stream == <<conn, cursor, poll, recv, faults>>
svars == <<vars, stream>>

Idle == [at |-> "idle", from |-> 0, ended |-> FALSE, rows |-> <<>>]

StreamInit ==
  /\ Init
  /\ conn = [c \in Clients |-> "closed"]
  /\ cursor = [c \in Clients |-> 0]
  /\ poll = [c \in Clients |-> [p \in Polls |-> Idle]]
  /\ recv = [c \in Clients |-> <<>>]
  /\ faults = 0

Published == {log[id] : id \in Ids} \ {0}

Rank(S, x) == Cardinality({y \in S : y < x})

(* The members of a set of numbers in increasing order, each placed by its   *)
(* rank: SetToSortSeq, in a form the provers can expand.                     *)
Ordered(S) == [i \in 1 .. Cardinality(S) |-> CHOOSE x \in S : Rank(S, x) = i - 1]

LastReceived(c) == IF recv[c] = <<>> THEN 0 ELSE recv[c][Len(recv[c])]

(* Mutant: a reconnect forgets the Last-Event-ID. *)
ResumeAtStart(c) == 0

(* Mutant: the event of the Last-Event-ID is replayed too. *)
ResumeInclusive(c) == LastReceived(c) - 1

(* streamRunEvents: a new subscription replays after the Last-Event-ID. *)
ResumeAt(c) == LastReceived(c)

Connect(c) ==
  /\ conn[c] = "closed"
  /\ conn' = [conn EXCEPT ![c] = "open"]
  /\ cursor' = [cursor EXCEPT ![c] = ResumeAt(c)]
  /\ UNCHANGED <<vars, poll, recv, faults>>

(* The timer fires; the cursor of this moment is the poll's argument. *)
Tick(c, p) ==
  /\ conn[c] = "open"
  /\ poll[c][p].at = "idle"
  /\ poll' = [poll EXCEPT ![c][p] = [Idle EXCEPT !.at = "run", !.from = cursor[c]]]
  /\ UNCHANGED <<vars, conn, cursor, recv, faults>>

ReadRun(c, p) ==
  /\ poll[c][p].at = "run"
  /\ poll' = [poll EXCEPT ![c][p] = [@ EXCEPT !.at = "events", !.ended = phase = "TERMINAL"]]
  /\ UNCHANGED <<vars, conn, cursor, recv, faults>>

(* Mutant: the newest rows instead of the oldest. *)
NewestAfter(from) ==
  LET all == Ordered({s \in Published : s > from})
  IN  SubSeq(all, IF Len(all) < BatchLimit THEN 1 ELSE Len(all) - BatchLimit + 1, Len(all))

After(from) ==
  LET all == Ordered({s \in Published : s > from})
  IN  SubSeq(all, 1, IF Len(all) < BatchLimit THEN Len(all) ELSE BatchLimit)

ReadEvents(c, p) ==
  /\ poll[c][p].at = "events"
  /\ poll' = [poll EXCEPT ![c][p] =
                 [@ EXCEPT !.at = "emit", !.rows = After(poll[c][p].from)]]
  /\ UNCHANGED <<vars, conn, cursor, recv, faults>>

Close(c) == poll' = [poll EXCEPT ![c] = [p \in Polls |-> Idle]]

(* Mutant: a full batch ends the stream too. *)
FlushedAnyway(c, p) == poll[c][p].ended

(* Mutant: the stream completes on rows only. *)
FlushedWithRows(c, p) == poll[c][p].ended /\ Len(poll[c][p].rows) \in 1 .. BatchLimit - 1

(* The run was terminal when it was read, and no rows are left behind. *)
Flushed(c, p) == poll[c][p].ended /\ Len(poll[c][p].rows) < BatchLimit

(* The continuation of a poll, one uninterrupted turn of the event loop. *)
Emit(c, p) ==
  LET rows == poll[c][p].rows IN
  /\ poll[c][p].at = "emit"
  /\ recv' = [recv EXCEPT ![c] = @ \o rows]
  /\ cursor' = [cursor EXCEPT ![c] = IF rows = <<>> THEN @ ELSE rows[Len(rows)]]
  /\ IF Flushed(c, p)
     THEN conn' = [conn EXCEPT ![c] = "done"] /\ Close(c)
     ELSE conn' = conn /\ poll' = [poll EXCEPT ![c][p] = Idle]
  /\ UNCHANGED <<vars, faults>>

Fault == faults < MaxFaults /\ faults' = faults + 1

(* The connection breaks: of the rows on the way only some arrive.  Polls in *)
(* flight end up at a closed subscriber.                                     *)
Break(c) ==
  /\ Fault
  /\ conn[c] = "open"
  /\ \/ UNCHANGED recv
     \/ \E p \in Polls : \E n \in 1 .. Len(poll[c][p].rows) :
          recv' = [recv EXCEPT ![c] = @ \o SubSeq(poll[c][p].rows, 1, n)]
  /\ conn' = [conn EXCEPT ![c] = "closed"]
  /\ Close(c)
  /\ UNCHANGED <<vars, cursor>>

(* The duration cap completes the stream; the client reconnects. *)
Cap(c) ==
  /\ Fault
  /\ conn[c] = "open"
  /\ conn' = [conn EXCEPT ![c] = "closed"]
  /\ Close(c)
  /\ UNCHANGED <<vars, cursor, recv>>

(* A database error ends the poll and nothing else. *)
FailPoll(c, p) ==
  /\ Fault
  /\ poll[c][p].at \in {"run", "events"}
  /\ poll' = [poll EXCEPT ![c][p] = Idle]
  /\ UNCHANGED <<vars, conn, cursor, recv>>

Client(c) ==
  \/ Connect(c) \/ Break(c) \/ Cap(c)
  \/ \E p \in Polls : \/ Tick(c, p) \/ ReadRun(c, p) \/ ReadEvents(c, p)
                      \/ Emit(c, p) \/ FailPoll(c, p)

StreamNext ==
  \/ Next /\ UNCHANGED stream
  \/ \E c \in Clients : Client(c)

StreamSpec == StreamInit /\ [][StreamNext]_svars

(* A stalled client is one whose server stopped: the timer keeps firing, a   *)
(* query returns, a continuation runs, and a client without a stream         *)
(* connects again.                                                           *)
StreamFairness ==
  \A c \in Clients :
    /\ WF_svars(Connect(c))
    /\ \A p \in Polls : WF_svars(Tick(c, p) \/ ReadRun(c, p) \/ ReadEvents(c, p) \/ Emit(c, p))

FairStream == StreamSpec /\ StreamFairness

-----------------------------------------------------------------------------
Received(c) == ToSet(recv[c])

PollStates ==
  [at : {"idle", "run", "events", "emit"}, from : Nat, ended : BOOLEAN, rows : Seq(Nat)]

StreamTypeOK ==
  /\ conn \in [Clients -> {"closed", "open", "done"}]
  /\ cursor \in [Clients -> Nat]
  /\ poll \in [Clients -> [Polls -> PollStates]]
  /\ recv \in [Clients -> Seq(Nat)]
  /\ faults \in 0 .. MaxFaults

Skipped(c, id) ==
  /\ log[id] \notin Received(c) \cup {0}
  /\ \E s \in Received(c) : log[id] < s

(* What is written under the row lock is never skipped: whatever a client    *)
(* has received, it received all such events before it, with polls that      *)
(* overlap, broken connections, and notices that commit late                 *)
(* (conversations.service.ts:883, pg-run.repository.ts:1240).                *)
LockedNeverSkipped == \A c \in Clients, id \in Locked : ~Skipped(c, id)

(* When the stream completes, the client has every event written under the   *)
(* row lock: the end seen by a poll covers the tail that poll returned       *)
(* (conversations.service.ts:909).                                           *)
TailFlushed ==
  \A c \in Clients : conn[c] = "done" =>
    \A id \in Locked : log[id] \in Received(c) \cup {0}

(* The inductive invariant of the two.  What a client holds was drawn; a     *)
(* cursor is a number the client holds; the rows of a poll miss no locked    *)
(* event between its cursor and any of them; and an end, once seen, comes    *)
(* with a log in which the locked events stand still.                        *)
LockedNumbers == {log[id] : id \in Locked} \ {0}

Fetched(q) == {q.rows[i] : i \in DOMAIN q.rows}

RowsCover(q) ==
  \A i \in DOMAIN q.rows :
    /\ q.rows[i] \in 1 .. next
    /\ \A m \in LockedNumbers :
         (q.from < m /\ m <= q.rows[i]) => \E j \in 1 .. i : q.rows[j] = m

TailCovered(q) ==
  (q.at = "emit" /\ q.ended /\ Len(q.rows) < BatchLimit)
    => \A m \in LockedNumbers : q.from < m => m \in Fetched(q)

PollSound(c, p) ==
  LET q == poll[c][p] IN
  /\ q.at # "idle" => conn[c] = "open"
  /\ q.from \in {0} \cup Received(c)
  /\ q.at # "emit" => q.rows = <<>>
  /\ q.ended => phase = "TERMINAL"
  /\ RowsCover(q) /\ TailCovered(q)

ClientSound(c) ==
  /\ Received(c) \subseteq 1 .. next
  /\ cursor[c] \in {0} \cup Received(c)
  /\ \A s \in Received(c), m \in LockedNumbers : m <= s => m \in Received(c)
  /\ conn[c] = "done" => phase = "TERMINAL" /\ LockedNumbers \subseteq Received(c)
  /\ \A p \in Polls : PollSound(c, p)

StreamInv == IInv /\ StreamTypeOK /\ \A c \in Clients : ClientSound(c)

(* "reconnects never gap" (conversations.service.ts:850), for every event.   *)
NoGap == \A c \in Clients, id \in Ids : ~Skipped(c, id)

(* Without notices and with a query shorter than the timer's period, the     *)
(* stream is a feed: one order, in order, nothing skipped and nothing twice, *)
(* over any reconnects (conversations.service.ts:846).  Polls that overlap   *)
(* may start from one cursor and then both deliver.                          *)
Feed == INSTANCE EventFeed WITH feed <- Ordered(Published), got <- recv
IsFeed == Feed!Spec

(* The inductive invariant of the refinement: what a client received is the  *)
(* front of the feed, and what a poll carries is what comes next.            *)
Follows(s, k) ==
  /\ k + Len(s) <= Len(Ordered(Published))
  /\ \A i \in 1 .. Len(s) : s[i] = Ordered(Published)[k + i]

InFeed(c) ==
  /\ Follows(recv[c], 0)
  /\ conn[c] = "open" => cursor[c] = LastReceived(c)
  /\ \A p \in Polls :
       /\ poll[c][p].at # "idle" => poll[c][p].from = LastReceived(c)
       /\ Follows(poll[c][p].rows, Len(recv[c]))

DispatchedOnce == phase = "ACCEPTED" => log["dispatched"] = 0

FeedInv == StreamInv /\ DispatchedOnce /\ \A c \in Clients : InFeed(c)

(* A client of an ended run is told so, with every event, despite faults, as *)
(* long as no notice is late                                                 *)
(* (conversations.service.ts:909, :913).                                     *)
EventuallyFlushed ==
  \A c \in Clients : phase = "TERMINAL" ~> (conn[c] = "done" /\ Published \subseteq Received(c))
=============================================================================
