------------------------------- MODULE Outbox -------------------------------
(***************************************************************************)
(* The transactional outbox: rows of outbox_events, one inbox_events row   *)
(* per (consumer, event), and the dispatcher workers that move events from *)
(* one to the other (common/infra/outbox/dispatcher.ts, consumer.ts).      *)
(*                                                                         *)
(* One action is one database transaction of the dispatcher, or one run of *)
(* a consumer's handler; every await between two of them is a point where  *)
(* another worker may step, the process may die, or a window may lapse.    *)
(* Clock readings are abstracted to "this claim is older than the window": *)
(* agedClaim and agedInbox hold the rows a staleness test would accept.    *)
(***************************************************************************)
EXTENDS Integers, FiniteSets, Sequences

CONSTANTS
  NumEvents,     \* events 1..NumEvents, numbered in created_at order
  Workers,       \* dispatcher replicas
  Consumers,     \* registered consumers
  Subscribed,    \* event -> the consumers of its type, in registration order
  BatchSize,     \* OUTBOX_BATCH_SIZE
  MaxAttempts,   \* OUTBOX_MAX_ATTEMPTS
  MaxLate,       \* bound: claims that age while their holder is still working
  MaxCrashes,    \* bound: process deaths
  MaxDbErrors,   \* bound: failed transactions
  MaxReplays     \* bound: operator replays of dead letters

Events == 1..NumEvents

ASSUME OutboxAssumption ==
  /\ NumEvents \in Nat
  /\ Subscribed \in [Events -> Seq(Consumers)]
  /\ \A e \in Events : \A j, k \in DOMAIN Subscribed[e] :
       Subscribed[e][j] = Subscribed[e][k] => j = k   \* registered once each
  /\ BatchSize \in Nat \ {0}
  /\ MaxAttempts \in Nat \ {0}
  /\ MaxLate \in Nat /\ MaxCrashes \in Nat
  /\ MaxDbErrors \in Nat /\ MaxReplays \in Nat

VARIABLES
  status,      \* outbox_events.status, "ABSENT" before the producer commits
  attempts,    \* outbox_events.attempt_count
  agedClaim,   \* CLAIMED rows whose claimed_at is past the stale window
  inbox,       \* inbox_events.status per event and consumer, "NONE" = no row
  agedInbox,   \* PROCESSING rows whose last_received_at is past the window
  pc,          \* where each worker is in tick()
  batch,       \* the events of its claimed batch it has not finished
  seen,        \* attempt_count of those events as the claim read it
  cur,         \* the event publishOne works on (0: none)
  pos,         \* index of the consumer in the fan-out loop
  err,         \* the class of the error being handled
  done,        \* history: (event, consumer) pairs whose handler returned
  used         \* how much of each bound has been spent

rows    == <<status, attempts, agedClaim>>
inboxes == <<inbox, agedInbox>>
local   == <<pc, batch, seen, cur, pos, err>>
vars    == <<rows, inboxes, local, done, used>>

OutboxStatus == {"ABSENT", "PENDING", "CLAIMED", "RETRY_WAIT", "PUBLISHED", "DEAD_LETTER"}
InboxStatus  == {"NONE", "PROCESSING", "PROCESSED", "FAILED"}
Steps == {"idle", "claim", "inbox", "reclaim", "handle", "complete",
          "failinbox", "publish", "requeue", "mark"}
Bounds == {"late", "crash", "db", "replay"}
NoEvent == 0

Bound == [late |-> MaxLate, crash |-> MaxCrashes, db |-> MaxDbErrors, replay |-> MaxReplays]
Spend(b) == /\ used[b] < Bound[b]
            /\ used' = [used EXCEPT ![b] = @ + 1]

Consumer(w) == Subscribed[cur[w]][pos[w]]

\* A worker between the claim of an inbox row and its settlement.
Holds(w, e, c) == /\ pc[w] \in {"handle", "complete", "failinbox"}
                  /\ cur[w] = e
                  /\ Consumer(w) = c

Init ==
  /\ status = [e \in Events |-> "ABSENT"]
  /\ attempts = [e \in Events |-> 0]
  /\ agedClaim = {} /\ agedInbox = {}
  /\ inbox = [e \in Events |-> [c \in Consumers |-> "NONE"]]
  /\ pc = [w \in Workers |-> "idle"]
  /\ batch = [w \in Workers |-> {}]
  /\ seen = [w \in Workers |-> [e \in Events |-> 0]]
  /\ cur = [w \in Workers |-> NoEvent]
  /\ pos = [w \in Workers |-> 1]
  /\ err = [w \in Workers |-> "none"]
  /\ done = {}
  /\ used = [b \in Bounds |-> 0]

-----------------------------------------------------------------------------
(* Producers and operators.                                                *)

\* recordOutboxEvent inside the producer's transaction: visible at its commit,
\* which need not follow created_at order.
Record(e) ==
  /\ status[e] = "ABSENT"
  /\ status' = [status EXCEPT ![e] = "PENDING"]
  /\ UNCHANGED <<attempts, agedClaim, inboxes, local, done, used>>

\* Mutant: a replay starts afresh, inbox rows included.
ReplayAfresh(e) ==
  /\ status[e] = "DEAD_LETTER"
  /\ Spend("replay")
  /\ status' = [status EXCEPT ![e] = "PENDING"]
  /\ attempts' = [attempts EXCEPT ![e] = 0]
  /\ inbox' = [inbox EXCEPT ![e] = [c \in Consumers |-> "NONE"]]
  /\ UNCHANGED <<agedClaim, agedInbox, local, done>>

\* An operator has a dead letter delivered again, with its whole budget.
ReplayDeadLetter(e) ==
  /\ status[e] = "DEAD_LETTER"
  /\ Spend("replay")
  /\ status' = [status EXCEPT ![e] = "PENDING"]
  /\ attempts' = [attempts EXCEPT ![e] = 0]
  /\ UNCHANGED <<agedClaim, inboxes, local, done>>

-----------------------------------------------------------------------------
(* tick(): recover, claim, then publish the batch one event at a time.     *)

\* Mutant: a tick recovers every claim, whatever its age.
RecoverEveryClaim(w) ==
  /\ pc[w] = "idle"
  /\ status' = [e \in Events |-> IF status[e] = "CLAIMED" THEN "PENDING" ELSE status[e]]
  /\ agedClaim' = {}
  /\ pc' = [pc EXCEPT ![w] = "claim"]
  /\ UNCHANGED <<attempts, inboxes, batch, seen, cur, pos, err, done, used>>

\* Mutant: a tick recovers no claim.
RecoverNothing(w) ==
  /\ pc[w] = "idle"
  /\ pc' = [pc EXCEPT ![w] = "claim"]
  /\ UNCHANGED <<rows, inboxes, batch, seen, cur, pos, err, done, used>>

RecoverStaleClaims(w) ==
  /\ pc[w] = "idle"
  /\ status' = [e \in Events |-> IF e \in agedClaim THEN "PENDING" ELSE status[e]]
  /\ agedClaim' = {}
  /\ pc' = [pc EXCEPT ![w] = "claim"]
  /\ UNCHANGED <<attempts, inboxes, batch, seen, cur, pos, err, done, used>>

\* Only types some consumer here handles; a RETRY_WAIT row is claimable once
\* its delay has passed, which is any time from now on.
Claimable == {e \in Events : status[e] \in {"PENDING", "RETRY_WAIT"} /\ Subscribed[e] # <<>>}
Oldest(S) == {e \in S : Cardinality({f \in S : f < e}) < BatchSize}

\* Worker w turns to the earliest event of its remaining batch S.
TurnTo(w, S) ==
  /\ batch' = [batch EXCEPT ![w] = S]
  /\ pos' = [pos EXCEPT ![w] = 1]
  /\ err' = [err EXCEPT ![w] = "none"]
  /\ \/ /\ S = {}
        /\ cur' = [cur EXCEPT ![w] = NoEvent]
        /\ pc' = [pc EXCEPT ![w] = "idle"]
     \/ \E e \in S : /\ \A f \in S : e <= f
                     /\ cur' = [cur EXCEPT ![w] = e]
                     /\ pc' = [pc EXCEPT ![w] = "inbox"]

ClaimBatch(w) ==
  /\ pc[w] = "claim"
  /\ \E S \in SUBSET Claimable :
       /\ S = Oldest(Claimable)
       /\ status' = [e \in Events |-> IF e \in S THEN "CLAIMED" ELSE status[e]]
       /\ seen' = [seen EXCEPT ![w] = [e \in Events |-> IF e \in S THEN attempts[e] ELSE 0]]
       /\ TurnTo(w, S)
  /\ UNCHANGED <<attempts, agedClaim, inboxes, done, used>>

-----------------------------------------------------------------------------
(* publishOne: the fan-out loop over the event's consumers.                *)

GoTo(w, step) == pc' = [pc EXCEPT ![w] = step]

\* The loop's continue: next consumer, or out of the loop to markPublished.
NextConsumer(w) ==
  \/ /\ pos[w] < Len(Subscribed[cur[w]])
     /\ pos' = [pos EXCEPT ![w] = @ + 1]
     /\ GoTo(w, "inbox")
  \/ /\ pos[w] = Len(Subscribed[cur[w]])
     /\ GoTo(w, "publish")
     /\ UNCHANGED pos

SetInbox(e, c, st) ==
  /\ inbox' = [inbox EXCEPT ![e] = [@ EXCEPT ![c] = st]]
  /\ agedInbox' = agedInbox \ {<<e, c>>}

\* claimInbox up to its read: insert when there is no row, otherwise decide on
\* the row the select returned. The reclaiming update is a later statement, and
\* the row is not locked in between.
ClaimInbox(w) ==
  LET e == cur[w]  c == Consumer(w) IN
  /\ pc[w] = "inbox"
  /\ \/ /\ inbox[e][c] = "NONE"
        /\ SetInbox(e, c, "PROCESSING")
        /\ GoTo(w, "handle")
        /\ UNCHANGED pos
     \/ /\ inbox[e][c] = "PROCESSED"
        /\ NextConsumer(w)
        /\ UNCHANGED inboxes
     \/ /\ inbox[e][c] = "PROCESSING" /\ <<e, c>> \notin agedInbox
        /\ GoTo(w, "requeue")
        /\ UNCHANGED <<inboxes, pos>>
     \/ /\ inbox[e][c] = "FAILED" \/ (inbox[e][c] = "PROCESSING" /\ <<e, c>> \in agedInbox)
        /\ GoTo(w, "reclaim")
        /\ UNCHANGED <<inboxes, pos>>
  /\ UNCHANGED <<rows, batch, seen, cur, err, done, used>>

\* Mutant: the row is settled when it is reclaimed, before the handler ran.
ReclaimAsProcessed(w) ==
  /\ pc[w] = "reclaim"
  /\ SetInbox(cur[w], Consumer(w), "PROCESSED")
  /\ GoTo(w, "handle")
  /\ UNCHANGED <<rows, batch, seen, cur, pos, err, done, used>>

ReclaimInbox(w) ==
  /\ pc[w] = "reclaim"
  /\ SetInbox(cur[w], Consumer(w), "PROCESSING")
  /\ GoTo(w, "handle")
  /\ UNCHANGED <<rows, batch, seen, cur, pos, err, done, used>>

\* consumer.handle: it returns, throws a retryable error or a permanent one.
Handle(w) ==
  /\ pc[w] = "handle"
  /\ \/ /\ done' = done \cup {<<cur[w], Consumer(w)>>}
        /\ GoTo(w, "complete")
        /\ UNCHANGED err
     \/ \E kind \in {"transient", "permanent"} :
          /\ err' = [err EXCEPT ![w] = kind]
          /\ GoTo(w, "failinbox")
          /\ UNCHANGED done
  /\ UNCHANGED <<rows, inboxes, batch, seen, cur, pos, used>>

CompleteInbox(w) ==
  /\ pc[w] = "complete"
  /\ SetInbox(cur[w], Consumer(w), "PROCESSED")
  /\ NextConsumer(w)
  /\ UNCHANGED <<rows, batch, seen, cur, err, done, used>>

\* Mutant: a failed consumer does not stop the fan-out.
FailInboxAndGoOn(w) ==
  /\ pc[w] = "failinbox"
  /\ SetInbox(cur[w], Consumer(w), "FAILED")
  /\ IF pos[w] < Len(Subscribed[cur[w]])
     THEN pos' = [pos EXCEPT ![w] = @ + 1] /\ GoTo(w, "inbox")
     ELSE GoTo(w, "mark") /\ UNCHANGED pos
  /\ UNCHANGED <<rows, batch, seen, cur, err, done, used>>

FailInbox(w) ==
  /\ pc[w] = "failinbox"
  /\ SetInbox(cur[w], Consumer(w), "FAILED")
  /\ GoTo(w, "mark")
  /\ UNCHANGED <<rows, batch, seen, cur, pos, err, done, used>>

-----------------------------------------------------------------------------
(* The row updates that end publishOne. They are keyed by event_id alone:  *)
(* neither the status nor the claim's holder is part of the predicate.     *)

Settle(w, st) ==
  /\ status' = [status EXCEPT ![cur[w]] = st]
  /\ agedClaim' = agedClaim \ {cur[w]}
  /\ seen' = [seen EXCEPT ![w] = [@ EXCEPT ![cur[w]] = 0]]
  /\ TurnTo(w, batch[w] \ {cur[w]})

MarkPublished(w) ==
  /\ pc[w] = "publish"
  /\ Settle(w, "PUBLISHED")
  /\ UNCHANGED <<attempts, inboxes, done, used>>

RequeueBusy(w) ==
  /\ pc[w] = "requeue"
  /\ Settle(w, "RETRY_WAIT")
  /\ UNCHANGED <<attempts, inboxes, done, used>>

\* The attempt number comes from the row as claimBatch read it.
NextAttempt(w) == IF err[w] = "permanent" THEN MaxAttempts ELSE seen[w][cur[w]] + 1

\* Mutant: one retry too many.
MarkFailedOffByOne(w) ==
  /\ pc[w] = "mark"
  /\ attempts' = [attempts EXCEPT ![cur[w]] = NextAttempt(w)]
  /\ Settle(w, IF NextAttempt(w) > MaxAttempts THEN "DEAD_LETTER" ELSE "RETRY_WAIT")
  /\ UNCHANGED <<inboxes, done, used>>

MarkFailed(w) ==
  /\ pc[w] = "mark"
  /\ attempts' = [attempts EXCEPT ![cur[w]] = NextAttempt(w)]
  /\ Settle(w, IF NextAttempt(w) >= MaxAttempts THEN "DEAD_LETTER" ELSE "RETRY_WAIT")
  /\ UNCHANGED <<inboxes, done, used>>

-----------------------------------------------------------------------------
(* Failures and time.                                                      *)

Forget(w) ==
  /\ pc' = [pc EXCEPT ![w] = "idle"]
  /\ batch' = [batch EXCEPT ![w] = {}]
  /\ seen' = [seen EXCEPT ![w] = [e \in Events |-> 0]]
  /\ cur' = [cur EXCEPT ![w] = NoEvent]
  /\ pos' = [pos EXCEPT ![w] = 1]
  /\ err' = [err EXCEPT ![w] = "none"]

\* A transaction of publishOne throws. Inside the handler's try block the inner
\* catch runs failInbox first; elsewhere the outer catch marks the event; an
\* error of the marking itself leaves publishOne and aborts the whole tick.
DbError(w) ==
  /\ Spend("db")
  /\ \/ /\ pc[w] = "complete"
        /\ err' = [err EXCEPT ![w] = "transient"]
        /\ GoTo(w, "failinbox")
        /\ UNCHANGED <<batch, seen, cur, pos>>
     \/ /\ pc[w] \in {"inbox", "reclaim", "failinbox", "publish", "requeue"}
        /\ err' = [err EXCEPT ![w] = "transient"]
        /\ GoTo(w, "mark")
        /\ UNCHANGED <<batch, seen, cur, pos>>
     \/ /\ pc[w] \in {"claim", "mark"}
        /\ Forget(w)
  /\ UNCHANGED <<rows, inboxes, done>>

\* The process dies anywhere in a tick and is restarted with nothing in memory.
Crash(w) ==
  /\ pc[w] # "idle"
  /\ Spend("crash")
  /\ Forget(w)
  /\ UNCHANGED <<rows, inboxes, done>>

\* A claim's age passes the window, with nobody left to release the claim, or
\* under a live holder whose handler (or the batch before it) is slower than
\* the window; the second kind is bounded by MaxLate.
Lapses(holders) == IF holders = {} THEN UNCHANGED used ELSE Spend("late")
Batched(e)    == {w \in Workers : e \in batch[w]}
Holding(e, c) == {w \in Workers : Holds(w, e, c)}

AgeClaim(e) ==
  /\ status[e] = "CLAIMED" /\ e \notin agedClaim
  /\ Lapses(Batched(e))
  /\ agedClaim' = agedClaim \cup {e}
  /\ UNCHANGED <<status, attempts, inboxes, local, done>>

AgeInbox(e, c) ==
  /\ inbox[e][c] = "PROCESSING" /\ <<e, c>> \notin agedInbox
  /\ Lapses(Holding(e, c))
  /\ agedInbox' = agedInbox \cup {<<e, c>>}
  /\ UNCHANGED <<rows, inbox, local, done>>

-----------------------------------------------------------------------------
Work(w) == \/ RecoverStaleClaims(w) \/ ClaimBatch(w)
           \/ ClaimInbox(w) \/ ReclaimInbox(w) \/ Handle(w)
           \/ CompleteInbox(w) \/ FailInbox(w)
           \/ MarkPublished(w) \/ RequeueBusy(w) \/ MarkFailed(w)

TimePasses == \/ \E e \in Events : AgeClaim(e)
              \/ \E e \in Events, c \in Consumers : AgeInbox(e, c)

Next == \/ \E e \in Events : Record(e) \/ ReplayDeadLetter(e)
        \/ \E w \in Workers : Work(w) \/ DbError(w) \/ Crash(w)
        \/ TimePasses

Spec == Init /\ [][Next]_vars

\* setInterval keeps every live replica ticking, handlers return or throw, and
\* time passes; recording, replaying and failing are never owed to anyone.
Fairness ==
  /\ \A w \in Workers : WF_vars(Work(w))
  /\ \A e \in Events : WF_vars(Batched(e) = {} /\ AgeClaim(e))
  /\ \A e \in Events, c \in Consumers : WF_vars(Holding(e, c) = {} /\ AgeInbox(e, c))

FairSpec == Spec /\ Fairness

-----------------------------------------------------------------------------
\* The values every variable takes. The five outbox states and the inbox states
\* are those of schema.ts; RECEIVED is only a default that no insert relies on.
TypeOK ==
  /\ status \in [Events -> OutboxStatus]
  /\ attempts \in [Events -> Nat]
  /\ agedClaim \in SUBSET Events
  /\ inbox \in [Events -> [Consumers -> InboxStatus]]
  /\ agedInbox \in SUBSET (Events \X Consumers)
  /\ pc \in [Workers -> Steps]
  /\ batch \in [Workers -> SUBSET Events]
  /\ seen \in [Workers -> [Events -> Nat]]
  /\ cur \in [Workers -> Events \cup {NoEvent}]
  /\ pos \in [Workers -> Nat \ {0}]
  /\ err \in [Workers -> {"none", "transient", "permanent"}]
  /\ done \in SUBSET (Events \X Consumers)
  /\ used \in [Bounds -> Nat]

\* At-least-once delivery (consumer.ts:17): an event is PUBLISHED only when
\* the handler of every subscribed consumer has returned, whatever crashes,
\* lapsed windows and failed transactions came before.
DeliveredToAll ==
  \A e \in Events : status[e] = "PUBLISHED" =>
    \A k \in DOMAIN Subscribed[e] : <<e, Subscribed[e][k]>> \in done

\* An inbox row says PROCESSED only for a handler that returned, so a skip
\* never drops a side effect.
ProcessedWasHandled ==
  \A e \in Events, c \in Consumers : inbox[e][c] = "PROCESSED" => <<e, c>> \in done

\* The consumers of one event take effect in registration order, however many
\* workers and retries it took.
FanOutInOrder ==
  \A e \in Events : \A k \in DOMAIN Subscribed[e] :
    <<e, Subscribed[e][k]>> \in done =>
      \A j \in 1..k : <<e, Subscribed[e][j]>> \in done

\* No two workers are inside the handler of the same consumer for one event.
OneHandlerAtATime ==
  \A v, w \in Workers :
    (v # w /\ pc[v] = "handle" /\ pc[w] = "handle" /\ cur[v] = cur[w])
      => Consumer(v) # Consumer(w)

\* "The handler never runs twice for the same (consumer, event) unless the claim
\* went stale" (consumer.ts:13): while none does under a live holder, and before
\* a process dies or a transaction fails, a handler that has returned is not run
\* again, by no retry of its fan-out, no replay and no other replica.
NoRepeatBeforeFault ==
  used["crash"] = 0 /\ used["db"] = 0 =>
    \A w \in Workers : pc[w] = "handle" => <<cur[w], Consumer(w)>> \notin done

\* A row waiting for a retry has budget left, and no row has spent more than
\* its budget: the dispatcher gives up exactly at OUTBOX_MAX_ATTEMPTS.
RetryBudget ==
  \A e \in Events : /\ attempts[e] <= MaxAttempts
                    /\ status[e] = "RETRY_WAIT" => attempts[e] < MaxAttempts

\* Every recorded event that somebody subscribes to is eventually published or
\* dead-lettered: no claim, busy consumer or crash strands it.
EventuallySettled ==
  \A e \in Events : Subscribed[e] # <<>> =>
    (status[e] = "PENDING" ~> status[e] \in {"PUBLISHED", "DEAD_LETTER"})
-----------------------------------------------------------------------------
(* The inductive invariant behind the three delivery properties: where a   *)
(* worker stands in the fan-out loop bears witness to what has been served.*)

Active(w) == pc[w] \notin {"idle", "claim"}

Cursor ==
  \A w \in Workers :
    /\ \A e \in batch[w] : Subscribed[e] # <<>>
    /\ Active(w) => cur[w] \in batch[w] /\ pos[w] \in 1..Len(Subscribed[cur[w]])

Served ==
  \A w \in Workers : Active(w) =>
    \A k \in 1..Len(Subscribed[cur[w]]) :
      (k < pos[w] \/ (k = pos[w] /\ pc[w] \in {"complete", "publish"}))
        => <<cur[w], Subscribed[cur[w]][k]>> \in done

LoopAtEnd ==
  \A w \in Workers : pc[w] = "publish" => pos[w] = Len(Subscribed[cur[w]])

\* What makes skipping safe: a worker has passed a consumer only if its handler
\* returned (publishOne, dispatcher.ts:166-195), an inbox row says PROCESSED only
\* of such a handler, consumers take effect in registration order, and PUBLISHED
\* means all of them.
IInv == /\ TypeOK /\ Cursor /\ Served /\ LoopAtEnd
        /\ ProcessedWasHandled /\ FanOutInOrder /\ DeliveredToAll

-----------------------------------------------------------------------------
(* What no late claim disturbs: while no claim ages under a live holder    *)
(* (MaxLate = 0), a batch is its worker's alone.                           *)

\* An event of a batch is CLAIMED by that worker and no other; only rows that
\* are CLAIMED and in nobody's batch have aged.
ClaimsExclusive ==
  /\ \A e \in agedClaim : status[e] = "CLAIMED"
  /\ \A w \in Workers : \A e \in batch[w] : status[e] = "CLAIMED" /\ e \notin agedClaim
  /\ \A v, w \in Workers : v # w => batch[v] \cap batch[w] = {}

\* A row that may still be tried has budget left, and the attempt count a worker
\* read is that of the row.
BudgetLeft ==
  /\ \A e \in Events : /\ attempts[e] <= MaxAttempts
                       /\ status[e] \notin {"PUBLISHED", "DEAD_LETTER"} => attempts[e] < MaxAttempts
  /\ \A w \in Workers : \A e \in batch[w] : seen[w][e] = attempts[e]

PunctualInv == IInv /\ ClaimsExclusive /\ BudgetLeft

\* Until something fails, what a handler did is in its inbox row, or about to be.
Remembered ==
  used["crash"] = 0 /\ used["db"] = 0 =>
    /\ \A e \in Events, c \in Consumers : <<e, c>> \in done =>
         \/ inbox[e][c] = "PROCESSED"
         \/ \E w \in Workers : pc[w] = "complete" /\ cur[w] = e /\ Consumer(w) = c
    /\ \A w \in Workers : pc[w] \in {"reclaim", "handle", "failinbox"} =>
         <<cur[w], Consumer(w)>> \notin done

Phase(st) == CASE st = "ABSENT"      -> "unrecorded"
               [] st = "PUBLISHED"   -> "published"
               [] st = "DEAD_LETTER" -> "dead"
               [] OTHER              -> "open"

\* While no claim outlives its holder, the dispatcher implements Delivery.
Abstract == INSTANCE Delivery WITH phase <- [e \in Events |-> Phase(status[e])]
Delivers == Abstract!Spec

-----------------------------------------------------------------------------
\* A statement of the code's comments that the code does not keep once a claim
\* goes stale under a slow holder (MaxLate > 0).

\* "PROCESSED rows skip forever" (consumer.ts:50): the row never becomes
\* claimable again, so its side effect is not run again.
ProcessedIsFinal ==
  [][\A e \in Events, c \in Consumers :
       inbox[e][c] = "PROCESSED" => inbox'[e][c] = "PROCESSED"]_vars
=============================================================================
