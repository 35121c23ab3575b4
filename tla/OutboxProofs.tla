---------------------------- MODULE OutboxProofs ----------------------------
(***************************************************************************)
(* At-least-once delivery, proved of the dispatcher for every number of    *)
(* workers, events and consumers and every bound on lapsed claims, crashes *)
(* and failed transactions.                                                *)
(***************************************************************************)
EXTENDS Outbox, TLAPS

\* What a worker's position says while it is inside publishOne.
LEMMA CursorInRange ==
  ASSUME IInv, NEW w \in Workers, Active(w)
  PROVE  /\ cur[w] \in Events /\ cur[w] \in batch[w]
         /\ Subscribed[cur[w]] \in Seq(Consumers)
         /\ pos[w] \in 1..Len(Subscribed[cur[w]])
         /\ Len(Subscribed[cur[w]]) \in Nat
         /\ Consumer(w) \in Consumers
<1>1. cur[w] \in Events /\ cur[w] \in batch[w] /\ pos[w] \in 1..Len(Subscribed[cur[w]])
  BY DEF IInv, TypeOK, Cursor
<1>2. Subscribed[cur[w]] \in Seq(Consumers)
  BY <1>1, OutboxAssumption
<1>3. QED
  BY <1>1, <1>2 DEF Consumer

\* Turning to the next event of a batch whose events all have subscribers
\* leaves the worker idle or at the first consumer of one of them.
LEMMA TurnToStarts ==
  ASSUME IInv, NEW w \in Workers, NEW S \in SUBSET Events,
         \A e \in S : Subscribed[e] # <<>>,
         TurnTo(w, S)
  PROVE  /\ batch' \in [Workers -> SUBSET Events]
         /\ cur' \in [Workers -> Events \cup {NoEvent}]
         /\ pos' \in [Workers -> Nat \ {0}]
         /\ err' \in [Workers -> {"none", "transient", "permanent"}]
         /\ pc' \in [Workers -> Steps]
         /\ Cursor'
         /\ done' = done => Served'
         /\ LoopAtEnd'
<1> USE DEF IInv, TypeOK, TurnTo
<1>0. cur' \in [Workers -> Events \cup {NoEvent}] /\ pc' \in [Workers -> Steps]
  <2>1. CASE S = {} /\ cur' = [cur EXCEPT ![w] = NoEvent] /\ pc' = [pc EXCEPT ![w] = "idle"]
    BY <2>1 DEF Steps
  <2>2. ASSUME NEW e \in S, cur' = [cur EXCEPT ![w] = e] /\ pc' = [pc EXCEPT ![w] = "inbox"]
        PROVE  cur' \in [Workers -> Events \cup {NoEvent}] /\ pc' \in [Workers -> Steps]
    BY <2>2 DEF Steps
  <2>3. QED
    BY <2>1, <2>2
<1>1. /\ batch' \in [Workers -> SUBSET Events]
      /\ cur' \in [Workers -> Events \cup {NoEvent}]
      /\ pos' \in [Workers -> Nat \ {0}]
      /\ err' \in [Workers -> {"none", "transient", "permanent"}]
      /\ pc' \in [Workers -> Steps]
  BY <1>0
<1>2. \A v \in Workers : v # w => /\ pc'[v] = pc[v] /\ cur'[v] = cur[v]
                                  /\ pos'[v] = pos[v] /\ batch'[v] = batch[v]
  OBVIOUS
<1>3. /\ batch'[w] = S /\ pos'[w] = 1
      /\ \/ pc'[w] = "idle"
         \/ pc'[w] = "inbox" /\ cur'[w] \in S
  OBVIOUS
<1>4. \A e \in S : Len(Subscribed[e]) \in Nat \ {0}
  BY OutboxAssumption
<1>5. Cursor'
  BY <1>2, <1>3, <1>4 DEF Cursor, Active
<1>6. done' = done => Served'
  BY <1>2, <1>3, <1>4 DEF Served, Active
<1>7. LoopAtEnd'
  BY <1>2, <1>3 DEF LoopAtEnd
<1>8. QED
  BY <1>1, <1>5, <1>6, <1>7

\* A step that leaves the rows' status and the history of handlers alone
\* cannot disturb what was delivered, nor the order it was delivered in.
LEMMA HistoryFrame ==
  ASSUME IInv, done' = done, UNCHANGED status
  PROVE  FanOutInOrder' /\ DeliveredToAll'
BY DEF IInv, FanOutInOrder, DeliveredToAll

\* The invariant holds of an empty outbox and idle workers.
LEMMA InitIInv == Init => IInv
<1> SUFFICES ASSUME Init PROVE IInv
  OBVIOUS
<1>1. TypeOK
  BY OutboxAssumption DEF Init, TypeOK, OutboxStatus, InboxStatus, Steps, Bounds, NoEvent
<1>2. QED
  BY <1>1 DEF Init, IInv, Cursor, Served, LoopAtEnd, Active,
              ProcessedWasHandled, FanOutInOrder, DeliveredToAll

\* Recording an event and replaying a dead letter touch only its row, and never
\* make it PUBLISHED.
LEMMA ProducerStep ==
  ASSUME IInv, NEW e \in Events, Record(e) \/ ReplayDeadLetter(e) PROVE IInv'
<1> USE DEF Record, ReplayDeadLetter, rows, inboxes, local, Spend
<1>1. TypeOK'
  <2>1. CASE Record(e)
    BY <2>1 DEF IInv, TypeOK, OutboxStatus
  <2>2. CASE ReplayDeadLetter(e)
    BY <2>2 DEF IInv, TypeOK, OutboxStatus, Bounds
  <2>3. QED
    BY <2>1, <2>2
<1>2. Cursor' /\ Served' /\ LoopAtEnd'
  BY DEF IInv, Cursor, Served, LoopAtEnd, Active
<1>3. ProcessedWasHandled' /\ FanOutInOrder'
  BY DEF IInv, ProcessedWasHandled, FanOutInOrder
<1>4. DeliveredToAll'
  BY DEF IInv, TypeOK, DeliveredToAll
<1>5. QED
  BY <1>1, <1>2, <1>3, <1>4 DEF IInv

\* Returning stale claims to PENDING publishes nothing and moves no worker
\* inside publishOne.
LEMMA RecoverStep ==
  ASSUME IInv, NEW w \in Workers, RecoverStaleClaims(w) PROVE IInv'
<1> USE DEF RecoverStaleClaims, inboxes
<1>1. TypeOK'
  BY DEF IInv, TypeOK, OutboxStatus, Steps
<1>2. Cursor' /\ Served' /\ LoopAtEnd'
  BY DEF IInv, TypeOK, Cursor, Served, LoopAtEnd, Active
<1>3. ProcessedWasHandled' /\ FanOutInOrder'
  BY DEF IInv, ProcessedWasHandled, FanOutInOrder
<1>4. DeliveredToAll'
  BY DEF IInv, TypeOK, DeliveredToAll
<1>5. QED
  BY <1>1, <1>2, <1>3, <1>4 DEF IInv

\* A claimed batch holds only subscribed events, and the worker starts its
\* fan-out at the first consumer.
LEMMA ClaimBatchStep ==
  ASSUME IInv, NEW w \in Workers, ClaimBatch(w) PROVE IInv'
<1>1. PICK S \in SUBSET Claimable :
        /\ status' = [e \in Events |-> IF e \in S THEN "CLAIMED" ELSE status[e]]
        /\ seen' = [seen EXCEPT ![w] = [e \in Events |-> IF e \in S THEN attempts[e] ELSE 0]]
        /\ TurnTo(w, S)
  BY DEF ClaimBatch
<1>2. S \in SUBSET Events /\ \A e \in S : Subscribed[e] # <<>>
  BY <1>1 DEF Claimable
<1>3. UNCHANGED <<attempts, agedClaim, inboxes, done, used>>
  BY DEF ClaimBatch
<1>4. /\ batch' \in [Workers -> SUBSET Events]
      /\ cur' \in [Workers -> Events \cup {NoEvent}]
      /\ pos' \in [Workers -> Nat \ {0}]
      /\ err' \in [Workers -> {"none", "transient", "permanent"}]
      /\ pc' \in [Workers -> Steps]
      /\ Cursor' /\ Served' /\ LoopAtEnd'
  BY <1>1, <1>2, <1>3, TurnToStarts
<1>5. status' \in [Events -> OutboxStatus] /\ seen' \in [Workers -> [Events -> Nat]]
  BY <1>1 DEF IInv, TypeOK, OutboxStatus
<1>6. TypeOK'
  BY <1>3, <1>4, <1>5 DEF IInv, TypeOK, inboxes
<1>7. ProcessedWasHandled' /\ FanOutInOrder'
  BY <1>3 DEF IInv, ProcessedWasHandled, FanOutInOrder, inboxes
<1>8. DeliveredToAll'
  BY <1>1, <1>3 DEF IInv, TypeOK, DeliveredToAll
<1>9. QED
  BY <1>4, <1>6, <1>7, <1>8 DEF IInv

\* The loop's continue after a consumer is known to be served.
LEMMA ContinueLoop ==
  ASSUME IInv, NEW w \in Workers, Active(w), NextConsumer(w),
         done' = done, UNCHANGED <<batch, cur>>,
         <<cur[w], Consumer(w)>> \in done
  PROVE  pc' \in [Workers -> Steps] /\ pos' \in [Workers -> Nat \ {0}]
         /\ Cursor' /\ Served' /\ LoopAtEnd'
<1>1. /\ cur[w] \in Events /\ cur[w] \in batch[w]
      /\ pos[w] \in 1..Len(Subscribed[cur[w]]) /\ Len(Subscribed[cur[w]]) \in Nat
  BY CursorInRange
<1>2. CASE pos[w] < Len(Subscribed[cur[w]]) /\ pos' = [pos EXCEPT ![w] = @ + 1]
           /\ pc' = [pc EXCEPT ![w] = "inbox"]
  <2>1. pc' \in [Workers -> Steps] /\ pos' \in [Workers -> Nat \ {0}]
    BY <1>1, <1>2 DEF IInv, TypeOK, Steps
  <2>2. pos'[w] = pos[w] + 1 /\ pc'[w] = "inbox"
    BY <1>2 DEF IInv, TypeOK
  <2>3. \A v \in Workers : v # w => pos'[v] = pos[v] /\ pc'[v] = pc[v]
    BY <1>2 DEF IInv, TypeOK
  <2>4. Cursor' /\ LoopAtEnd'
    BY <1>1, <1>2, <2>2, <2>3 DEF IInv, Cursor, LoopAtEnd, Active
  <2>5. Served'
    BY <1>1, <1>2, <2>2, <2>3 DEF IInv, Served, Active, Consumer
  <2>6. QED
    BY <2>1, <2>4, <2>5
<1>3. CASE pos[w] = Len(Subscribed[cur[w]]) /\ UNCHANGED pos
           /\ pc' = [pc EXCEPT ![w] = "publish"]
  <2>1. pc' \in [Workers -> Steps] /\ pos' \in [Workers -> Nat \ {0}]
    BY <1>3 DEF IInv, TypeOK, Steps
  <2>2. pc'[w] = "publish" /\ \A v \in Workers : v # w => pc'[v] = pc[v]
    BY <1>3 DEF IInv, TypeOK
  <2>3. Cursor' /\ LoopAtEnd'
    BY <1>1, <1>3, <2>2 DEF IInv, Cursor, LoopAtEnd, Active
  <2>4. Served'
    BY <1>1, <1>3, <2>2 DEF IInv, Served, Active, Consumer
  <2>5. QED
    BY <2>1, <2>3, <2>4
<1>4. QED
  BY <1>2, <1>3 DEF NextConsumer, GoTo

\* A jump inside publishOne that stays on the same consumer and claims no
\* more to be served than before.
LEMMA Jump ==
  ASSUME IInv, NEW w \in Workers, Active(w),
         NEW step \in Steps \ {"complete", "publish"}, GoTo(w, step),
         done' = done, UNCHANGED <<batch, cur, pos>>
  PROVE  pc' \in [Workers -> Steps] /\ Cursor' /\ Served' /\ LoopAtEnd'
<1>1. pc' \in [Workers -> Steps] /\ pc'[w] = step
      /\ \A v \in Workers : v # w => pc'[v] = pc[v]
  BY DEF GoTo, IInv, TypeOK
<1>2. Cursor' /\ LoopAtEnd'
  BY <1>1 DEF IInv, Cursor, LoopAtEnd, Active
<1>3. Served'
  BY <1>1 DEF IInv, Served, Active
<1>4. QED
  BY <1>1, <1>2, <1>3

\* An inbox row may be set to PROCESSED only when its handler has returned.
LEMMA SetInboxTyped ==
  ASSUME IInv, NEW e \in Events, NEW c \in Consumers, NEW st \in InboxStatus,
         SetInbox(e, c, st), done' = done, st = "PROCESSED" => <<e, c>> \in done
  PROVE  /\ inbox' \in [Events -> [Consumers -> InboxStatus]]
         /\ agedInbox' \in SUBSET (Events \X Consumers)
         /\ ProcessedWasHandled'
<1>1. inbox' \in [Events -> [Consumers -> InboxStatus]]
  BY DEF SetInbox, IInv, TypeOK
<1>2. agedInbox' \in SUBSET (Events \X Consumers)
  BY DEF SetInbox, IInv, TypeOK
<1>3. \A f \in Events, d \in Consumers :
        inbox'[f][d] = IF f = e /\ d = c THEN st ELSE inbox[f][d]
  BY DEF SetInbox, IInv, TypeOK
<1>4. ProcessedWasHandled'
  BY <1>3 DEF ProcessedWasHandled, IInv
<1>5. QED
  BY <1>1, <1>2, <1>4

\* claimInbox: insert, skip (the row vouches for the handler), busy or reclaim.
LEMMA ClaimInboxStep ==
  ASSUME IInv, NEW w \in Workers, ClaimInbox(w) PROVE IInv'
<1> DEFINE e == cur[w]
           c == Consumer(w)
<1>1. Active(w) /\ UNCHANGED <<rows, batch, seen, cur, err, done, used>>
  BY DEF ClaimInbox, Active
<1>2. e \in Events /\ c \in Consumers
  BY <1>1, CursorInRange
<1>3. FanOutInOrder' /\ DeliveredToAll'
  BY <1>1, HistoryFrame DEF rows
<1>4. CASE inbox[e][c] = "NONE" /\ SetInbox(e, c, "PROCESSING") /\ GoTo(w, "handle") /\ UNCHANGED pos
  <2>1. pc' \in [Workers -> Steps] /\ Cursor' /\ Served' /\ LoopAtEnd'
    BY <1>1, <1>4, Jump DEF Steps
  <2>2. /\ inbox' \in [Events -> [Consumers -> InboxStatus]]
        /\ agedInbox' \in SUBSET (Events \X Consumers) /\ ProcessedWasHandled'
    BY <1>1, <1>2, <1>4, SetInboxTyped DEF InboxStatus
  <2>3. TypeOK'
    BY <1>1, <1>4, <2>1, <2>2 DEF IInv, TypeOK, rows
  <2>4. QED
    BY <1>3, <2>1, <2>2, <2>3 DEF IInv
<1>5. CASE inbox[e][c] = "PROCESSED" /\ NextConsumer(w) /\ UNCHANGED inboxes
  <2>1. <<e, c>> \in done
    BY <1>2, <1>5 DEF IInv, ProcessedWasHandled
  <2>2. /\ pc' \in [Workers -> Steps] /\ pos' \in [Workers -> Nat \ {0}]
        /\ Cursor' /\ Served' /\ LoopAtEnd'
    BY <1>1, <1>5, <2>1, ContinueLoop
  <2>3. TypeOK' /\ ProcessedWasHandled'
    BY <1>1, <1>5, <2>2 DEF IInv, TypeOK, ProcessedWasHandled, rows, inboxes
  <2>4. QED
    BY <1>3, <2>2, <2>3 DEF IInv
<1>6. CASE \E step \in {"requeue", "reclaim"} : GoTo(w, step) /\ UNCHANGED <<inboxes, pos>>
  <2>1. pc' \in [Workers -> Steps] /\ Cursor' /\ Served' /\ LoopAtEnd'
    BY <1>1, <1>6, Jump DEF Steps
  <2>2. TypeOK' /\ ProcessedWasHandled'
    BY <1>1, <1>6, <2>1 DEF IInv, TypeOK, ProcessedWasHandled, rows, inboxes
  <2>3. QED
    BY <1>3, <2>1, <2>2 DEF IInv
<1>7. QED
  BY <1>4, <1>5, <1>6 DEF ClaimInbox

\* Reclaiming an inbox row promises nothing about its handler.
LEMMA ReclaimInboxStep ==
  ASSUME IInv, NEW w \in Workers, ReclaimInbox(w) PROVE IInv'
<1>1. /\ Active(w) /\ UNCHANGED <<rows, batch, seen, cur, pos, err, done, used>>
      /\ GoTo(w, "handle") /\ SetInbox(cur[w], Consumer(w), "PROCESSING")
  BY DEF ReclaimInbox, Active
<1>2. cur[w] \in Events /\ Consumer(w) \in Consumers
  BY <1>1, CursorInRange
<1>3. pc' \in [Workers -> Steps] /\ Cursor' /\ Served' /\ LoopAtEnd'
  BY <1>1, Jump DEF Steps
<1>4. /\ inbox' \in [Events -> [Consumers -> InboxStatus]]
      /\ agedInbox' \in SUBSET (Events \X Consumers) /\ ProcessedWasHandled'
  BY <1>1, <1>2, SetInboxTyped DEF InboxStatus
<1>5. TypeOK' /\ FanOutInOrder' /\ DeliveredToAll'
  BY <1>1, <1>3, <1>4, HistoryFrame DEF IInv, TypeOK, rows
<1>6. QED
  BY <1>3, <1>4, <1>5 DEF IInv

\* A handler that returns extends the history by the consumer the worker is
\* at, all the earlier ones having been served; one that throws leaves it alone.
LEMMA HandleStep ==
  ASSUME IInv, NEW w \in Workers, Handle(w) PROVE IInv'
<1>1. Active(w) /\ UNCHANGED <<rows, inboxes, batch, seen, cur, pos, used>>
  BY DEF Handle, Active
<1>2. /\ cur[w] \in Events /\ Consumer(w) \in Consumers
      /\ pos[w] \in 1..Len(Subscribed[cur[w]]) /\ Len(Subscribed[cur[w]]) \in Nat
  BY <1>1, CursorInRange
<1>3. CASE done' = done \cup {<<cur[w], Consumer(w)>>} /\ GoTo(w, "complete") /\ UNCHANGED err
  <2>1. pc' \in [Workers -> Steps] /\ pc'[w] = "complete"
        /\ \A v \in Workers : v # w => pc'[v] = pc[v]
    BY <1>3 DEF GoTo, IInv, TypeOK, Steps
  <2>2. TypeOK'
    BY <1>1, <1>2, <1>3, <2>1 DEF IInv, TypeOK, rows, inboxes
  <2>3. Cursor' /\ LoopAtEnd'
    BY <1>1, <1>2, <2>1 DEF IInv, Cursor, LoopAtEnd, Active
  <2>4. Served'
    BY <1>1, <1>2, <1>3, <2>1 DEF IInv, Served, Active, Consumer
  <2>5. ProcessedWasHandled' /\ DeliveredToAll'
    BY <1>1, <1>3 DEF IInv, ProcessedWasHandled, DeliveredToAll, rows, inboxes
  <2>6. FanOutInOrder'
    <3> SUFFICES ASSUME NEW e \in Events, NEW k \in DOMAIN Subscribed[e],
                        <<e, Subscribed[e][k]>> \in done', NEW j \in 1..k
                 PROVE  <<e, Subscribed[e][j]>> \in done'
      BY DEF FanOutInOrder
    <3>1. CASE <<e, Subscribed[e][k]>> \in done
      BY <1>3, <3>1 DEF IInv, FanOutInOrder
    <3>2. CASE e = cur[w] /\ Subscribed[e][k] = Consumer(w)
      <4>1. \A i \in 1..pos[w] : <<e, Subscribed[e][i]>> \in done'
        BY <1>1, <1>2, <1>3, <3>2 DEF IInv, Served, Consumer
      <4>2. k = pos[w]   \* each consumer is registered once
        BY <1>2, <3>2, OutboxAssumption DEF Consumer
      <4>3. QED
        BY <4>1, <4>2
    <3>3. QED
      BY <1>3, <3>1, <3>2
  <2>7. QED
    BY <2>2, <2>3, <2>4, <2>5, <2>6 DEF IInv
<1>4. CASE \E kind \in {"transient", "permanent"} :
             err' = [err EXCEPT ![w] = kind] /\ GoTo(w, "failinbox") /\ UNCHANGED done
  <2>1. pc' \in [Workers -> Steps] /\ Cursor' /\ Served' /\ LoopAtEnd'
    BY <1>1, <1>4, Jump DEF Steps
  <2>2. TypeOK' /\ ProcessedWasHandled' /\ FanOutInOrder' /\ DeliveredToAll'
    BY <1>1, <1>4, <2>1, HistoryFrame DEF IInv, TypeOK, ProcessedWasHandled, rows, inboxes
  <2>3. QED
    BY <2>1, <2>2 DEF IInv
<1>5. QED
  BY <1>3, <1>4 DEF Handle

\* completeInbox marks the row of the handler that has just returned.
LEMMA CompleteInboxStep ==
  ASSUME IInv, NEW w \in Workers, CompleteInbox(w) PROVE IInv'
<1>1. /\ Active(w) /\ UNCHANGED <<rows, batch, seen, cur, err, done, used>>
      /\ NextConsumer(w) /\ SetInbox(cur[w], Consumer(w), "PROCESSED")
      /\ pc[w] = "complete"
  BY DEF CompleteInbox, Active
<1>2. /\ cur[w] \in Events /\ Consumer(w) \in Consumers
      /\ pos[w] \in 1..Len(Subscribed[cur[w]]) /\ Len(Subscribed[cur[w]]) \in Nat
  BY <1>1, CursorInRange
<1>3. <<cur[w], Consumer(w)>> \in done
  BY <1>1, <1>2 DEF IInv, Served, Consumer
<1>4. /\ pc' \in [Workers -> Steps] /\ pos' \in [Workers -> Nat \ {0}]
      /\ Cursor' /\ Served' /\ LoopAtEnd'
  BY <1>1, <1>3, ContinueLoop
<1>5. /\ inbox' \in [Events -> [Consumers -> InboxStatus]]
      /\ agedInbox' \in SUBSET (Events \X Consumers) /\ ProcessedWasHandled'
  BY <1>1, <1>2, <1>3, SetInboxTyped DEF InboxStatus
<1>6. TypeOK' /\ FanOutInOrder' /\ DeliveredToAll'
  BY <1>1, <1>4, <1>5, HistoryFrame DEF IInv, TypeOK, rows
<1>7. QED
  BY <1>4, <1>5, <1>6 DEF IInv

\* failInbox leaves the fan-out at the consumer that failed.
LEMMA FailInboxStep ==
  ASSUME IInv, NEW w \in Workers, FailInbox(w) PROVE IInv'
<1>1. /\ Active(w) /\ UNCHANGED <<rows, batch, seen, cur, pos, err, done, used>>
      /\ GoTo(w, "mark") /\ SetInbox(cur[w], Consumer(w), "FAILED")
  BY DEF FailInbox, Active
<1>2. cur[w] \in Events /\ Consumer(w) \in Consumers
  BY <1>1, CursorInRange
<1>3. pc' \in [Workers -> Steps] /\ Cursor' /\ Served' /\ LoopAtEnd'
  BY <1>1, Jump DEF Steps
<1>4. /\ inbox' \in [Events -> [Consumers -> InboxStatus]]
      /\ agedInbox' \in SUBSET (Events \X Consumers) /\ ProcessedWasHandled'
  BY <1>1, <1>2, SetInboxTyped DEF InboxStatus
<1>5. TypeOK' /\ FanOutInOrder' /\ DeliveredToAll'
  BY <1>1, <1>3, <1>4, HistoryFrame DEF IInv, TypeOK, rows
<1>6. QED
  BY <1>3, <1>4, <1>5 DEF IInv

\* The three updates that end publishOne; only markPublished has to show that
\* every consumer was served.
LEMMA SettleStep ==
  ASSUME IInv, NEW w \in Workers, Active(w), NEW st \in OutboxStatus, Settle(w, st),
         attempts' \in [Events -> Nat], UNCHANGED <<inboxes, done, used>>,
         st = "PUBLISHED" => \A k \in DOMAIN Subscribed[cur[w]] :
                               <<cur[w], Subscribed[cur[w]][k]>> \in done
  PROVE  IInv'
<1>1. cur[w] \in Events
  BY CursorInRange
<1>2. /\ batch[w] \ {cur[w]} \in SUBSET Events
      /\ \A e \in batch[w] \ {cur[w]} : Subscribed[e] # <<>>
  BY DEF IInv, TypeOK, Cursor
<1>3. TurnTo(w, batch[w] \ {cur[w]})
  BY DEF Settle
<1>4. /\ batch' \in [Workers -> SUBSET Events]
      /\ cur' \in [Workers -> Events \cup {NoEvent}]
      /\ pos' \in [Workers -> Nat \ {0}]
      /\ err' \in [Workers -> {"none", "transient", "permanent"}]
      /\ pc' \in [Workers -> Steps]
      /\ Cursor' /\ Served' /\ LoopAtEnd'
  BY <1>2, <1>3, TurnToStarts
<1>5. /\ status' = [status EXCEPT ![cur[w]] = st]
      /\ agedClaim' = agedClaim \ {cur[w]}
      /\ seen' = [seen EXCEPT ![w] = [@ EXCEPT ![cur[w]] = 0]]
  BY DEF Settle
<1>6. status' \in [Events -> OutboxStatus] /\ seen' \in [Workers -> [Events -> Nat]]
      /\ agedClaim' \in SUBSET Events
  BY <1>1, <1>5 DEF IInv, TypeOK
<1>7. TypeOK'
  BY <1>4, <1>6 DEF IInv, TypeOK, inboxes
<1>8. ProcessedWasHandled' /\ FanOutInOrder'
  BY DEF IInv, ProcessedWasHandled, FanOutInOrder, inboxes
<1>9. DeliveredToAll'
  BY <1>1, <1>5 DEF IInv, TypeOK, DeliveredToAll
<1>10. QED
  BY <1>4, <1>7, <1>8, <1>9 DEF IInv

\* markPublished, requeueBusy and the failure marking: at markPublished the
\* loop is past its last consumer.
LEMMA SettlingSteps ==
  ASSUME IInv, NEW w \in Workers, MarkPublished(w) \/ RequeueBusy(w) \/ MarkFailed(w)
  PROVE  IInv'
<1>1. CASE MarkPublished(w)
  <2>1. Active(w) /\ UNCHANGED <<attempts, inboxes, done, used>> /\ Settle(w, "PUBLISHED")
    BY <1>1 DEF MarkPublished, Active
  <2>2. \A k \in DOMAIN Subscribed[cur[w]] : <<cur[w], Subscribed[cur[w]][k]>> \in done
    <3>1. /\ pos[w] = Len(Subscribed[cur[w]]) /\ Len(Subscribed[cur[w]]) \in Nat
          /\ Subscribed[cur[w]] \in Seq(Consumers)
      BY <1>1, <2>1, CursorInRange DEF IInv, LoopAtEnd, MarkPublished
    <3>2. /\ Served /\ pc[w] = "publish"
          /\ DOMAIN Subscribed[cur[w]] = 1..Len(Subscribed[cur[w]])
      BY <1>1, <3>1 DEF IInv, MarkPublished
    <3>3. ASSUME NEW k \in 1..Len(Subscribed[cur[w]])
          PROVE  k < pos[w] \/ k = pos[w]
      BY <3>1
    <3>4. QED
      BY <2>1, <3>2, <3>3 DEF Served
  <2>3. attempts' \in [Events -> Nat]
    BY <2>1 DEF IInv, TypeOK
  <2>4. QED
    BY <2>1, <2>2, <2>3, SettleStep DEF OutboxStatus
<1>2. CASE RequeueBusy(w)
  <2>1. Active(w) /\ UNCHANGED <<attempts, inboxes, done, used>> /\ Settle(w, "RETRY_WAIT")
    BY <1>2 DEF RequeueBusy, Active
  <2>2. attempts' \in [Events -> Nat]
    BY <2>1 DEF IInv, TypeOK
  <2>3. QED
    BY <2>1, <2>2, SettleStep DEF OutboxStatus
<1>3. CASE MarkFailed(w)
  <2>1. /\ Active(w) /\ UNCHANGED <<inboxes, done, used>>
        /\ attempts' = [attempts EXCEPT ![cur[w]] = NextAttempt(w)]
        /\ \E st \in {"DEAD_LETTER", "RETRY_WAIT"} : Settle(w, st)
    BY <1>3 DEF MarkFailed, Active
  <2>2. NextAttempt(w) \in Nat
    BY <2>1, CursorInRange, OutboxAssumption DEF NextAttempt, IInv, TypeOK
  <2>3. attempts' \in [Events -> Nat]
    BY <2>1, <2>2 DEF IInv, TypeOK
  <2>4. QED
    BY <2>1, <2>3, SettleStep DEF OutboxStatus
<1>4. QED
  BY <1>1, <1>2, <1>3

\* A worker that has lost its memory claims nothing about the fan-out.
LEMMA ForgetStep ==
  ASSUME IInv, NEW w \in Workers, Forget(w), used' \in [Bounds -> Nat],
         UNCHANGED <<rows, inboxes, done>>
  PROVE  IInv'
<1>1. TypeOK'
  BY DEF Forget, IInv, TypeOK, Steps, NoEvent, rows, inboxes
<1>2. /\ pc'[w] = "idle" /\ batch'[w] = {}
      /\ \A v \in Workers : v # w => /\ pc'[v] = pc[v] /\ cur'[v] = cur[v]
                                     /\ pos'[v] = pos[v] /\ batch'[v] = batch[v]
  BY DEF Forget, IInv, TypeOK
<1>3. Cursor' /\ Served' /\ LoopAtEnd'
  BY <1>2 DEF IInv, Cursor, Served, LoopAtEnd, Active
<1>4. ProcessedWasHandled' /\ FanOutInOrder' /\ DeliveredToAll'
  BY HistoryFrame DEF IInv, ProcessedWasHandled, rows, inboxes
<1>5. QED
  BY <1>1, <1>3, <1>4 DEF IInv

\* A failed transaction jumps to the catch block or aborts the tick; a crash
\* forgets the tick.
LEMMA FailureSteps ==
  ASSUME IInv, NEW w \in Workers, DbError(w) \/ Crash(w) PROVE IInv'
<1>1. used' \in [Bounds -> Nat] /\ UNCHANGED <<rows, inboxes, done>>
  BY DEF DbError, Crash, Spend, Bounds, IInv, TypeOK
<1>2. CASE Forget(w)
  BY <1>1, <1>2, ForgetStep
<1>3. CASE Active(w) /\ err' = [err EXCEPT ![w] = "transient"]
           /\ (\E step \in {"failinbox", "mark"} : GoTo(w, step))
           /\ UNCHANGED <<batch, seen, cur, pos>>
  <2>1. pc' \in [Workers -> Steps] /\ Cursor' /\ Served' /\ LoopAtEnd'
    BY <1>1, <1>3, Jump DEF Steps
  <2>2. TypeOK' /\ ProcessedWasHandled' /\ FanOutInOrder' /\ DeliveredToAll'
    BY <1>1, <1>3, <2>1, HistoryFrame DEF IInv, TypeOK, ProcessedWasHandled, rows, inboxes
  <2>3. QED
    BY <2>1, <2>2 DEF IInv
<1>4. QED
  BY <1>2, <1>3 DEF DbError, Crash, Active

\* A lapsing window changes no row and moves no worker.
LEMMA TimeStep == ASSUME IInv, TimePasses PROVE IInv'
<1>1. /\ UNCHANGED <<status, attempts, inbox, local, done>>
      /\ agedClaim' \in SUBSET Events /\ agedInbox' \in SUBSET (Events \X Consumers)
      /\ used' \in [Bounds -> Nat]
  <2>1. CASE \E e \in Events : AgeClaim(e)
    BY <2>1 DEF AgeClaim, Lapses, Spend, Bounds, IInv, TypeOK, inboxes
  <2>2. CASE \E e \in Events, c \in Consumers : AgeInbox(e, c)
    BY <2>2 DEF AgeInbox, Lapses, Spend, Bounds, IInv, TypeOK, rows
  <2>3. QED
    BY <2>1, <2>2 DEF TimePasses
<1>2. TypeOK'
  BY <1>1 DEF IInv, TypeOK, local
<1>3. Cursor' /\ Served' /\ LoopAtEnd'
  BY <1>1 DEF IInv, Cursor, Served, LoopAtEnd, Active, local
<1>4. ProcessedWasHandled' /\ FanOutInOrder' /\ DeliveredToAll'
  BY <1>1, HistoryFrame DEF IInv, ProcessedWasHandled
<1>5. QED
  BY <1>2, <1>3, <1>4 DEF IInv

\* A step that changes nothing preserves the invariant.
LEMMA StutterStep == ASSUME IInv, UNCHANGED vars PROVE IInv'
<1>1. TypeOK' /\ Cursor' /\ Served' /\ LoopAtEnd'
  BY DEF vars, rows, inboxes, local, IInv, TypeOK, Cursor, Served, LoopAtEnd, Active
<1>2. ProcessedWasHandled' /\ FanOutInOrder' /\ DeliveredToAll'
  BY HistoryFrame DEF vars, rows, inboxes, IInv, ProcessedWasHandled
<1>3. QED
  BY <1>1, <1>2 DEF IInv

\* The invariant is inductive.
THEOREM Invariance == Spec => []IInv
<1>1. IInv /\ [Next]_vars => IInv'
  <2> SUFFICES ASSUME IInv, [Next]_vars PROVE IInv'
    OBVIOUS
  <2>1. ASSUME NEW e \in Events, Record(e) \/ ReplayDeadLetter(e) PROVE IInv'
    BY <2>1, ProducerStep
  <2>2. ASSUME NEW w \in Workers, Work(w) PROVE IInv'
    BY <2>2, RecoverStep, ClaimBatchStep, ClaimInboxStep, ReclaimInboxStep, HandleStep,
       CompleteInboxStep, FailInboxStep, SettlingSteps DEF Work
  <2>3. ASSUME NEW w \in Workers, DbError(w) \/ Crash(w) PROVE IInv'
    BY <2>3, FailureSteps
  <2>4. CASE TimePasses
    BY <2>4, TimeStep
  <2>5. CASE UNCHANGED vars
    BY <2>5, StutterStep
  <2>6. QED
    BY <2>1, <2>2, <2>3, <2>4, <2>5 DEF Next
<1>2. QED
  BY InitIInv, <1>1, PTL DEF Spec

\* The variables never leave their types.
THEOREM TypeCorrect == Spec => []TypeOK
BY Invariance, PTL DEF IInv

\* At-least-once delivery: PUBLISHED means every subscribed handler returned.
THEOREM AtLeastOnce == Spec => []DeliveredToAll
BY Invariance, PTL DEF IInv

\* An inbox row is PROCESSED only for a handler that returned.
THEOREM SkipsAreSafe == Spec => []ProcessedWasHandled
BY Invariance, PTL DEF IInv

\* Consumers of one event take effect in registration order.
THEOREM InOrder == Spec => []FanOutInOrder
BY Invariance, PTL DEF IInv
-----------------------------------------------------------------------------
(* While no claim ages under a live holder.                                *)

\* A worker that takes up a new batch, or goes on with the rest of its own,
\* keeps to it.
LEMMA TurnToBatch ==
  ASSUME IInv, NEW w \in Workers, NEW S \in SUBSET Events, TurnTo(w, S)
  PROVE  /\ batch'[w] = S
         /\ \A v \in Workers : v # w => batch'[v] = batch[v]
BY DEF TurnTo, IInv, TypeOK

\* A step that keeps batches, rows and what was read of them keeps both facts.
LEMMA RowsFrame ==
  ASSUME PunctualInv, UNCHANGED <<rows, batch, seen>>
  PROVE  ClaimsExclusive' /\ BudgetLeft'
BY DEF PunctualInv, ClaimsExclusive, BudgetLeft, rows

\* A row enters the outbox with its whole budget, and a replay restores it.
LEMMA ProducerExclusive ==
  ASSUME PunctualInv, NEW e \in Events, Record(e) \/ ReplayDeadLetter(e)
  PROVE  ClaimsExclusive' /\ BudgetLeft'
<1>1. /\ UNCHANGED <<agedClaim, batch, seen>>
      /\ status[e] \in {"ABSENT", "DEAD_LETTER"}
      /\ \A f \in Events : status'[f] = IF f = e THEN "PENDING" ELSE status[f]
      /\ \A f \in Events : attempts'[f] = attempts[f] \/ (f = e /\ attempts'[f] = 0)
      /\ \A f \in Events : f # e => attempts'[f] = attempts[f]
      /\ attempts'[e] < MaxAttempts /\ attempts'[e] <= MaxAttempts
  BY OutboxAssumption DEF Record, ReplayDeadLetter, local, PunctualInv, IInv, TypeOK, BudgetLeft
<1>2. /\ agedClaim \subseteq Events /\ e \notin agedClaim
      /\ \A w \in Workers : batch[w] \subseteq Events /\ e \notin batch[w]
  BY <1>1 DEF PunctualInv, IInv, TypeOK, ClaimsExclusive
<1>3. ClaimsExclusive'
  BY <1>1, <1>2 DEF PunctualInv, ClaimsExclusive
<1>4. BudgetLeft'
  BY <1>1, <1>2 DEF PunctualInv, BudgetLeft
<1>5. QED
  BY <1>3, <1>4

\* Only claims without a holder are recovered.
LEMMA RecoverExclusive ==
  ASSUME PunctualInv, NEW w \in Workers, RecoverStaleClaims(w)
  PROVE  ClaimsExclusive' /\ BudgetLeft'
<1>1. /\ UNCHANGED <<attempts, batch, seen>> /\ agedClaim' = {}
      /\ \A f \in Events : status'[f] = IF f \in agedClaim THEN "PENDING" ELSE status[f]
  BY DEF RecoverStaleClaims
<1>2. ClaimsExclusive'
  BY <1>1 DEF PunctualInv, IInv, TypeOK, ClaimsExclusive
<1>3. BudgetLeft'
  BY <1>1 DEF PunctualInv, BudgetLeft, ClaimsExclusive
<1>4. QED
  BY <1>2, <1>3

\* What is claimable is in nobody's batch, and is read as it is claimed.
LEMMA ClaimExclusive ==
  ASSUME PunctualInv, NEW w \in Workers, ClaimBatch(w)
  PROVE  ClaimsExclusive' /\ BudgetLeft'
<1>1. PICK S \in SUBSET Claimable :
        /\ status' = [e \in Events |-> IF e \in S THEN "CLAIMED" ELSE status[e]]
        /\ seen' = [seen EXCEPT ![w] = [e \in Events |-> IF e \in S THEN attempts[e] ELSE 0]]
        /\ TurnTo(w, S)
  BY DEF ClaimBatch
<1>2. S \subseteq Events /\ UNCHANGED <<attempts, agedClaim>>
  BY <1>1 DEF Claimable, ClaimBatch
<1>3. /\ batch'[w] = S
      /\ \A v \in Workers : v # w => batch'[v] = batch[v]
  BY <1>1, <1>2, TurnToBatch DEF PunctualInv
<1>4. \A e \in S : status[e] \in {"PENDING", "RETRY_WAIT"}
  BY <1>1 DEF Claimable
<1>5. \A e \in S : e \notin agedClaim /\ \A v \in Workers : e \notin batch[v]
  BY <1>4 DEF PunctualInv, ClaimsExclusive
<1>6. agedClaim \subseteq Events /\ \A v \in Workers : batch[v] \subseteq Events
  BY DEF PunctualInv, IInv, TypeOK
<1>7. ClaimsExclusive'
  BY <1>1, <1>2, <1>3, <1>5, <1>6 DEF PunctualInv, ClaimsExclusive
<1>8. \A v \in Workers : v # w => seen'[v] = seen[v]
  BY <1>1 DEF PunctualInv, IInv, TypeOK
<1>9. \A e \in S : seen'[w][e] = attempts[e]
  BY <1>1, <1>2 DEF PunctualInv, IInv, TypeOK
<1>10. BudgetLeft'
  <2>1. \A e \in Events : /\ attempts'[e] <= MaxAttempts
                          /\ status'[e] \notin {"PUBLISHED", "DEAD_LETTER"}
                               => attempts'[e] < MaxAttempts
    BY <1>1, <1>2, <1>4 DEF PunctualInv, BudgetLeft
  <2>2. \A v \in Workers : \A e \in batch'[v] : seen'[v][e] = attempts'[e]
    BY <1>2, <1>3, <1>8, <1>9 DEF PunctualInv, BudgetLeft
  <2>3. QED
    BY <2>1, <2>2 DEF BudgetLeft
<1>11. QED
  BY <1>7, <1>10

\* A worker settles a row of its own batch and lets go of it; the count it writes
\* is one more than the row's.
LEMMA SettleExclusive ==
  ASSUME PunctualInv, NEW w \in Workers, Active(w), NEW st \in OutboxStatus, Settle(w, st),
         \/ attempts' = attempts
         \/ attempts' = [attempts EXCEPT ![cur[w]] = NextAttempt(w)],
         attempts'[cur[w]] <= MaxAttempts,
         st # "CLAIMED",
         st \notin {"PUBLISHED", "DEAD_LETTER"} => attempts'[cur[w]] < MaxAttempts
  PROVE  ClaimsExclusive' /\ BudgetLeft'
<1>1. cur[w] \in Events /\ cur[w] \in batch[w]
  BY CursorInRange DEF PunctualInv
<1>2. /\ \A f \in Events : status'[f] = IF f = cur[w] THEN st ELSE status[f]
      /\ agedClaim' = agedClaim \ {cur[w]}
      /\ TurnTo(w, batch[w] \ {cur[w]})
      /\ \A v \in Workers : v # w => seen'[v] = seen[v]
      /\ \A f \in Events : f # cur[w] => seen'[w][f] = seen[w][f]
  BY DEF Settle, PunctualInv, IInv, TypeOK
<1>3. batch[w] \ {cur[w]} \in SUBSET Events
  BY DEF PunctualInv, IInv, TypeOK
<1>4. /\ batch'[w] = batch[w] \ {cur[w]}
      /\ \A v \in Workers : v # w => batch'[v] = batch[v]
  BY <1>2, <1>3, TurnToBatch DEF PunctualInv
<1>5. \A f \in Events : f # cur[w] => attempts'[f] = attempts[f]
  BY DEF PunctualInv, IInv, TypeOK
<1>6. /\ agedClaim \subseteq Events
      /\ \A v \in Workers : /\ batch[v] \subseteq Events
                            /\ v # w => cur[w] \notin batch[v]
  BY <1>1 DEF PunctualInv, IInv, TypeOK, ClaimsExclusive
<1>7. ClaimsExclusive'
  BY <1>1, <1>2, <1>4, <1>6 DEF PunctualInv, ClaimsExclusive
<1>8. \A e \in Events : /\ attempts'[e] <= MaxAttempts
                        /\ status'[e] \notin {"PUBLISHED", "DEAD_LETTER"}
                             => attempts'[e] < MaxAttempts
  BY <1>1, <1>2, <1>5 DEF PunctualInv, BudgetLeft
<1>9. \A v \in Workers : \A e \in batch'[v] : seen'[v][e] = attempts'[e]
  BY <1>2, <1>4, <1>5, <1>6 DEF PunctualInv, BudgetLeft
<1>10. QED
  BY <1>7, <1>8, <1>9 DEF BudgetLeft

\* A failure that counts ends in the dead letters exactly when the budget is
\* spent.
LEMMA SettlingExclusive ==
  ASSUME PunctualInv, NEW w \in Workers, MarkPublished(w) \/ RequeueBusy(w) \/ MarkFailed(w)
  PROVE  ClaimsExclusive' /\ BudgetLeft'
<1>1. Active(w)
  BY DEF MarkPublished, RequeueBusy, MarkFailed, Active
<1>2. cur[w] \in Events /\ cur[w] \in batch[w]
  BY <1>1, CursorInRange DEF PunctualInv
<1>3. /\ attempts[cur[w]] \in Nat /\ MaxAttempts \in Nat \ {0}
      /\ seen[w][cur[w]] = attempts[cur[w]] /\ attempts[cur[w]] < MaxAttempts
  BY <1>2, OutboxAssumption DEF PunctualInv, IInv, TypeOK, BudgetLeft, ClaimsExclusive
<1>4. CASE MarkPublished(w)
  BY <1>1, <1>3, <1>4, SettleExclusive DEF MarkPublished, OutboxStatus
<1>5. CASE RequeueBusy(w)
  BY <1>1, <1>3, <1>5, SettleExclusive DEF RequeueBusy, OutboxStatus
<1>6. CASE MarkFailed(w)
  <2>1. /\ attempts' = [attempts EXCEPT ![cur[w]] = NextAttempt(w)]
        /\ Settle(w, IF NextAttempt(w) >= MaxAttempts THEN "DEAD_LETTER" ELSE "RETRY_WAIT")
    BY <1>6 DEF MarkFailed
  <2>2. NextAttempt(w) \in Nat /\ NextAttempt(w) <= MaxAttempts
    BY <1>3 DEF NextAttempt
  <2>3. attempts'[cur[w]] = NextAttempt(w)
    BY <1>2, <2>1 DEF PunctualInv, IInv, TypeOK
  <2>4. CASE NextAttempt(w) >= MaxAttempts
    BY <1>1, <2>1, <2>2, <2>3, <2>4, SettleExclusive DEF OutboxStatus
  <2>5. CASE ~(NextAttempt(w) >= MaxAttempts)
    <3>1. Settle(w, "RETRY_WAIT") /\ attempts'[cur[w]] < MaxAttempts
      BY <1>3, <2>1, <2>2, <2>3, <2>5
    <3>2. QED
      BY <1>1, <2>1, <2>2, <2>3, <3>1, SettleExclusive DEF OutboxStatus
  <2>6. QED
    BY <2>4, <2>5
<1>7. QED
  BY <1>4, <1>5, <1>6

\* A worker that stops leaves its rows CLAIMED and in no batch.
LEMMA ForgetExclusive ==
  ASSUME PunctualInv, NEW w \in Workers, Forget(w), UNCHANGED rows
  PROVE  ClaimsExclusive' /\ BudgetLeft'
<1>1. /\ batch'[w] = {}
      /\ \A v \in Workers : v # w => batch'[v] = batch[v] /\ seen'[v] = seen[v]
  BY DEF Forget, PunctualInv, IInv, TypeOK
<1>2. ClaimsExclusive'
  BY <1>1 DEF PunctualInv, ClaimsExclusive, rows
<1>3. BudgetLeft'
  BY <1>1 DEF PunctualInv, BudgetLeft, rows
<1>4. QED
  BY <1>2, <1>3

\* Without late claims a claim ages only in nobody's batch.
LEMMA AgeExclusive ==
  ASSUME PunctualInv, MaxLate = 0, TimePasses
  PROVE  ClaimsExclusive' /\ BudgetLeft'
<1>1. ~Spend("late")
  BY DEF Spend, Bound, Bounds, PunctualInv, IInv, TypeOK
<1>2. ASSUME NEW e \in Events, AgeClaim(e)
      PROVE  ClaimsExclusive' /\ BudgetLeft'
  <2>1. /\ status[e] = "CLAIMED" /\ Batched(e) = {} /\ agedClaim' = agedClaim \cup {e}
        /\ UNCHANGED <<status, attempts, batch, seen>>
    BY <1>1, <1>2 DEF AgeClaim, Lapses, local
  <2>2. \A w \in Workers : e \notin batch[w]
    BY <2>1 DEF Batched
  <2>3. QED
    BY <2>1, <2>2 DEF PunctualInv, ClaimsExclusive, BudgetLeft
<1>3. ASSUME NEW e \in Events, NEW c \in Consumers, AgeInbox(e, c)
      PROVE  ClaimsExclusive' /\ BudgetLeft'
  BY <1>3, RowsFrame DEF AgeInbox, local
<1>4. QED
  BY <1>2, <1>3 DEF TimePasses

\* While no claim ages under a live holder, a batch is its worker's alone and
\* the budget of a row is what the row says.
THEOREM Punctual == ASSUME MaxLate = 0 PROVE Spec => []PunctualInv
<1>1. Init => ClaimsExclusive /\ BudgetLeft
  BY OutboxAssumption DEF Init, ClaimsExclusive, BudgetLeft
<1>2. PunctualInv /\ IInv' /\ [Next]_vars => PunctualInv'
  <2> SUFFICES ASSUME PunctualInv, [Next]_vars PROVE ClaimsExclusive' /\ BudgetLeft'
    BY DEF PunctualInv
  <2>1. ASSUME NEW e \in Events, Record(e) \/ ReplayDeadLetter(e)
        PROVE  ClaimsExclusive' /\ BudgetLeft'
    BY <2>1, ProducerExclusive
  <2>2. ASSUME NEW w \in Workers, Work(w)
        PROVE  ClaimsExclusive' /\ BudgetLeft'
    <3>1. CASE ClaimInbox(w) \/ ReclaimInbox(w) \/ Handle(w) \/ CompleteInbox(w) \/ FailInbox(w)
      BY <3>1, RowsFrame DEF ClaimInbox, ReclaimInbox, Handle, CompleteInbox, FailInbox
    <3>2. QED
      BY <2>2, <3>1, RecoverExclusive, ClaimExclusive, SettlingExclusive DEF Work
  <2>3. ASSUME NEW w \in Workers, DbError(w) \/ Crash(w)
        PROVE  ClaimsExclusive' /\ BudgetLeft'
    BY <2>3, ForgetExclusive, RowsFrame DEF DbError, Crash
  <2>4. CASE TimePasses
    BY <2>4, AgeExclusive
  <2>5. CASE UNCHANGED vars
    BY <2>5, RowsFrame DEF vars, local
  <2>6. QED
    BY <2>1, <2>2, <2>3, <2>4, <2>5 DEF Next
<1>3. Init => PunctualInv
  BY <1>1, InitIInv DEF PunctualInv
<1>4. QED
  BY <1>2, <1>3, Invariance, PTL DEF Spec

\* While no claim ages under a live holder, no two workers are inside the
\* handler of one consumer for one event: a batch belongs to one worker.
THEOREM HandlersAlone == ASSUME MaxLate = 0 PROVE Spec => []OneHandlerAtATime
<1>1. PunctualInv => OneHandlerAtATime
  BY DEF PunctualInv, IInv, Cursor, Active, ClaimsExclusive, OneHandlerAtATime
<1>2. QED
  BY <1>1, Punctual, PTL

\* While no claim ages under a live holder, no row spends more than
\* OUTBOX_MAX_ATTEMPTS, and one that waits for a retry has budget left.
THEOREM BudgetIsKept == ASSUME MaxLate = 0 PROVE Spec => []RetryBudget
<1>1. PunctualInv => RetryBudget
  BY DEF PunctualInv, BudgetLeft, RetryBudget
<1>2. QED
  BY <1>1, Punctual, PTL

-----------------------------------------------------------------------------
(* Nothing is done twice before something fails.                           *)

\* A step of a worker that runs no handler, settles no inbox row and takes up
\* none leaves what is remembered.
LEMMA RememberedFrame ==
  ASSUME IInv, Remembered, UNCHANGED <<inbox, done, used>>, NEW w \in Workers,
         \A v \in Workers : v # w => pc'[v] = pc[v] /\ cur'[v] = cur[v] /\ pos'[v] = pos[v],
         pc[w] # "complete", pc'[w] \notin {"reclaim", "handle", "failinbox"}
  PROVE  Remembered'
BY DEF Remembered, Consumer

\* Nor does a step that moves no worker, inbox row or history.
LEMMA RememberedStays ==
  ASSUME Remembered, UNCHANGED <<inbox, done, pc, cur, pos>>,
         used'["crash"] = used["crash"], used'["db"] = used["db"]
  PROVE  Remembered'
BY DEF Remembered, Consumer

\* The steps of the fan-out on one consumer: no one else works on the event.
LEMMA ConsumerRemembers ==
  ASSUME PunctualInv, Remembered, NEW w \in Workers,
         \/ ClaimInbox(w) \/ ReclaimInbox(w) \/ Handle(w) \/ CompleteInbox(w) \/ FailInbox(w)
  PROVE  Remembered'
<1>1. Active(w) /\ UNCHANGED <<cur, used, batch>>
  BY DEF ClaimInbox, ReclaimInbox, Handle, CompleteInbox, FailInbox, Active
<1>2. /\ cur[w] \in Events /\ cur[w] \in batch[w]
      /\ pos[w] \in DOMAIN Subscribed[cur[w]] /\ Consumer(w) \in Consumers
  BY <1>1, CursorInRange DEF PunctualInv, Consumer
<1>3. \A v \in Workers : v # w /\ Active(v) => cur[v] # cur[w]
  BY <1>2, CursorInRange DEF PunctualInv, ClaimsExclusive
<1>4. \A v \in Workers : v # w => /\ pc'[v] = pc[v] /\ pos'[v] = pos[v]
                                  /\ Consumer(v)' = Consumer(v)
  BY <1>1 DEF PunctualInv, IInv, TypeOK, ClaimInbox, ReclaimInbox, Handle, CompleteInbox,
     FailInbox, GoTo, NextConsumer, Consumer
<1>5. /\ inbox \in [Events -> [Consumers -> InboxStatus]]
      /\ pc \in [Workers -> Steps] /\ done \subseteq Events \X Consumers
  BY DEF PunctualInv, IInv, TypeOK
<1>6. SUFFICES ASSUME used["crash"] = 0, used["db"] = 0
      PROVE  /\ \A e \in Events, c \in Consumers : <<e, c>> \in done' =>
                  \/ inbox'[e][c] = "PROCESSED"
                  \/ \E v \in Workers : pc'[v] = "complete" /\ cur[v] = e /\ Consumer(v)' = c
             /\ \A v \in Workers : pc'[v] \in {"reclaim", "handle", "failinbox"} =>
                  <<cur[v], Consumer(v)'>> \notin done'
  BY <1>1 DEF Remembered
<1>7. /\ \A e \in Events, c \in Consumers : <<e, c>> \in done =>
           \/ inbox[e][c] = "PROCESSED"
           \/ \E v \in Workers : pc[v] = "complete" /\ cur[v] = e /\ Consumer(v) = c
      /\ \A v \in Workers : pc[v] \in {"reclaim", "handle", "failinbox"} =>
           <<cur[v], Consumer(v)>> \notin done
  BY <1>6 DEF Remembered
<1>8. pc[w] # "complete" /\ inbox[cur[w]][Consumer(w)] # "PROCESSED"
        => <<cur[w], Consumer(w)>> \notin done
  BY <1>2, <1>3, <1>7 DEF Active
<1>9. CASE ClaimInbox(w)
  <2>1. pc[w] = "inbox" /\ done' = done
    BY <1>9 DEF ClaimInbox
  <2>2. /\ \A e \in Events, c \in Consumers : inbox[e][c] = "PROCESSED"
                                             => inbox'[e][c] = "PROCESSED"
        /\ \/ inbox[cur[w]][Consumer(w)] # "PROCESSED" /\ Consumer(w)' = Consumer(w)
           \/ pc'[w] \notin {"reclaim", "handle", "failinbox"}
    <3>1. CASE inbox[cur[w]][Consumer(w)] = "PROCESSED"
      <4>1. inbox' = inbox /\ NextConsumer(w)
        BY <1>9, <3>1 DEF ClaimInbox, inboxes
      <4>2. pc'[w] \in {"inbox", "publish"}
        BY <1>5, <4>1 DEF NextConsumer, GoTo
      <4>3. QED
        BY <4>1, <4>2
    <3>2. CASE inbox[cur[w]][Consumer(w)] # "PROCESSED"
      <4>1. pos' = pos /\ Consumer(w)' = Consumer(w)
        BY <1>1, <1>9, <3>2 DEF ClaimInbox, Consumer
      <4>2. inbox' = inbox \/ SetInbox(cur[w], Consumer(w), "PROCESSING")
        BY <1>9, <3>2 DEF ClaimInbox, inboxes
      <4>3. \A e \in Events, c \in Consumers :
              e # cur[w] \/ c # Consumer(w) => inbox'[e][c] = inbox[e][c]
        BY <1>2, <1>5, <4>2 DEF SetInbox
      <4>4. QED
        BY <3>2, <4>1, <4>3
    <3>3. QED
      BY <3>1, <3>2
  <2>3. QED
    BY <1>4, <1>7, <1>8, <2>1, <2>2
<1>10. CASE ReclaimInbox(w)
  <2>1. /\ pc[w] = "reclaim" /\ done' = done /\ Consumer(w)' = Consumer(w)
        /\ \A e \in Events, c \in Consumers :
             e # cur[w] \/ c # Consumer(w) => inbox'[e][c] = inbox[e][c]
    BY <1>1, <1>2, <1>5, <1>10 DEF ReclaimInbox, SetInbox, Consumer
  <2>2. QED
    BY <1>4, <1>7, <2>1
<1>11. CASE Handle(w)
  <2>1. /\ pc[w] = "handle" /\ inbox' = inbox /\ Consumer(w)' = Consumer(w)
        /\ \/ done' = done \cup {<<cur[w], Consumer(w)>>} /\ pc'[w] = "complete"
           \/ done' = done /\ pc'[w] = "failinbox"
    BY <1>1, <1>5, <1>11 DEF Handle, GoTo, inboxes, Consumer
  <2>2. \A e \in Events, c \in Consumers : <<e, c>> \in done' =>
           \/ inbox'[e][c] = "PROCESSED"
           \/ \E v \in Workers : pc'[v] = "complete" /\ cur[v] = e /\ Consumer(v)' = c
    BY <1>4, <1>7, <2>1
  <2>3. ASSUME NEW v \in Workers, pc'[v] \in {"reclaim", "handle", "failinbox"}
        PROVE  <<cur[v], Consumer(v)'>> \notin done'
    <3>1. v # w => cur[v] # cur[w]
      BY <1>3, <1>4, <2>3 DEF Active
    <3>2. QED
      BY <1>4, <1>7, <2>1, <2>3, <3>1
  <2>4. QED
    BY <2>2, <2>3
<1>12. CASE CompleteInbox(w)
  <2>1. /\ pc[w] = "complete" /\ done' = done
        /\ pc'[w] \notin {"reclaim", "handle", "failinbox"}
        /\ inbox'[cur[w]][Consumer(w)] = "PROCESSED"
        /\ \A e \in Events, c \in Consumers :
             e # cur[w] \/ c # Consumer(w) => inbox'[e][c] = inbox[e][c]
    BY <1>2, <1>5, <1>12 DEF CompleteInbox, SetInbox, NextConsumer, GoTo
  <2>2. QED
    BY <1>4, <1>7, <2>1
<1>13. CASE FailInbox(w)
  <2>1. /\ pc[w] = "failinbox" /\ pc'[w] = "mark" /\ done' = done
        /\ \A e \in Events, c \in Consumers :
             e # cur[w] \/ c # Consumer(w) => inbox'[e][c] = inbox[e][c]
    BY <1>2, <1>5, <1>13 DEF FailInbox, SetInbox, GoTo
  <2>2. QED
    BY <1>4, <1>7, <2>1
<1>14. QED
  BY <1>9, <1>10, <1>11, <1>12, <1>13

\* While no claim ages under a live holder and before anything fails, a handler
\* that has returned is not run again, whatever is retried and replayed.
THEOREM NothingTwice == ASSUME MaxLate = 0 PROVE Spec => []NoRepeatBeforeFault
<1>1. Init => Remembered
  BY DEF Init, Remembered
<1>2. PunctualInv /\ Remembered /\ [Next]_vars => Remembered'
  <2> SUFFICES ASSUME PunctualInv, Remembered, [Next]_vars PROVE Remembered'
    OBVIOUS
  <2>1. IInv
    BY DEF PunctualInv
  <2>2. ASSUME NEW e \in Events, Record(e) \/ ReplayDeadLetter(e) PROVE Remembered'
    <3>1. /\ UNCHANGED <<inbox, done, pc, cur, pos>>
          /\ used'["crash"] = used["crash"] /\ used'["db"] = used["db"]
      BY <2>1, <2>2 DEF Record, ReplayDeadLetter, Spend, inboxes, local, IInv, TypeOK, Bounds
    <3>2. QED
      BY <3>1, RememberedStays
  <2>3. ASSUME NEW w \in Workers, Work(w) PROVE Remembered'
    <3>1. CASE \/ RecoverStaleClaims(w) \/ ClaimBatch(w)
               \/ MarkPublished(w) \/ RequeueBusy(w) \/ MarkFailed(w)
      <4>1. /\ UNCHANGED <<inbox, done, used>>
            /\ pc[w] # "complete" /\ pc'[w] \notin {"reclaim", "handle", "failinbox"}
            /\ \A v \in Workers : v # w => /\ pc'[v] = pc[v] /\ cur'[v] = cur[v]
                                            /\ pos'[v] = pos[v]
        BY <2>1, <3>1 DEF RecoverStaleClaims, ClaimBatch, MarkPublished, RequeueBusy, MarkFailed,
           Settle, TurnTo, inboxes, IInv, TypeOK
      <4>2. QED
        BY <2>1, <4>1, RememberedFrame
    <3>2. QED
      BY <2>3, <3>1, ConsumerRemembers DEF Work
  <2>4. ASSUME NEW w \in Workers, DbError(w) \/ Crash(w) PROVE Remembered'
    <3>1. used' # used /\ used'["crash"] + used'["db"] > 0
      BY <2>1, <2>4 DEF DbError, Crash, Spend, IInv, TypeOK, Bounds
    <3>2. ~(used'["crash"] = 0 /\ used'["db"] = 0)
      BY <3>1
    <3>3. QED
      BY <3>2 DEF Remembered
  <2>5. CASE TimePasses
    <3>1. /\ UNCHANGED <<inbox, done, pc, cur, pos>>
          /\ used'["crash"] = used["crash"] /\ used'["db"] = used["db"]
      BY <2>1, <2>5 DEF TimePasses, AgeClaim, AgeInbox, Lapses, Spend, inboxes, local, IInv,
         TypeOK, Bounds
    <3>2. QED
      BY <3>1, RememberedStays
  <2>6. CASE UNCHANGED vars
    BY <2>6, RememberedStays DEF vars, inboxes, local
  <2>7. QED
    BY <2>2, <2>3, <2>4, <2>5, <2>6 DEF Next
<1>3. Remembered => NoRepeatBeforeFault
  BY DEF Remembered, NoRepeatBeforeFault
<1>4. QED
  BY <1>1, <1>2, <1>3, Punctual, PTL DEF Spec

-----------------------------------------------------------------------------
(* The dispatcher implements Delivery while no claim ages under a live     *)
(* holder: each step delivers, publishes, buries, records or replays one   *)
(* event, or cannot be seen.                                               *)

\* Rows that stay in their phase and an unchanged history are not seen.
LEMMA Unseen ==
  ASSUME done' = done, \A e \in Events : Phase(status'[e]) = Phase(status[e])
  PROVE  UNCHANGED Abstract!vars
BY DEF Abstract!vars

\* One row changes phase.
LEMMA MovesOne ==
  ASSUME TypeOK, NEW e \in Events, NEW st \in OutboxStatus,
         done' = done, status' = [status EXCEPT ![e] = st]
  PROVE  /\ [f \in Events |-> Phase(status[f])][e] = Phase(status[e])
         /\ [f \in Events |-> Phase(status[f])]'
              = [[f \in Events |-> Phase(status[f])] EXCEPT ![e] = Phase(st)]
BY DEF TypeOK

\* A handler that returns delivers to the consumer the worker is at: the event
\* is still open, because its batch is the worker's alone, and the consumers
\* before were served.
LEMMA HandleDelivers ==
  ASSUME PunctualInv, NEW w \in Workers, Handle(w)
  PROVE  [Abstract!Next]_(Abstract!vars)
<1>1. Active(w) /\ UNCHANGED rows
  BY DEF Handle, Active
<1>2. /\ cur[w] \in Events /\ cur[w] \in batch[w]
      /\ pos[w] \in 1..Len(Subscribed[cur[w]])
      /\ Subscribed[cur[w]] \in Seq(Consumers)
  BY <1>1, CursorInRange DEF PunctualInv
<1>3. CASE done' = done
  BY <1>1, <1>3, Unseen DEF rows
<1>4. CASE done' = done \cup {<<cur[w], Consumer(w)>>}
  <2>1. Phase(status[cur[w]]) = "open"
    BY <1>2 DEF PunctualInv, ClaimsExclusive, Phase
  <2>2. pos[w] \in DOMAIN Subscribed[cur[w]] /\ pos[w] \in Nat \ {0}
    BY <1>2 DEF PunctualInv, IInv, TypeOK
  <2>3. \A j \in 1..(pos[w] - 1) : <<cur[w], Subscribed[cur[w]][j]>> \in done
    BY <1>1, <1>2, <2>2 DEF PunctualInv, IInv, Served
  <2>4. Abstract!Deliver(cur[w], pos[w])
    BY <1>1, <1>2, <1>4, <2>1, <2>3 DEF Abstract!Deliver, Consumer, rows
  <2>5. QED
    BY <1>2, <2>2, <2>4 DEF Abstract!Next
<1>5. QED
  BY <1>3, <1>4 DEF Handle

\* markPublished publishes an open event whose consumers were all served.
LEMMA PublishPublishes ==
  ASSUME PunctualInv, NEW w \in Workers, MarkPublished(w)
  PROVE  Abstract!Next
<1>1. /\ Active(w) /\ done' = done
      /\ status' = [status EXCEPT ![cur[w]] = "PUBLISHED"]
  BY DEF MarkPublished, Active, Settle
<1>2. /\ cur[w] \in Events /\ cur[w] \in batch[w]
      /\ pos[w] = Len(Subscribed[cur[w]]) /\ Len(Subscribed[cur[w]]) \in Nat
      /\ Subscribed[cur[w]] \in Seq(Consumers)
  BY <1>1, CursorInRange DEF PunctualInv, IInv, LoopAtEnd, MarkPublished
<1>3. \A k \in DOMAIN Subscribed[cur[w]] : <<cur[w], Subscribed[cur[w]][k]>> \in done
  <2>1. /\ Served /\ pc[w] = "publish"
        /\ DOMAIN Subscribed[cur[w]] = 1..Len(Subscribed[cur[w]])
    BY <1>2 DEF PunctualInv, IInv, MarkPublished
  <2>2. ASSUME NEW k \in 1..Len(Subscribed[cur[w]])
        PROVE  k < pos[w] \/ k = pos[w]
    BY <1>2
  <2> QED
    BY <1>1, <2>1, <2>2 DEF Served
<1>4. Phase(status[cur[w]]) = "open" /\ Phase("PUBLISHED") = "published"
  BY <1>2 DEF PunctualInv, ClaimsExclusive, Phase
<1>5. TypeOK /\ "PUBLISHED" \in OutboxStatus
  BY DEF PunctualInv, IInv, OutboxStatus
<1>6. Abstract!Move(cur[w], "open", "published")
  BY <1>1, <1>2, <1>4, <1>5, MovesOne DEF Abstract!Move
<1>7. Abstract!Publish(cur[w])
  BY <1>3, <1>6 DEF Abstract!Publish
<1>8. QED
  BY <1>2, <1>7 DEF Abstract!Next

\* A failure buries an open event or leaves it open.
LEMMA FailureBuries ==
  ASSUME PunctualInv, NEW w \in Workers, RequeueBusy(w) \/ MarkFailed(w)
  PROVE  [Abstract!Next]_(Abstract!vars)
<1>1. Active(w) /\ done' = done
  BY DEF RequeueBusy, MarkFailed, Active
<1>2. PICK st \in {"RETRY_WAIT", "DEAD_LETTER"} : status' = [status EXCEPT ![cur[w]] = st]
  BY DEF RequeueBusy, MarkFailed, Settle
<1>3. cur[w] \in Events /\ cur[w] \in batch[w]
  BY <1>1, CursorInRange DEF PunctualInv
<1>4. /\ Phase(status[cur[w]]) = "open"
      /\ Phase("RETRY_WAIT") = "open" /\ Phase("DEAD_LETTER") = "dead"
  BY <1>3 DEF PunctualInv, ClaimsExclusive, Phase
<1>5. CASE st = "RETRY_WAIT"
  <2>1. \A e \in Events : Phase(status'[e]) = Phase(status[e])
    BY <1>2, <1>3, <1>4, <1>5 DEF PunctualInv, IInv, TypeOK
  <2>2. QED
    BY <1>1, <2>1, Unseen
<1>6. CASE st = "DEAD_LETTER"
  <2>1. Abstract!Bury(cur[w])
    BY <1>1, <1>2, <1>3, <1>4, <1>6, MovesOne
       DEF Abstract!Bury, Abstract!Move, PunctualInv, IInv, OutboxStatus
  <2>2. QED
    BY <1>3, <2>1 DEF Abstract!Next
<1>7. QED
  BY <1>5, <1>6

\* Recording and replaying are what they are in Delivery.
LEMMA ProducerRecords ==
  ASSUME PunctualInv, NEW e \in Events, Record(e) \/ ReplayDeadLetter(e)
  PROVE  Abstract!Next
<1>1. /\ done' = done /\ status' = [status EXCEPT ![e] = "PENDING"]
      /\ status[e] \in {"ABSENT", "DEAD_LETTER"}
  BY DEF Record, ReplayDeadLetter, local
<1>2. /\ Phase("ABSENT") = "unrecorded" /\ Phase("DEAD_LETTER") = "dead"
      /\ Phase("PENDING") = "open"
  BY DEF Phase
<1>3. Abstract!Record(e) \/ Abstract!Replay(e)
  BY <1>1, <1>2, MovesOne
     DEF Abstract!Record, Abstract!Replay, Abstract!Move, PunctualInv, IInv, OutboxStatus
<1>4. QED
  BY <1>3 DEF Abstract!Next

\* Claiming a batch and recovering claims keep events open.
LEMMA ClaimsAreInvisible ==
  ASSUME PunctualInv, NEW w \in Workers, ClaimBatch(w) \/ RecoverStaleClaims(w)
  PROVE  UNCHANGED Abstract!vars
<1>1. Phase("PENDING") = "open" /\ Phase("RETRY_WAIT") = "open" /\ Phase("CLAIMED") = "open"
  BY DEF Phase
<1>2. CASE ClaimBatch(w)
  <2>1. PICK S \in SUBSET Claimable :
          status' = [e \in Events |-> IF e \in S THEN "CLAIMED" ELSE status[e]]
    BY <1>2 DEF ClaimBatch
  <2>2. \A e \in Events : Phase(status'[e]) = Phase(status[e])
    BY <1>1, <2>1 DEF Claimable
  <2>3. QED
    BY <1>2, <2>2, Unseen DEF ClaimBatch
<1>3. CASE RecoverStaleClaims(w)
  <2>1. \A e \in Events : Phase(status'[e]) = Phase(status[e])
    BY <1>1, <1>3 DEF RecoverStaleClaims, PunctualInv, ClaimsExclusive
  <2>2. QED
    BY <1>3, <2>1, Unseen DEF RecoverStaleClaims
<1>4. QED
  BY <1>2, <1>3

\* While no claim ages under a live holder, the dispatcher, with its workers,
\* claims, inbox rows, retries and crashes, implements Delivery: in order, to
\* every consumer, and what is published or dead-lettered stays so.
THEOREM DispatcherDelivers == ASSUME MaxLate = 0 PROVE Spec => Delivers
<1>1. Init => Abstract!Init
  BY DEF Init, Abstract!Init, Phase
<1>2. ASSUME PunctualInv, [Next]_vars
      PROVE  [Abstract!Next]_(Abstract!vars)
  <2>1. ASSUME NEW e \in Events, Record(e) \/ ReplayDeadLetter(e)
        PROVE  [Abstract!Next]_(Abstract!vars)
    BY <1>2, <2>1, ProducerRecords
  <2>2. ASSUME NEW w \in Workers, Work(w)
        PROVE  [Abstract!Next]_(Abstract!vars)
    <3>1. CASE ClaimInbox(w) \/ ReclaimInbox(w) \/ CompleteInbox(w) \/ FailInbox(w)
      BY <3>1, Unseen DEF ClaimInbox, ReclaimInbox, CompleteInbox, FailInbox, rows
    <3>2. QED
      BY <1>2, <2>2, <3>1, ClaimsAreInvisible, HandleDelivers, PublishPublishes, FailureBuries
         DEF Work
  <2>3. CASE \/ \E w \in Workers : DbError(w) \/ Crash(w)
             \/ TimePasses \/ UNCHANGED vars
    <3>1. UNCHANGED <<status, done>>
      BY <2>3 DEF DbError, Crash, TimePasses, AgeClaim, AgeInbox, rows, vars
    <3>2. QED
      BY <3>1, Unseen
  <2>4. QED
    BY <1>2, <2>1, <2>2, <2>3 DEF Next
<1>3. PunctualInv /\ [Next]_vars => [Abstract!Next]_(Abstract!vars)
  BY <1>2
<1>4. Spec => Abstract!Spec
  BY <1>1, <1>3, Punctual, PTL DEF Spec, Abstract!Spec
<1>5. QED
  BY <1>4 DEF Delivers

=============================================================================
