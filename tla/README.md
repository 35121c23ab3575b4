# Neryva Engine: formal verification

TLA+ models of the Neryva Engine, checked with TLC and, where the argument
holds for every instance, proved with TLAPS. The modules follow the code under
`src/` statement by statement where control matters and abstract the data the
properties do not tell apart. Paths below are relative to `src/src/` unless
they start with `drizzle/`.

## 1. The system

The Engine is a NestJS monolith: the system of record of a multi-tenant
assistant platform. An external executor ("Studio") runs the assistants;
every fact it produces is committed by the Engine. The default storage lane is
PostgreSQL at READ COMMITTED (`common/infra/db/db.service.ts`, `withOrg`,
`withBypass`); a second lane implements the same repositories on MongoDB.

| Part | State it keeps | Operations | Talks to |
|---|---|---|---|
| Outbox and dispatcher, `common/infra/outbox` | `outbox_events`, `inbox_events` | record, claim, recover, fan out, complete, fail, retry, dead-letter, replay | every producer (same transaction), thirteen consumers |
| Runs, `modules/conversations/repositories/pg-run*.ts` | `runs`, `quota_reservations`, `usage_ledger_entries`, `run_events` | accept (message, regenerate, edit), dispatch, complete, fail, cancel, time out | outbox, quota, transcript |
| Approvals, `pg-approval.repository.ts` | `approvals` | request, vote, approve, deny, extend, list, sweep | runs, outbox, quota |
| Dispatch and cancel consumers, `workers/run-*.consumer.ts` | none | start, resume or abort a Studio workflow, mark dispatched | outbox, Studio, runs |
| Timers, `workers/*sweep*`, `run-watchdog` | none | requeue accepted runs, time runs out, expire approvals | runs, approvals |
| Run lease and event log, `pg-run-lease`, `pg-run-events`, `pg-checkpoint` | lease owner, epoch and expiry, `run_events`, `last_event_sequence`, `run_idempotency` | acquire, renew, release, mint, append, checkpoint | Studio, every writer of a run event |
| Event stream, `streamRunEvents`, `pollRunEvents` | a connection's cursor and its polls | subscribe, poll, emit, complete | event log, clients |
| Quota wall, `modules/billing/quota.service.ts`, `reserveQuota` | Redis counters, `quota_reservations` | hold, release, reconcile, reserve, settle | runs, ledger |
| Tool authority, `pg-tool-authority` | tool calls and their grants | authorize, record outcome | runs, approvals |
| Transcript and escalations, `conversations.service.ts`, `pg-escalation`, `mongo-escalation` | messages, versions, escalations | send, regenerate, edit, branch, escalate, claim, reply, resolve | runs |
| Idempotency, `common/http/idempotency-records.ts` | claimed keys and responses | claim, complete, fail, purge | acceptance, HTTP handlers |
| Webhooks, `modules/webhooks`, the delivery sweep | webhooks, `webhook_deliveries`, jobs | dispatch, attempt, retry, park, sweep | events, the job queue, endpoints |
| Audit, channels, billing, knowledge, assistants, config publish, deployment, identity, organizations, keys, lifecycle | their own tables | mostly CRUD with an outbox event | outbox |

`PROJECT.json` lists every part with its status, and every hazard at its line.

What is hard in this system: two dispatcher replicas and two sweep replicas
work on the same rows; a claim is a timestamp, so it can go stale under a live
holder; a process may die between a side effect and the row that records it;
people, Studio, operators and timers may all end one run; a deposed Studio
worker keeps its token; a sequence number is drawn before its row is visible;
the stream's timer does not wait for its own query; a sweep claims rows
in one transaction and acts on them in another; a run's end is written by six
transactions in three files, each of which must settle, announce and clear;
handlers of one conversation lock its rows in three different orders, or, on
MongoDB, not at all; the quota wall counts and then inserts; a Redis counter is
changed inside transactions that may roll back; a webhook's row and its job are
two durable steps, and the queue remembers job ids for days.

What makes each part correct:

- *Outbox*: at-least-once delivery to every subscriber, in registration order;
  no side effect lost by a skip; no handler running twice at a time while
  claims are honoured; a bounded retry budget; dead letters stay until replayed;
  every event is eventually settled.
- *Runs*: one active run per conversation; terminal states final; each end
  settles the reservation and is announced exactly once; only completed
  billable runs are charged.
- *Approvals*: quorum of distinct non-authors; decisions final; one resume per
  grant; a parked run can always be woken and does not stay parked for ever.
- *Lease and event log*: no write under an old epoch after one under a newer;
  an answered sequence stays true; the terminal event closes the log.
- *Event stream*: each client gets the events in their order, none skipped and
  none twice, and is told when the run has ended and all was delivered.
- *Conversation*: its handlers have the effect of running one at a time; one
  open escalation; a paused conversation can be resumed, and only by the
  resolution or an operator; branches of the transcript are chains.
- *Quota*: a bound on how far the limit is passed; no hold stays for ever.
- *Tool authority*: a call runs only under a live grant, its outcome is written
  once.
- *Idempotency*: one key, one run.
- *Webhooks*: every delivery is settled; attempts of one delivery do not
  overlap; a bounded number of requests.

## 2. Modules

| Module | What it is |
|---|---|
| `Outbox` | outbox rows, inbox rows, dispatcher workers, failures and time |
| `Delivery` | what the outbox promises, without workers or claims |
| `MCOutbox` | instances for TLC |
| `OutboxProofs` | at-least-once delivery and fan-out order; while no claim is late, exclusive handlers, the retry budget, no repeated handler before a fault and the refinement of `Delivery`, proved |
| `StateMachine` | the run state machine's table |
| `RunLifecycle` | runs, approvals, reservations, ledger and sweeps |
| `RunTurn` | what a conversation turn promises its clients and billing |
| `MCRunLifecycle` | instances for TLC |
| `RunLifecycleProofs` | the run invariants, final decisions, due expiries and the refinement of `RunTurn`, proved |
| `RunLog` | the event log of a run and the lease that fences its writers |
| `MCRunLog` | instances for TLC |
| `RunLogProofs` | fencing, stable answers and the end of the log; what the stream never skips, and the refinement of `EventFeed`, proved |
| `EventFeed` | what the event stream promises a client |
| `RunStream` | the server-sent event stream, composed with `RunLog` |
| `MCRunStream` | instances for TLC |
| `Conversation` | one conversation's handlers, each on its own: what both database lanes promise |
| `HandoffPg` | the same handlers as row-locking PostgreSQL transactions |
| `HandoffMongo` | the same handlers as snapshot transactions on MongoDB |
| `MCHandoffPg`, `MCHandoffMongo` | instances for TLC |
| `ConversationProofs` | what a handler does to the rows; serial handlers keep branches and owners, proved |
| `HandoffProofs` | the PostgreSQL lane is serial, its branches are chains, its deadlocks are pairs about one run, proved |
| `HandoffMongoProofs` | the MongoDB lane is serial but for a late reply, proved |
| `Admission` | idempotency key, Redis hold, durable wall, settlement and the hourly pass |
| `MCAdmission` | instances for TLC |
| `AdmissionProofs` | one run per key and the bounds of the wall, proved |
| `WebhookDelivery` | fan-out, attempts, retries and sweep of webhooks over a job queue |
| `MCWebhook` | instances for TLC |
| `WebhookProofs` | attempts do not overlap while nothing fails, and their number is paid for, proved |

Operators whose comment starts with "Mutant" are not part of any
specification: each is a definition changed the way a plausible bug would
change it, kept to show that a property can fail.

### Outbox (`common/infra/outbox/dispatcher.ts`, `consumer.ts`)

An action is one database transaction or one run of a handler. `pc[w]` is where
worker `w` stands in `tick()`:

    idle --RecoverStaleClaims--> claim --ClaimBatch--> inbox (or idle)
    inbox --ClaimInbox--> handle | next consumer | requeue | reclaim
    reclaim --ReclaimInbox--> handle --Handle--> complete | failinbox
    complete --CompleteInbox--> next consumer, or publish after the last
    failinbox --FailInbox--> mark
    publish, requeue, mark --MarkPublished, RequeueBusy, MarkFailed--> next event

`ClaimInbox` and `ReclaimInbox` are one transaction in the code
(`consumer.ts:58-92`) but two statements without a lock between them, so they
are two actions. Abstracted: timestamps become the sets `agedClaim` and
`agedInbox` of the rows a staleness test would accept; a backoff may end at any
time; a consumer's side effect is an element of `done`; the payload is left
out. `Subscribed[e]` is `consumersFor` applied to the event's type.

`DbError` follows the code's two nested catch blocks: an error of
`completeInbox` fails the inbox row first, an error elsewhere in `publishOne`
goes to the retry marking, an error of the marking or of the claim aborts the
tick (`outbox-dispatcher.worker.ts:126`). `Crash` drops a worker's memory at
any point of the tick. The row updates that end `publishOne` are keyed by
`event_id` alone, and the model writes them the same way: a late worker settles
a row that is no longer its own.

### RunLifecycle (`pg-run*.ts`, `pg-approval.repository.ts`, the sweeps)

Every repository method is one transaction under the run's row lock
(`SELECT ... FOR UPDATE`), so it is one action, with its reservation, ledger
and outbox writes. `decideApproval` becomes `Vote`, `Approve` and `Deny`, which
share the gates `MayDecide`. The approval-expiry sweep is two transactions
(`pg-approval.repository.ts:479` and `:497`), so it is `SweepClaim` followed by
`SweepExpire` or `SweepSkip` per approval; `claimed[s]` is the list in sweeper
`s`'s memory. A refused call (a wrong state, a stale version or lease epoch, a
quota refusal) changes nothing and is no step.

Two points where the code differs from what one may expect, kept as they are:
the sweep does not use the state machine but a list of its own without
`EXPIRED` (`Cancelable`); `createApprovalRequest` adds a second PENDING approval
to a run that is parked already.

Abstracted: one organization; the identity of `runs.version` and of the lease
epoch (they only refuse calls); the transcript; amounts (a ledger entry is
there or not); the wall clock (`Lapse` may happen at any moment).
`executeStartMessage`, regenerate and edit create a run the same way and are
the one action `Accept`.

### RunLog (`pg-run-lease`, `pg-run-events`, every writer of `run_events`)

`RunLifecycle` says when a run may end; `RunLog` is about one run's rows in
`run_events` and keeps of the state only `phase`. Methods that take the run's
row lock are one action each: `Acquire`, `Release`, `AppendBatch` (a new
request key), `AppendAgain` (a retry of one), `MarkDispatched`, `EndRun`
(Studio: complete and fail, which look at the token's epoch), `CancelRun`
(people and the watchdog, which do not) and `EndSilently` (a denied or expired
approval, which writes no run event). `engine_sequence` is a bigserial: the
number is drawn at the INSERT and seen at commit. Under the row lock nobody can
tell the two apart; the three notices (a resume, a retrieval, an escalation)
are inserted without that lock, so they are `Draw`, then `Publish` or
`Withdraw`. An INSERT that meets an existing `event_id` has drawn a number all
the same, so a batch takes `Len(EventsOf[k])` numbers, and numbers have gaps.

`token[w]` is the `lease_epoch` claim of a worker's capability, `Unbound` for
the token the dispatch sent; `Acquire` takes any expected epoch and owner, as
the code takes the caller's. `acked` and `under` are history variables: the
pairs answered, and the claim each event was written under. Left out: the
expected version and a key reused with another digest (both only refuse),
other runs (their draws are more gaps), the epoch's integer width.

### RunStream (`streamRunEvents`, `pollRunEvents`)

Extends `RunLog` with connections. The timer starts a poll with the cursor of
that moment (`Tick`); the poll reads the run (`ReadRun`) and the events after
the cursor (`ReadEvents`), two statements under READ COMMITTED; its
continuation delivers the rows and moves the cursor (`Emit`), one turn of the
event loop. Nothing keeps the next tick from starting a poll while one is out,
so a connection has a set of them. `Break` delivers any prefix of a batch and
`Connect` resumes after the last event received (`Last-Event-ID`); `Cap` is
the duration cap, `FailPoll` a database error, both as the code handles them.
`done` is final: a client told that the run has ended does not come back.

### Conversation, HandoffPg, HandoffMongo (`pg-run`, `pg-escalation`, `pg-conversation`, and their `mongo-` twins)

`Conversation` has a conversation's committed rows as one value `db`: status and
version, messages, runs, escalations. A handler is a guard (`CanAccept`) and an
effect (`Accept(v, d)`) with two arguments: what it read, `v`, and what it
writes to, `d`. `Handle(c)` passes `db` for both, which is the handler running
alone. Ten handlers: send, regenerate, edit, complete, end (every end of a run
without a reply), escalate (`at` is 0 for a person, a run for its tool), claim,
resolve, agent reply, status change.

`HandoffPg` runs them as the code does: `Begin` takes the first row of the
handler (`FirstRow`), `Lock` the second (`SecondRow`) and then the rest
(`LaterRows`), each reads what its row shows (`Seen`), `Commit` applies the
effect to what was read, `Refuse` and `Fail` end without one. A foreign key
counts as a lock: the rows an escalation inserts refer to its run, so it waits
for the `FOR UPDATE` of a completion. `resolve` locks the conversation only when
it found no other open escalation. `BreakDeadlock` is PostgreSQL's.

The four ways to end a run without a reply lock differently, and `way[t]` says
which one `t` takes: `failRun` and `failRunForBudget` the run alone;
`cancelRun` the run, then all its PENDING approvals (`pg-run.repository.ts:1032`,
`:1099`); `decideApproval` one approval, then the run
(`pg-approval.repository.ts:168`, `:239`); the expiry of a run an approval, the
run, and the rest. Approvals have no state here, only locks: a vote or a grant
locks what a denial does and is a denial that ends in `Fail`. What is decided
about them is in `RunLifecycle`.

`HandoffMongo` has no locks: `Begin` takes a snapshot, `Commit` succeeds unless
a document the handler writes has changed (`WriteConflict`), `Retry` runs the
handler again on a new snapshot (`runInTransaction`), up to `MaxAttempts`. A
driver that reruns the body inside one attempt takes a fresh snapshot in the
same way, and only the count would differ.

The refinement is `Serial == Init /\ [][Next]_db`: the rows of either lane move
as `Conversation` says. Left out: the expected version, the blocked assistant
and the quota wall, which refuse; copies of a branch into a new conversation;
the outbox and run events (in `RunLifecycle` and `RunLog`).

### Admission (`executeStartMessage`, `reserveQuota`, `quota.service.ts`, `idempotency-records.ts`)

`tx[t].pc` is where an acceptance stands: `Claim` (the key; the insert waits for
a transaction that has inserted the same one), `Lock` (the conversation's row
and the insert of the run), `Hold` (the Redis script, or no hold when Redis is
down), `Count` (the wall's two counts, and the reservation), `Commit`. The
writes are seen at the commit, together with the record. A failing
`reserveQuota`, the wall or any other error, drops the hold (`RefuseAtWall`, and
`Fail` from `Count`); a failure after it does not. `Complete` and `End` settle the reservation in the
run's transaction and leave a release `owed`, which `Drop` does afterwards or
never does. `Lapse` is the reservation's fifteen minutes passing, `ExpireLapsed`,
`ReadEvents` and `Resync` the hourly pass, `Purge` the sweep of records.

Abstracted: one organization, product and project; units of one; no spend
limit; a plan without a limit, which makes every step a no-op; the request hash.
`late` is a history variable.

### WebhookDelivery (`webhooks.service.ts`, `webhook.worker.ts`, the delivery sweep)

`call[e]` is a `dispatch()` between its awaits, `work[w]` an `attemptDelivery`
between its awaits, `held[s]` what a sweep has claimed and not yet queued.
`job[d][n]` is the queue's job `webhook-deliver:<d>:<n>`: an `add` of an id that
is queued, active or kept is ignored. `Crash` leaves the job to the queue, which
runs a stalled job once more. The two exits of `scheduleRetry`, from the try and
from its own catch, are the steps "retry" and "again": an enqueue that fails in
the try marks the row a second time from the same count. `EnqueueFails` lets an
`add` that reported an error have landed. `Park` writes over whatever the row
has become. Abstracted: payloads, signatures, delays (`Age`: five minutes since
the insert, or the next attempt's time, have passed), the time a queue remembers
ids (`Evict`, which waits for the days in which everything else of the delivery
ends). `posts` and `faults` are counters of the model.

## 3. Runs

`Spec` has no fairness unless said. The counts are distinct states.

| Run | Instance | Shows |
|---|---|---|
| `outbox_crash` | `FairSpec`, 2 workers, 2 events (fan-out 2 and 1), batch 2, budget 2, 1 crash, 1 failed transaction, 1 replay (320 k) | the inductive invariant, exclusive handlers, the retry budget and, before a fault, no handler run twice, while no claim outlives its holder; `Delivers`, the refinement of `Delivery`; every event is settled |
| `run_safety` | 2 runs of 1 conversation (standard, test), 2 approvals (quorum 1 and 2), 3 principals, 2 sweepers, 1 extension and 1 fault (340 k) | the safety of runs, approvals and sweeps; the refinement of `RunTurn` |
| `run_live` | `FairSpec`, 1 sweeper, 1 requeue, extension and fault (392 k) | parked runs move on, the queue drains |
| `log_safety` | 2 workers, 2 leases, 2 requests (two events, and one of them alone), 1 notice, symmetry (956 k) | fencing, stable answers, the terminal event and the last sequence |
| `stream_feed` | `FairStream`, 1 client, 1 poll at a time, batch limit 2, up to 4 events, no notices, 2 faults (3 k) | the refinement of `EventFeed`; a client of an ended run is told so, with every event |
| `stream_tail` | the same without fairness, 2 polls in flight, 1 notice, 1 fault (1.8 M) | nothing locked is skipped although polls overlap and a notice commits late, a completed stream is complete |
| `handoff_pg` | `FairPgSpec`, 2 transactions, 3 messages, 2 runs, 2 escalations, 1 agent, 1 approval of the second run (180 k) | `Serial`, the refinement of `Conversation`; owners of paused conversations, branches, which handlers deadlock; every transaction ends |
| `handoff_mongo` | 2 transactions, 2 attempts, 2 messages, 1 run, 2 escalations, symmetry (666 k) | one open escalation; `SerialButLateReply`, the refinement but for one step |
| `quota_wall` | 3 conversations, 3 runs, 2 transactions, limit 1, no keys, symmetry (727 k) | both bounds of the overshoot |
| `quota_resync` | `FairSpec`, 1 conversation, 2 runs, 2 transactions, 1 key, limit 2, 1 earlier event and 1 more (387 k) | one run per key; leaked holds are taken back |
| `webhook_retry` | `FairSpec`, 1 event, 1 webhook, 2 workers, 1 sweep, 2 attempts, 3 faults (198 k) | attempts do not overlap before a fault, requests are bounded by faults, deliveries are settled |
| `webhook_raced` | the same with 1 fault | a counterexample, see 5 |

Why the bounds are enough to be interesting: two workers are what a stale claim
needs; a budget of two has a retry and a dead letter; one crash and one failed
transaction can fall between any two steps, and combine; two runs of one
conversation need the first to end before the second is accepted, so every way
of ending meets a successor; two approvals, one with a quorum of two, reach the
double vote, the sibling left PENDING and the resume of a run with another
approval open; two sweepers race one another over both; two leases and two
workers are a deposed holder and its successor; two requests with a common event
make it a first write of one and a duplicate of the other, and a retry of
either; a batch limit of two is met exactly, passed and missed by the four
locked events of a run; two polls are an overlap. Two transactions of a
conversation are enough for every race of a pair, and for both deadlocks: one
approval is all that a decision and a cancellation need to block each other (two
expiries that do it by two approvals are covered by the theorem only); three
messages and two runs hold a reply, its regeneration and what replaces it; two
escalations are one resolved and its successor. On MongoDB a regeneration or an
edit starts (after a human's reply, or a message sent while paused), but a
regenerated reply does not fit the two messages: the supersession by a
completion is checked on PostgreSQL only. A limit of one with two transactions
and three conversations tells the two bounds of the wall apart, since a third
run is reached by a lapse only. Two attempts and three faults let a delivery
lose its first job, its retry and the retry's repair. Symmetry is used where
there is no liveness property and the actors are interchangeable (`log_safety`,
`handoff_mongo`, `quota_wall`). The configurations other than `outbox_crash`
switch deadlock checking off because a system whose runs, deliveries or bounds
are used up has nothing left to do.

Bounds by constant: `MaxLate`, `MaxCrashes`, `MaxDbErrors`, `MaxReplays`
(Outbox); `MaxRequeues`, `MaxExtends`, `MaxFaults` (RunLifecycle); `MaxEpoch`,
`MaxDraws` (RunLog); `MaxFaults`, the set `Polls` (RunStream); `MaxMessages`,
`MaxRuns`, `MaxEscalations`, `MaxVersion` (the handoff modules; `MaxVersion`
bounds status changes only) and `Asking` (HandoffPg, the runs with approvals); `MaxEvents` and the set `Runs` (Admission);
`MaxFaults` (WebhookDelivery). `BatchLimit`, `BatchSize`, `MaxAttempts` and
`Limit` are parameters of the code (200 and so on). The proofs of 6 hold for
every value of them. TLC's runs keep `MaxLate` at 0; what holds of slow holders
is proved.

## 4. Fairness

- `Outbox`: weak fairness of each worker's `Work` (a `setInterval` keeps a live
  replica ticking and the loop has no other wait than its handlers, which
  return or throw) and of the ageing of claims that nobody holds (time passes).
  Nothing is assumed of producers, operators or failures.
- `RunLifecycle`: weak fairness of `Lapse` (time passes) and of each sweeper's
  `Sweep` (its timer). Nothing is assumed of people, Studio, or the dispatcher.
- `RunStream`: weak fairness of each poll slot (`setInterval` keeps firing, a
  query returns or fails, a continuation runs) and of `Connect` (the client of
  an event stream reconnects by itself). Nothing is assumed of the writers: the
  property only speaks of runs that have ended.
- `HandoffPg`: weak fairness of the end of a transaction that has its locks
  (statements return or time out, `db.service.ts:102`) and of `BreakDeadlock`
  (`deadlock_timeout`); strong fairness of `Lock`, because PostgreSQL queues the
  waiters of a row and others may take it in between. Nobody has to call.
- `Admission`: weak fairness of each transaction's steps and of the hourly
  `ReadEvents` and `Resync`. Neither a release nor a run's end is assumed.
- `WebhookDelivery`: weak fairness of each dispatch, of the workers (the queue
  hands out its jobs), of the sweep's timer and of `Age` (time passes). Strong
  fairness of `Evict`: the queue counts a job's days from its end, however often
  the sweep has its delivery in hand meanwhile.

## 5. Where code and comments disagree

One is a run, because it is about what the component is for:

- `webhooks.service.ts:191-192` "the deterministic jobId makes even a raced
  re-enqueue a no-op instead of a double delivery" (also 244-245,
  `pg-webhook-delivery.repository.ts:130-131`,
  `webhook-delivery-sweep.worker.ts:14-17`). `scheduleRetry` writes the new count
  (355) and then queues the next job (356), and an attempt counts from the row,
  not from its job's id. A worker that stops between the two leaves its own job
  to be run again under the old id, while the sweep queues the row under the new
  one: both make the same attempt (`webhook_raced`). Until something fails the
  statement holds (`RacedRequeueIsNoOp`, proved), and the requests stay bounded
  (`AttemptsPaidFor`, proved).

The others are kept as definitions beside the properties, so that they can be
put in a configuration; TLC refutes each of them:

- `ProcessedIsFinal` (Outbox): `consumer.ts:50` "PROCESSED rows skip forever". A
  holder slower than the stale window (`MaxLate` 1 or more) writes FAILED or
  PROCESSING over the PROCESSED row of the worker that took over, because
  `failInbox` and the reclaim are keyed by consumer and event alone. The delivery
  guarantees do not depend on it.
- `ClaimsAreExclusive` (RunLifecycle): `pg-approval.repository.ts:475-477` "a row
  claimed by one is skipped by the other". The claim's locks end with its
  transaction, so two replicas hold one approval. The database stays right
  (`run_safety` has two sweepers); the count of advisory holds to release (629)
  does not.
- `NoDecidableWorkForDeadRun` (RunLifecycle): `pg-run.repository.ts:1095-1098`
  "so the queue never shows decidable work for a dead run". True of a canceled
  run (`CancelClearsQueue`, in `IInv`), not of one that was denied, completed or
  failed; the sweep clears those when their window lapses (`QueueDrains`).
- `ExpiredHolderRejected` (RunLog): `pg-run-lease.repository.ts:105` "a deposed
  or expired holder is rejected". A deposed holder is (`ClaimsNeverRegress`); an
  expired one is not, because the fence compares epochs and no guard reads
  `lease_expires_at`.
- `NoGap` (RunStream): `conversations.service.ts:850` "reconnects never gap". A
  notice can commit below a number already streamed, and the cursor has passed
  it. Events written under the row lock are never lost that way
  (`LockedNeverSkipped`).
- `PausedWhileOpen` (Conversation): `escalations.schema.ts:7-8` has the
  conversation 'escalated' while a row is open; an operator's status change
  (`pg-conversation.repository.ts:104`) does not look at escalations. The
  converse holds (`PausedHasOwner`).
- `ReplaysOriginalInput` (Conversation): `pg-run.repository.ts:382` "the
  regeneration replays the ORIGINAL input user message". The query takes the
  newest user message before the reply that is still on the branch. It is
  another one when a message was stored while the run was parked or the
  conversation paused, or when the input was edited.
- `HoldsReclaimed` with `EarlierEvents = 0` (Admission): `billing.worker.ts:97-99`
  "so neither plane accumulates orphaned holds". The resync goes over the rows
  of the month's spend events, and an organization without any has no row, so
  its leaked holds stay until the first.

Read, not checked: `drizzle/0037_escalations.sql:19` "Abandoned claims expire
back to WAITING", which no code does; `lifecycle-webhook.consumer.ts:41-42`
relies on the sweep for a failed delivery, but an insert or park that throws ends
the fan-out, and the targets after it have no row for the sweep to find.

Narrower points the models keep as the code has them, and that bound what is
claimed: a handler that returned runs again after a crash or an error before
`completeInbox` commits, which `consumer.ts:13` (only "unless the claim went
stale") does not mention, so `NoRepeatBeforeFault` is stated before the first
fault; the sweep's second transaction re-reads the state and not the window
(`pg-approval.repository.ts:500-505`), so `ExpiryMeansOverdue` is stated for
windows that were not extended in between; overlapping polls of one connection
may deliver the same rows (`conversations.service.ts:871`), so `IsFeed` is
checked with one poll at a time; on MongoDB `agentReply` only reads its
escalation, so a reply may land right after the resolution
(`SerialButLateReply`); the wall counts without a lock on the organization and
without lapsed reservations, so `WallOvershoot` and `WallAtWorst` are bounds and
the limit itself is not kept.

## 6. Proofs

`OutboxProofs`: `Spec => []IInv` with
`IInv = TypeOK /\ Cursor /\ Served /\ LoopAtEnd /\ ProcessedWasHandled /\ FanOutInOrder /\ DeliveredToAll`.
The delivery properties are not inductive by themselves: that `MarkPublished`
is safe depends on where the worker stands. `Served` says that a worker inside
the fan-out loop vouches for every consumer before its position, `LoopAtEnd`
that it publishes only past the last one, and `Cursor` that it stands on an
event of its batch. None of the three mentions the claim, which is why the
theorems need nothing of `MaxLate`: at-least-once delivery does not rest on
claims being exclusive. The assumption used is `OutboxAssumption`, of which the
one that matters is that a consumer is registered once per event.

Four theorems do rest on it, and are stated under `MaxLate = 0`:
`HandlersAlone`, `BudgetIsKept`, `NothingTwice` and `DispatcherDelivers`, the
refinement of `Delivery`. With `MaxLate` 1 TLC refutes the first, the second and
the last (two workers in one handler, a count past the budget, a published row
that moves again). Their invariant is `PunctualInv = IInv /\ ClaimsExclusive /\
BudgetLeft`: an event of a batch is CLAIMED by that worker alone and has not
aged, so only rows whose holder is gone are recovered; and the count a worker
read is still the row's when it writes the next, so the budget is neither spent
twice nor refunded. `NothingTwice` needs `Remembered` besides: before a crash or a
failed transaction, a handler that has returned has a PROCESSED row, or is the one
whose worker is about to write it.

`RunLifecycleProofs`: `Spec => []IInv` with
`IInv = TypeOK /\ RunInv /\ QueueInv /\ VoteInv`. `RunInv` adds `ReasonOfEnd` (only
an ended run has a reason; otherwise a canceled run might be accepted or parked
again), `VoteInv` adds `VotesShort` (an undecided approval is short of its
threshold; otherwise the deciding vote might be one too many). One lemma
(`StepKinds`) says that every step either leaves the runs alone, accepts one,
lets one go on, or ends one with settlement and announcement; the invariant, the
finality of ends and the refinement of `RunTurn` all follow from it.
`DecisionsStand` needs `TypeOK` alone: every transaction that writes an approval
reads it as PENDING. `ExpiriesAreDue` is about the sweep's two transactions:
`ClaimsLapsed` says that what a sweeper holds in memory is still overdue, which
is so until somebody extends a window.

`RunLogProofs`: `Spec => []IInv` with `IInv = TypeOK /\ Drawn /\ ClaimsGranted
/\ KeysStored /\` the four properties. `Drawn` (every number in the log, held
by a notice or in `lastSeq` was drawn) makes the next number larger than all of
them, which is what the end of the log, the last sequence and fencing need of a
write. `ClaimsGranted` (no token or record is ahead of the run's epoch) makes a
write under the current epoch no older than any before it. `KeysStored` (the
events of a claimed key are stored) is what the answer to a retry rests on: the
code's fallback `?? 0` is never taken. The assumption is `LogAssumption`; that
the events of one batch are distinct is used only to number a batch.

The stream's theorems are in the same module, because they rest on the log's.
`StreamInv` adds, for each client, that its cursor is a number it holds and that
the locked events below any number it holds are held too; and for each poll in
flight that its rows miss no locked event between its cursor and any of them
(`RowsCover`), and that an end it has seen comes with a tail that holds them all
(`TailCovered`). Polls may overlap: an older one starts from a cursor the client
still holds, so what it delivers late skips nothing. The order in which the two
statements of a poll run matters, the end first and the rows second: after the
end no locked event is added. A notice is not locked, and the theorems
(`StreamSkipsNothingLocked`, `StreamFlushesTheTail`) do not speak of it.
`StreamIsFeed`, the refinement of `EventFeed`, is for `Notices = {}` and one poll
at a time: `FeedInv` says that what a client received is the front of the ordered
log and what its poll carries is what comes next. The sort is `Ordered`, which
places each number by its rank; a chain of lemmas about ranks shows that a new,
larger number goes to the end and that the rows after a cursor are a slice.

`HandoffProofs`: `PgSpec => []PgInv`, and from it `Serial`, `OnlyAPatchResumes`
and `DeadlocksArePairs` (`DeadlocksAreOfOneRun`), for any number of transactions. `PgInv` says of each
transaction what it may still believe (`Current`): what it read under a lock it
holds is still so. The point that is not about a lock is the request for a
human: it locks no escalation, and is safe because only such a request opens one
and they share the conversation's row. `DecidesTheSame` and its companions say
that a handler decides and writes on a current view what it would on the rows,
which makes a commit a step of `Conversation`. Then the branches need no locks
any more: `ConversationProofs` shows of handlers that run alone that a message is
replaced once and by what regenerates it (`ChainInv`: at most one run is active,
and what an active run regenerates has not been replaced), and a lane that
implements them has the same rows (`BranchesStayChains`). For deadlocks, with any number
of transactions, runs and approvals: every member of a cycle waits while it holds
a row, so it holds only its first row, or it ends a run and has come to that
run's approvals. A row has one holder. The rows that are held and asked for then
leave two circles: a request for a human and a completion that hold the
conversation and the run, or two ends of one run of which one holds the run and
the other an approval; each closes on its two members.

`HandoffMongoProofs`: `MongoSpec => []MongoInv`, and from it `SerialButLateReply`,
`OneOpen`, `PausedHasOwner` and `BranchesAreChains`. No lock protects what was
read, so the invariant says less than the PostgreSQL one: a snapshot is a sound
state of the past (`Sound`, `Since`: rows are only added, a resolution is final,
and the version counts every change of status, new escalation and pointer). The point of
the proof is that the documents a handler writes decide enough: when they have
not changed since the snapshot, everything its guard read has not either, except
the escalation that `agentReply` only reads, which is the late reply. A
regeneration that completes and supersedes a reply is covered by the theorem,
although the run's two messages do not reach it.

`AdmissionProofs`: `Spec => []Inv` with `Inv = TypeOK /\ KeysInv /\
ConversationsInv /\ LateInv /\` the two bounds. `LateInv` (an active run is
counted unless its reservation has lapsed) is what the count of the wall rests
on; `ConversationsInv` (a conversation has one active run, or one transaction
about to make one) gives the bound by conversations; `KeysInv` makes a key's
insert exclusive. The rest is counting: cardinalities of the sets a step moves.

`WebhookProofs`: `Spec => []Inv` with `Inv = TypeOK /\ OwnJobs /\ Untouched /\
\A d : Sound(d)`. `OwnJobs` says that a job has one worker. A sound delivery is
`Clean` or `Raced`. Clean: the row's count names the only attempt that is queued
or under way, whoever is about to queue an earlier one finds its id taken
(`Current`), and a worker's count is its job's (`OwnAttempt`). Sweeps that queue
late are then harmless, and since only a fault makes a delivery raced, this is
`RacedRequeueIsNoOp`. For `AttemptsPaidFor` the invariant keeps accounts: what a
delivery has spent is its requests and the attempts that may still send one
(`Spend(d, b)`), counting from an attempt `b` behind which neither the row nor
anybody at work will go (`Base`). A step moves a request from the second kind to
the first, or takes nothing. A fault may put one attempt back, or let a second
worker set the row's count back as far as `b`; it pays `MaxAttempts` for that. A
forgotten job would be an attempt to spend again, but it is forgotten when nobody
is at work, and by then the row's own count (`Counted`) bounds what is left.

Each inductive invariant was first checked by TLC: `IInv` is in the runs
`outbox_crash` and `run_safety`; the others as an invariant of the same constants
(`PunctualInv` and `Remembered` 320 k states, `ClaimsLapsed` 340 k, `StreamInv` 1.8 M, `FeedInv`
3 k, `ChainInv` 180 k, `MongoInv` 214 k with one attempt and three messages,
`WebhookProofs!Inv` 198 k, and 737 k with three attempts and two faults).

Proved for every value of the constants: the theorems listed in `PROJECT.json`,
that is every invariant and action property of the passing runs and every
refinement: `Delivers` and `IsFeed` under the conditions said above. Only
model-checked: the liveness properties (`EventuallySettled` twice,
`ParkedRunsMoveOn`, `QueueDrains`, `EventuallyFlushed`, `TransactionsEnd`,
`HoldsReclaimed`), which are out of the prover's reach, and the counterexample of
`webhook_raced`.

## 7. Not modelled

- Checkpoints of a run, and expected versions everywhere: they only refuse calls.
- Tool authority and the MongoDB lease lock: their hazards are listed in
  `PROJECT.json`. The audit chain of the MongoDB lane, which is appended to under
  a lease that is given back as soon as the append returns (`audit.ts:640`),
  although a transaction it joined commits later.
- On MongoDB, everything but the handlers of a conversation; in particular
  `quota.hold()` inside the retried function (`mongo-run.repository.ts:515`).
- What Studio does with a start, a resume or a cancel that it gets twice (a crash
  before `completeInbox`) or in the wrong order (two workers publish them): its
  code is not in this repository; the Engine refuses what an ended run writes.
- Spend limits, project buckets and the holds of satellites; the Redis lease of
  the HTTP idempotency interceptor.
- What an approval is worth while its locks are waited for: `HandoffPg` has the
  locks and `RunLifecycle` the decisions, each as one step. A transaction that
  PostgreSQL aborts changes nothing, so no outcome is lost.
- The second release of a hold when two replicas sweep one approval
  (`pg-approval.repository.ts:629`): `Admission` releases once for each run; the
  under-count would be the one `HoldsReclaimed` repairs.
- Webhooks: `webhook.test`, secret rotation (a signature is made with the secret
  read by the attempt), the audit entries, and more stuck rows than a sweep's
  batch takes (`pg-webhook-delivery.repository.ts:150`), which keep newer ones
  waiting.
- Most of the repository by lines: request/response modules (assistants,
  knowledge, organizations, console, staff, billing reports, channels), whose
  handlers are one transaction of CRUD with an outbox event, schema and migration
  data, adapters, and the second copy of each repository for MongoDB. Their
  outbox events are covered as events; a model of their fields would restate
  their assignments. The map therefore covers a small share of the lines, and the
  protocols the lines share.

## 8. Plan

1. Done: `Outbox` and `Delivery`; `StateMachine`, `RunLifecycle` and `RunTurn`;
   `RunLog`, `RunStream` and `EventFeed`; `Conversation` on both databases;
   `Admission`; `WebhookDelivery`; the proofs of 6.
2. `ToolAuthority`: grants, outcomes, run end.
3. The quota plane on MongoDB, and several projects in one counter.
4. The audit chain of the MongoDB lane, under its lease lock.
5. Checkpoints, beside `RunLog`.
6. Proofs of what 2 to 5 add; those of the modules so far are done.
