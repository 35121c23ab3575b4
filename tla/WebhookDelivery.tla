--------------------------- MODULE WebhookDelivery ---------------------------
(* The outbound webhooks: an event fans out to the active webhooks of its    *)
(* organization; each target gets a delivery row and, in a second durable    *)
(* step, a queued job; a job makes one attempt and queues the next; a sweep  *)
(* queues again what was lost in between.  A job's id is made of the         *)
(* delivery and the attempt, and the queue ignores an id it still knows, the *)
(* finished ones included, until they are evicted.  Database and queue calls *)
(* fail, and a failed enqueue may have landed; processes stop anywhere.      *)
EXTENDS Integers, Sequences, FiniteSets

CONSTANTS Events, Hooks, Workers, Sweepers,
          MaxAttempts,  \* MAX_ATTEMPTS, 5 in the code
          BatchSize,    \* rows of one sweep
          MaxFaults     \* bound: failed calls and stopped processes

ASSUME WebhookAssumption ==
  /\ MaxAttempts \in Nat \ {0} /\ BatchSize \in Nat \ {0} /\ MaxFaults \in Nat

VARIABLES hook,     \* webhooks.status
          call,     \* the dispatch() of an event
          row,      \* webhook_deliveries
          created,  \* the rows, oldest first
          job,      \* the queue's jobs by delivery and attempt
          stalled,  \* jobs whose worker stopped once
          work,     \* the attempts in progress
          held,     \* what a sweep has claimed and not yet queued
          posts,    \* history: requests sent for a delivery
          faults    \* what of MaxFaults is spent

queue == <<job, stalled>>
vars == <<hook, call, row, created, queue, work, held, posts, faults>>

Deliveries == Events \X Hooks
Slots == 0 .. MaxAttempts - 1

NoRow == [status |-> "none", attempts |-> 0, due |-> FALSE]
Pcs == {"idle", "read", "hook", "refuse", "post", "accepted", "retry", "again",
        "enqueue", "enqueue again"}

NoWork == [pc |-> "idle", d |-> <<>>, slot |-> 0, attempts |-> 0]

Init ==
  /\ hook = [h \in Hooks |-> "active"]
  /\ call = [e \in Events |-> [pc |-> "new", todo |-> {}, d |-> <<>>]]
  /\ row = [d \in Deliveries |-> NoRow]
  /\ created = <<>>
  /\ job = [d \in Deliveries |-> [n \in Slots |-> "none"]]
  /\ stalled = {}
  /\ work = [w \in Workers |-> NoWork]
  /\ held = [s \in Sweepers |-> {}]
  /\ posts = [d \in Deliveries |-> 0]
  /\ faults = 0

Settled == {"delivered", "dead", "none"}

Unsettled(d) == row[d].status \in {"pending", "failed"}

Fault == faults < MaxFaults /\ faults' = faults + 1

(* An UPDATE of a row that may have gone with its webhook. *)
Update(d, r) == row' = IF row[d].status = "none" THEN row ELSE [row EXCEPT ![d] = r]

(* Mutant: the job id is not deterministic; a finished one is no obstacle. *)
EnqueueAfresh(d, n) ==
  job' = IF job[d][n] \in {"none", "kept"} THEN [job EXCEPT ![d][n] = "queued"] ELSE job

(* enqueueDelivery: the queue ignores a job id it knows. *)
Enqueue(d, n) ==
  job' = IF job[d][n] = "none" THEN [job EXCEPT ![d][n] = "queued"] ELSE job

EnqueueFails(d, n) ==
  /\ Fault
  /\ Enqueue(d, n) \/ UNCHANGED job

-----------------------------------------------------------------------------
(* Owners of webhooks; a row goes with its webhook. *)
SetStatus(h) ==
  /\ hook[h] # "removed"
  /\ hook' = [hook EXCEPT ![h] = IF @ = "active" THEN "disabled" ELSE "active"]
  /\ UNCHANGED <<call, row, created, queue, work, held, posts, faults>>

Remove(h) ==
  /\ hook[h] # "removed"
  /\ hook' = [hook EXCEPT ![h] = "removed"]
  /\ row' = [d \in Deliveries |-> IF d[2] = h THEN NoRow ELSE row[d]]
  /\ UNCHANGED <<call, created, queue, work, held, posts, faults>>

-----------------------------------------------------------------------------
(* dispatch(), one target after another; an error ends it, and its callers   *)
(* let the error go.                                                         *)
Continue(e, todo) ==
  call' = [call EXCEPT ![e] = [pc |-> IF todo = {} THEN "done" ELSE "insert",
                               todo |-> todo, d |-> <<>>]]

ListTargets(e) ==
  /\ call[e].pc = "new"
  /\ Continue(e, {h \in Hooks : hook[h] = "active"})
  /\ UNCHANGED <<hook, row, created, queue, work, held, posts, faults>>

CreateDelivery(e) ==
  /\ call[e].pc = "insert"
  /\ \E h \in call[e].todo :
       /\ hook[h] # "removed"
       /\ row' = [row EXCEPT ![<<e, h>>] = [status |-> "pending", attempts |-> 0, due |-> FALSE]]
       /\ created' = Append(created, <<e, h>>)
       /\ call' = [call EXCEPT ![e] = [pc |-> "add", todo |-> @.todo \ {h}, d |-> <<e, h>>]]
  /\ UNCHANGED <<hook, queue, work, held, posts, faults>>

EnqueueFirst(e) ==
  /\ call[e].pc = "add"
  /\ Enqueue(call[e].d, 0)
  /\ Continue(e, call[e].todo)
  /\ UNCHANGED <<hook, row, created, stalled, work, held, posts, faults>>

EnqueueFirstFails(e) ==
  /\ call[e].pc = "add"
  /\ EnqueueFails(call[e].d, 0)
  /\ call' = [call EXCEPT ![e].pc = "park"]
  /\ UNCHANGED <<hook, row, created, stalled, work, held, posts>>

(* parkEnqueueFailure, whatever the row has become since. *)
Park(e) ==
  /\ call[e].pc = "park"
  /\ Update(call[e].d, [status |-> "failed", attempts |-> 0, due |-> FALSE])
  /\ Continue(e, call[e].todo)
  /\ UNCHANGED <<hook, created, queue, work, held, posts, faults>>

(* The webhook of the next target was removed since the list was read. *)
TargetRemoved(e) ==
  /\ call[e].pc = "insert"
  /\ \E h \in call[e].todo : hook[h] = "removed"
  /\ Continue(e, {})
  /\ UNCHANGED <<hook, row, created, queue, work, held, posts, faults>>

(* A failed insert or update, or the process stops. *)
CallFails(e) ==
  /\ Fault
  /\ call[e].pc \in {"new", "insert", "add", "park"}
  /\ Continue(e, {})
  /\ UNCHANGED <<hook, row, created, queue, work, held, posts>>

-----------------------------------------------------------------------------
(* attemptDelivery, one job at a time. *)
Goto(w, pc) == work' = [work EXCEPT ![w].pc = pc]

At(w, pc) == work[w].pc = pc

(* The job ends, completed or failed; the queue remembers its id. *)
EndJob(w) ==
  /\ job' = [job EXCEPT ![work[w].d][work[w].slot] = "kept"]
  /\ work' = [work EXCEPT ![w] = NoWork]

Start(w) ==
  /\ At(w, "idle")
  /\ \E d \in Deliveries, n \in Slots :
       /\ job[d][n] = "queued"
       /\ job' = [job EXCEPT ![d][n] = "active"]
       /\ work' = [work EXCEPT ![w] = [pc |-> "read", d |-> d, slot |-> n, attempts |-> 0]]
  /\ UNCHANGED <<hook, call, row, created, stalled, held, posts, faults>>

ReadDelivery(w) ==
  /\ At(w, "read")
  /\ IF row[work[w].d].status \in Settled THEN EndJob(w)
     ELSE /\ work' = [work EXCEPT ![w].pc = "hook", ![w].attempts = row[work[w].d].attempts]
          /\ UNCHANGED job
  /\ UNCHANGED <<hook, call, row, created, stalled, held, posts, faults>>

(* The webhook must be active, its target acceptable, its secret readable. *)
ReadHook(w) ==
  /\ At(w, "hook")
  /\ \/ hook[work[w].d[2]] = "active" /\ Goto(w, "post")
     \/ Goto(w, "refuse")
  /\ UNCHANGED <<hook, call, row, created, queue, held, posts, faults>>

(* The endpoint accepts, answers with an error, or cannot be reached. *)
Post(w) ==
  /\ At(w, "post")
  /\ posts' = [posts EXCEPT ![work[w].d] = @ + 1]
  /\ \E pc \in {"accepted", "retry", "again"} : Goto(w, pc)
  /\ UNCHANGED <<hook, call, row, created, queue, held, faults>>

MarkDelivered(w) ==
  /\ At(w, "accepted")
  /\ Update(work[w].d, [row[work[w].d] EXCEPT !.status = "delivered"])
  /\ EndJob(w)
  /\ UNCHANGED <<hook, call, created, stalled, held, posts, faults>>

MarkRefused(w) ==
  /\ At(w, "refuse")
  /\ Update(work[w].d, [row[work[w].d] EXCEPT !.status = "dead"])
  /\ EndJob(w)
  /\ UNCHANGED <<hook, call, created, stalled, held, posts, faults>>

Spent(w) == work[w].attempts + 1

(* scheduleRetry, inside the try ("retry") or in its catch ("again"). *)
MarkDead(w) ==
  /\ At(w, "retry") \/ At(w, "again")
  /\ Spent(w) >= MaxAttempts
  /\ Update(work[w].d, [row[work[w].d] EXCEPT !.status = "dead", !.attempts = Spent(w)])
  /\ EndJob(w)
  /\ UNCHANGED <<hook, call, created, stalled, held, posts, faults>>

(* Mutant: one attempt too many. *)
MarkRetryableOnceMore(w) ==
  /\ At(w, "retry") \/ At(w, "again")
  /\ Spent(w) <= MaxAttempts
  /\ Update(work[w].d, [status |-> "failed", attempts |-> Spent(w), due |-> FALSE])
  /\ Goto(w, IF At(w, "retry") THEN "enqueue" ELSE "enqueue again")
  /\ UNCHANGED <<hook, call, created, queue, held, posts, faults>>

(* Mutant: the attempt is not counted. *)
MarkRetryableUncounted(w) ==
  /\ At(w, "retry") \/ At(w, "again")
  /\ Spent(w) < MaxAttempts
  /\ Update(work[w].d, [row[work[w].d] EXCEPT !.status = "failed", !.due = FALSE])
  /\ Goto(w, IF At(w, "retry") THEN "enqueue" ELSE "enqueue again")
  /\ UNCHANGED <<hook, call, created, queue, held, posts, faults>>

MarkRetryable(w) ==
  /\ At(w, "retry") \/ At(w, "again")
  /\ Spent(w) < MaxAttempts
  /\ Update(work[w].d, [status |-> "failed", attempts |-> Spent(w), due |-> FALSE])
  /\ Goto(w, IF At(w, "retry") THEN "enqueue" ELSE "enqueue again")
  /\ UNCHANGED <<hook, call, created, queue, held, posts, faults>>

EnqueueRetry(w) ==
  LET d == work[w].d  n == Spent(w) IN
  /\ At(w, "enqueue") \/ At(w, "enqueue again")
  /\ job' = [job EXCEPT ![d][n] = IF @ = "none" THEN "queued" ELSE @,
                        ![d][work[w].slot] = "kept"]
  /\ work' = [work EXCEPT ![w] = NoWork]
  /\ UNCHANGED <<hook, call, row, created, stalled, held, posts, faults>>

(* An error in the try goes to its catch; any other fails the job, which has *)
(* no attempts left (attempts: 1).                                           *)
DbError(w) ==
  /\ Fault
  /\ \/ (At(w, "accepted") \/ At(w, "retry")) /\ Goto(w, "again") /\ UNCHANGED job
     \/ work[w].pc \in {"read", "hook", "refuse", "again"} /\ EndJob(w)
  /\ UNCHANGED <<hook, call, row, created, stalled, held, posts>>

EnqueueRetryFails(w) ==
  LET d == work[w].d IN
  /\ At(w, "enqueue")
  /\ EnqueueFails(d, Spent(w))
  /\ Goto(w, "again")
  /\ UNCHANGED <<hook, call, row, created, stalled, held, posts>>

EnqueueAgainFails(w) ==
  LET d == work[w].d  n == Spent(w) IN
  /\ Fault
  /\ At(w, "enqueue again")
  /\ \E landed \in BOOLEAN :
       job' = [job EXCEPT ![d][n] = IF landed /\ @ = "none" THEN "queued" ELSE @,
                          ![d][work[w].slot] = "kept"]
  /\ work' = [work EXCEPT ![w] = NoWork]
  /\ UNCHANGED <<hook, call, row, created, stalled, held, posts>>

(* The worker stops; the queue runs a stalled job again, once. *)
Crash(w) ==
  LET d == work[w].d  n == work[w].slot IN
  /\ Fault
  /\ ~At(w, "idle")
  /\ job' = [job EXCEPT ![d][n] = IF <<d, n>> \in stalled THEN "kept" ELSE "queued"]
  /\ stalled' = stalled \cup {<<d, n>>}
  /\ work' = [work EXCEPT ![w] = NoWork]
  /\ UNCHANGED <<hook, call, row, created, held, posts>>

-----------------------------------------------------------------------------
(* claimStrandedDeliveries commits before its rows are queued: the claim     *)
(* keeps nobody else out.                                                    *)
Stranded(d) ==
  /\ row[d].due
  /\ \/ row[d].status = "pending"
     \/ row[d].status = "failed" /\ row[d].attempts < MaxAttempts

Oldest(stranded) ==
  {i \in stranded : Cardinality({j \in stranded : j < i}) < BatchSize}

(* Mutant: rows that wait for a retry are not swept. *)
ClaimPendingOnly(s) ==
  LET stranded == {i \in DOMAIN created : /\ Stranded(created[i])
                                          /\ row[created[i]].status = "pending"} IN
  /\ held[s] = {} /\ stranded # {}
  /\ held' = [held EXCEPT ![s] =
       {<<created[i], row[created[i]].attempts>> : i \in Oldest(stranded)}]
  /\ UNCHANGED <<hook, call, row, created, queue, work, posts, faults>>

Claim(s) ==
  LET stranded == {i \in DOMAIN created : Stranded(created[i])} IN
  /\ held[s] = {} /\ stranded # {}
  /\ held' = [held EXCEPT ![s] =
       {<<created[i], row[created[i]].attempts>> : i \in Oldest(stranded)}]
  /\ UNCHANGED <<hook, call, row, created, queue, work, posts, faults>>

(* sweepStrandedDeliveries: one row's error does not keep the next waiting. *)
Requeue(s) ==
  /\ \E c \in held[s] :
       /\ Enqueue(c[1], c[2])
       /\ held' = [held EXCEPT ![s] = @ \ {c}]
  /\ UNCHANGED <<hook, call, row, created, stalled, work, posts, faults>>

RequeueFails(s) ==
  /\ \E c \in held[s] :
       /\ EnqueueFails(c[1], c[2])
       /\ held' = [held EXCEPT ![s] = @ \ {c}]
  /\ UNCHANGED <<hook, call, row, created, stalled, work, posts>>

StopSweep(s) ==
  /\ Fault
  /\ held[s] # {}
  /\ held' = [held EXCEPT ![s] = {}]
  /\ UNCHANGED <<hook, call, row, created, queue, work, posts>>

-----------------------------------------------------------------------------
(* Five minutes since the insert, or next_attempt_at, have passed. *)
Age(d) ==
  /\ Unsettled(d)
  /\ ~row[d].due
  /\ row' = [row EXCEPT ![d].due = TRUE]
  /\ UNCHANGED <<hook, call, created, queue, work, held, posts, faults>>

Touches(d) ==
  \/ \E n \in Slots : job[d][n] \in {"queued", "active"}
  \/ \E e \in Events : call[e].d = d
  \/ \E s \in Sweepers : \E c \in held[s] : c[1] = d

(* A finished job is forgotten after days (removeOnComplete, removeOnFail):  *)
(* nothing else of its delivery is under way by then.                        *)
Evict(d) ==
  /\ ~Touches(d)
  /\ \E n \in Slots :
       /\ job[d][n] = "kept"
       /\ job' = [job EXCEPT ![d][n] = "none"]
       /\ stalled' = stalled \ {<<d, n>>}
  /\ UNCHANGED <<hook, call, row, created, work, held, posts, faults>>

Dispatch(e) ==
  ListTargets(e) \/ CreateDelivery(e) \/ EnqueueFirst(e) \/ Park(e) \/ TargetRemoved(e)

Attempt(w) ==
  \/ Start(w) \/ ReadDelivery(w) \/ ReadHook(w) \/ Post(w) \/ MarkDelivered(w)
  \/ MarkRefused(w) \/ MarkDead(w) \/ MarkRetryable(w) \/ EnqueueRetry(w)

Next ==
  \/ \E h \in Hooks : SetStatus(h) \/ Remove(h)
  \/ \E e \in Events : Dispatch(e) \/ EnqueueFirstFails(e) \/ CallFails(e)
  \/ \E w \in Workers :
       Attempt(w) \/ DbError(w) \/ EnqueueRetryFails(w) \/ EnqueueAgainFails(w) \/ Crash(w)
  \/ \E s \in Sweepers : Claim(s) \/ Requeue(s) \/ RequeueFails(s) \/ StopSweep(s)
  \/ \E d \in Deliveries : Age(d) \/ Evict(d)

Spec == Init /\ [][Next]_vars

(* Processes go on until they stop; the sweep's timer ticks; time passes.    *)
(* SF: the sweep may hold a delivery again and again, yet its job's days     *)
(* are counted from the job's end.                                           *)
FairSpec ==
  /\ Spec
  /\ \A e \in Events : WF_vars(Dispatch(e))
  /\ \A w \in Workers : WF_vars(Attempt(w))
  /\ \A s \in Sweepers : WF_vars(Claim(s) \/ Requeue(s))
  /\ \A d \in Deliveries : WF_vars(Age(d)) /\ SF_vars(Evict(d))

-----------------------------------------------------------------------------
CallsOK ==
  /\ call \in [Events -> [pc : {"new", "insert", "add", "park", "done"},
                          todo : SUBSET Hooks, d : Deliveries \cup {<<>>}]]
  /\ \A e \in Events :
       call[e].pc \in {"add", "park"} => call[e].d \in {e} \X (Hooks \ call[e].todo)

RowsOK ==
  /\ row \in [Deliveries -> [status : {"none", "pending", "failed", "delivered", "dead"},
                             attempts : 0 .. MaxAttempts, due : BOOLEAN]]
  /\ \A d \in Deliveries : Unsettled(d) => row[d].attempts \in Slots
  /\ created \in Seq(Deliveries)

QueueOK ==
  /\ job \in [Deliveries -> [Slots -> {"none", "queued", "active", "kept"}]]
  /\ stalled \subseteq Deliveries \X Slots
  /\ held \in [Sweepers -> SUBSET (Deliveries \X Slots)]

WorkOK ==
  /\ work \in [Workers -> [pc : Pcs, d : Deliveries \cup {<<>>}, slot : Slots, attempts : Slots]]
  /\ \A w \in Workers : ~At(w, "idle") => work[w].d \in Deliveries
  /\ \A w \in Workers : At(w, "enqueue") \/ At(w, "enqueue again") => Spent(w) \in Slots

(* Type invariant. *)
TypeOK ==
  /\ hook \in [Hooks -> {"active", "disabled", "removed"}]
  /\ CallsOK /\ RowsOK /\ QueueOK /\ WorkOK
  /\ posts \in [Deliveries -> Nat]
  /\ faults \in 0 .. MaxFaults

(* As long as no call fails and no process stops, one delivery is attempted  *)
(* by one worker at a time: a job id the queue knows is ignored, and the     *)
(* next attempt's id is not used before the row says that the attempt before *)
(* it is over, however late a sweep's claim is acted upon                    *)
(* (webhooks.service.ts:185-193, 346-358).                                   *)
Attempting(w, d) ==
  work[w].d = d /\ work[w].pc \in {"hook", "refuse", "post", "accepted", "retry", "again"}

OneAttempt ==
  \A d \in Deliveries : \A v, w \in Workers : Attempting(v, d) /\ Attempting(w, d) => v = w

RacedRequeueIsNoOp == faults = 0 => OneAttempt

(* "the deterministic jobId makes even a raced re-enqueue a no-op instead of  *)
(* a double delivery" (webhooks.service.ts:191-192), without that condition: *)
(* two requests of one delivery are never under way at once.                 *)
NoDoubleDelivery ==
  \A v, w \in Workers : At(v, "post") /\ At(w, "post") /\ work[v].d = work[w].d => v = w

(* An endpoint gets at most MAX_ATTEMPTS requests for a delivery, and at     *)
(* most as many again for each failed call or stopped process: what was lost *)
(* in between, the sweep's raced jobs and the forgotten ones included, never *)
(* makes a retry storm.                                                      *)
AttemptsPaidFor ==
  \A d \in Deliveries : posts[d] <= MaxAttempts * (faults + 1)

(* Each delivery row is settled in the end: delivered, dead or gone with its *)
(* webhook, whichever of the durable steps failed or was lost in between     *)
(* (webhook-delivery-sweep.worker.ts:8-12).                                  *)
EventuallySettled ==
  \A d \in Deliveries :
    Unsettled(d) ~> row[d].status \in Settled
=============================================================================
