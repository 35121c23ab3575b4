---------------------------- MODULE WebhookProofs ----------------------------
(* While no call fails, a delivery is attempted by one worker at a time; and *)
(* whatever fails, its requests are paid for by its attempts and the faults. *)
EXTENDS WebhookDelivery, FiniteSetTheorems, TLAPS

Trying(w) == work[w].pc \in {"read", "hook", "refuse", "post", "accepted", "retry", "again"}

Enqueuing(w) == At(w, "enqueue") \/ At(w, "enqueue again")

Sending(w) == work[w].pc \in {"read", "hook", "post"}

Sent(w) == work[w].pc \in {"accepted", "retry", "again"}

Adding(d) == \E e \in Events : call[e].pc = "add" /\ call[e].d = d

Parking(d) == \E e \in Events : call[e].pc = "park" /\ call[e].d = d

Holding(d, n) == \E s \in Sweepers : <<d, n>> \in held[s]

(* Somebody is about to queue attempt n of d. *)
Coming(d, n) ==
  \/ Adding(d) /\ n = 0
  \/ \E w \in Workers : Enqueuing(w) /\ work[w].d = d /\ n = Spent(w)
  \/ Holding(d, n)

(* A worker has an active job, and no two workers have one job. *)
OwnJobs ==
  /\ \A w \in Workers : ~At(w, "idle") => job[work[w].d][work[w].slot] = "active"
  /\ \A v, w \in Workers :
       ~At(v, "idle") /\ ~At(w, "idle") /\ work[v].d = work[w].d /\ work[v].slot = work[w].slot
         => v = w

(* Nothing is known of a target dispatch() has not come to. *)
Untouched ==
  \A e \in Events, h \in Hooks : call[e].pc = "new" \/ h \in call[e].todo =>
    /\ row[<<e, h>>].status = "none" /\ posts[<<e, h>>] = 0
    /\ \A n \in Slots : job[<<e, h>>][n] = "none" /\ ~Holding(<<e, h>>, n)

(* What a worker holds is of its own attempt, and nobody else has one. *)
OwnAttempt(d) ==
  /\ \A w \in Workers : Attempting(w, d) =>
       work[w].attempts = work[w].slot /\ row[d].status \in {"pending", "failed", "none"}
  /\ \A v, w \in Workers : Attempting(v, d) /\ Attempting(w, d) => v = w

(* Only the attempt the row has come to is queued or under way, and whoever  *)
(* is about to queue an earlier one will be ignored.                         *)
Current(d) ==
  Unsettled(d) =>
    /\ \A n \in Slots : job[d][n] = "queued" => n = row[d].attempts
    /\ \A w \in Workers : Trying(w) /\ work[w].d = d => work[w].slot = row[d].attempts
    /\ \A n \in Slots : Coming(d, n) =>
         n <= row[d].attempts /\ (n < row[d].attempts => job[d][n] # "none")

(* What the attempts and the faults so far pay for. *)
Paid == MaxAttempts * (faults + 1)

(* The requests the row has counted, the one under way included. *)
Counted(d) ==
  Unsettled(d) =>
    posts[d] + (MaxAttempts - row[d].attempts) <=
      Paid + (IF \E w \in Workers : work[w].d = d /\ Sent(w) THEN 1 ELSE 0)

(* The attempts that may still send a request before a job is forgotten: no  *)
(* attempt below b is queued any more, unless the queue knows it.            *)
Unsent(d, b) ==
  {n \in Slots : \/ job[d][n] = "none" /\ n >= b
                 \/ job[d][n] = "queued"
                 \/ \E w \in Workers : Sending(w) /\ work[w].d = d /\ work[w].slot = n}

Spend(d, b) == posts[d] + Cardinality(Unsent(d, b))

Bases == 0 .. MaxAttempts

(* Neither the row nor anybody at work on it will go back behind b. *)
Base(d, b) ==
  /\ Parking(d) => b = 0
  /\ Unsettled(d) => row[d].attempts >= b
  /\ \A w \in Workers : Attempting(w, d) \/ (Enqueuing(w) /\ work[w].d = d) => Spent(w) >= b
  /\ \A n \in Slots : Coming(d, n) => n >= b \/ job[d][n] # "none"

(* A delivery whose first job is still to be queued has had no job forgotten. *)
First(d) == Adding(d) => Spend(d, 0) <= Paid

Covered(d) == \E b \in Bases : Base(d, b) /\ Spend(d, b) <= Paid

Clean(d) == ~Parking(d) /\ OwnAttempt(d) /\ Current(d) /\ Counted(d) /\ Covered(d)

(* After a fault two workers may be at work on a delivery, and the later to  *)
(* write may set the row back: as far as b, and the fault has paid for that. *)
Raced(d) ==
  faults > 0 /\ \E b \in Bases : Base(d, b) /\ Spend(d, b) + (MaxAttempts - b) <= Paid

Sound(d) == First(d) /\ (Clean(d) \/ Raced(d))

Inv == TypeOK /\ OwnJobs /\ Untouched /\ \A d \in Deliveries : Sound(d)

-----------------------------------------------------------------------------
USE WebhookAssumption

LEMMA SlotsType == Slots \subseteq Nat /\ 0 \in Slots /\ \A n \in Slots : n < MaxAttempts /\ n + 1 \in 0 .. MaxAttempts
BY DEF Slots

LEMMA AtMost ==
  /\ \A m, n \in Nat : m <= n => (m < n \/ m = n) /\ m <= n + 1
  /\ \A m, n \in Nat : m < n + 1 => m <= n
  /\ \A n \in Nat : n + 1 <= n + 1 /\ ~(n + 1 < n + 1)
OBVIOUS

(* How many attempts may still send a request. *)
LEMMA Sizes ==
  ASSUME NEW S \in SUBSET Slots
  PROVE  /\ Cardinality(S) \in Nat /\ Cardinality(S) <= MaxAttempts
         /\ \A R \in SUBSET S : Cardinality(R) <= Cardinality(S)
         /\ \A n \in S : \A R \in SUBSET (S \ {n}) : Cardinality(R) + 1 <= Cardinality(S)
         /\ \A n, R : R \subseteq S \cup {n} => Cardinality(R) <= Cardinality(S) + 1
         /\ \A b \in Bases : (\A n \in S : n >= b) => Cardinality(S) <= MaxAttempts - b
         /\ S = {} => Cardinality(S) = 0
<1>1. IsFiniteSet(Slots) /\ Cardinality(Slots) = MaxAttempts
  BY FS_Interval DEF Slots
<1>2. IsFiniteSet(S) /\ Cardinality(S) <= MaxAttempts
  BY <1>1, FS_Subset
<1>3. Cardinality(S) \in Nat
  BY <1>2, FS_CardinalityType
<1>4. ASSUME NEW R \in SUBSET S PROVE Cardinality(R) <= Cardinality(S)
  BY <1>2, FS_Subset
<1>5. ASSUME NEW n \in S, NEW R \in SUBSET (S \ {n}) PROVE Cardinality(R) + 1 <= Cardinality(S)
  <2>1. IsFiniteSet(S \ {n}) /\ Cardinality(S \ {n}) = Cardinality(S) - 1
    BY <1>2, FS_RemoveElement
  <2>2. IsFiniteSet(R) /\ Cardinality(R) <= Cardinality(S \ {n})
    BY <2>1, FS_Subset
  <2>3. Cardinality(R) \in Nat
    BY <2>2, FS_CardinalityType
  <2> QED
    BY <1>3, <2>1, <2>2, <2>3
<1>6. ASSUME NEW n, NEW R, R \subseteq S \cup {n} PROVE Cardinality(R) <= Cardinality(S) + 1
  <2>1. IsFiniteSet(S \cup {n}) /\ Cardinality(S \cup {n}) <= Cardinality(S) + 1
    BY <1>2, <1>3, FS_AddElement
  <2>2. IsFiniteSet(R) /\ Cardinality(R) <= Cardinality(S \cup {n})
    BY <1>6, <2>1, FS_Subset
  <2>3. Cardinality(R) \in Nat /\ Cardinality(S \cup {n}) \in Nat
    BY <2>1, <2>2, FS_CardinalityType
  <2> QED
    BY <1>3, <2>1, <2>2, <2>3
<1>7. ASSUME NEW b \in Bases, \A n \in S : n >= b PROVE Cardinality(S) <= MaxAttempts - b
  <2>1. b \in Int /\ MaxAttempts - 1 \in Int /\ b <= MaxAttempts
    BY DEF Bases
  <2>2. IsFiniteSet(b .. MaxAttempts - 1) /\ Cardinality(b .. MaxAttempts - 1) = MaxAttempts - b
    <3>1. /\ IsFiniteSet(b .. MaxAttempts - 1)
          /\ Cardinality(b .. MaxAttempts - 1) =
               IF b > MaxAttempts - 1 THEN 0 ELSE MaxAttempts - 1 - b + 1
      BY <2>1, FS_Interval
    <3> QED
      BY <2>1, <3>1
  <2>3. S \subseteq b .. MaxAttempts - 1
    BY <1>7, <2>1 DEF Slots
  <2> QED
    BY <2>2, <2>3, FS_Subset
<1>8. S = {} => Cardinality(S) = 0
  BY FS_EmptySet
<1> QED
  BY <1>2, <1>3, <1>4, <1>5, <1>6, <1>7, <1>8

(* A fault pays for as many requests as a delivery has attempts. *)
LEMMA Paying ==
  ASSUME TypeOK
  PROVE  /\ Paid \in Nat /\ MaxAttempts <= Paid
         /\ UNCHANGED faults => Paid' = Paid
         /\ Fault => Paid' = Paid + MaxAttempts /\ Paid' >= Paid + 1
         /\ Fault \/ UNCHANGED faults => Paid' \in Nat /\ Paid' >= Paid
<1>1. faults \in Nat
  BY DEF TypeOK
<1>2. \A m, n \in Nat : m * n \in Nat /\ m * (n + 1) = m * n + m /\ m * (n + 1 + 1) = m * (n + 1) + m
  OBVIOUS
<1>3. MaxAttempts * faults \in Nat /\ MaxAttempts * (faults + 1) = MaxAttempts * faults + MaxAttempts
      /\ MaxAttempts * (faults + 1 + 1) = MaxAttempts * (faults + 1) + MaxAttempts
  BY <1>1, <1>2
<1>4. Paid \in Nat /\ MaxAttempts <= Paid
  BY <1>1, <1>3 DEF Paid
<1>5. UNCHANGED faults => Paid' = Paid
  BY DEF Paid
<1>6. Fault => Paid' = Paid + MaxAttempts
  BY <1>1, <1>3 DEF Paid, Fault
<1> QED
  BY <1>4, <1>5, <1>6

LEMMA SpendType ==
  ASSUME TypeOK, TypeOK', NEW d \in Deliveries
  PROVE  /\ posts[d] \in Nat /\ posts'[d] \in Nat
         /\ \A b : /\ Spend(d, b) \in Nat /\ Unsent(d, b) \in SUBSET Slots
                  /\ Spend(d, b)' \in Nat /\ Unsent(d, b)' \in SUBSET Slots
<1>1. posts[d] \in Nat /\ posts'[d] \in Nat
  BY DEF TypeOK
<1>2. \A b : Unsent(d, b) \in SUBSET Slots /\ Unsent(d, b)' \in SUBSET Slots
  BY DEF Unsent
<1>3. \A b : Cardinality(Unsent(d, b)) \in Nat /\ Cardinality(Unsent(d, b)') \in Nat
  BY <1>2, Sizes
<1> QED
  BY <1>1, <1>2, <1>3 DEF Spend

LEMMA InitInv == Init => Inv
<1> SUFFICES ASSUME Init PROVE Inv
  OBVIOUS
<1>1. TypeOK
  <2>1. CallsOK /\ QueueOK
    BY DEF Init, CallsOK, QueueOK
  <2>2. RowsOK
    BY DEF Init, RowsOK, NoRow, Unsettled
  <2>3. WorkOK
    BY SlotsType DEF Init, WorkOK, NoWork, Pcs, At
  <2> QED
    BY <2>1, <2>2, <2>3 DEF Init, TypeOK
<1>2. OwnJobs
  BY DEF Init, OwnJobs, NoWork, At
<1>3. Untouched
  BY DEF Init, Untouched, Holding, NoRow, Deliveries
<1>4. ASSUME NEW d \in Deliveries PROVE Sound(d)
  <2>1. /\ ~Parking(d) /\ ~Adding(d) /\ ~Unsettled(d) /\ posts[d] = 0
        /\ \A n \in Slots : ~Coming(d, n) /\ job[d][n] = "none"
        /\ \A w \in Workers : ~Attempting(w, d) /\ ~Enqueuing(w) /\ ~Sending(w)
    BY DEF Init, Parking, Adding, Unsettled, Coming, Holding, Attempting, Enqueuing, Sending, At,
           NoRow, NoWork
  <2>2. MaxAttempts \in Bases /\ Base(d, MaxAttempts)
    BY <2>1 DEF Base, Bases
  <2>3. Unsent(d, MaxAttempts) = {}
    <3>1. \A n \in Slots : ~(n >= MaxAttempts)
      BY DEF Slots
    <3> QED
      BY <2>1, <3>1 DEF Unsent
  <2>4. Spend(d, MaxAttempts) <= Paid
    <3>1. Cardinality(Unsent(d, MaxAttempts)) = 0
      BY <2>3, FS_EmptySet
    <3> QED
      BY <1>1, <2>1, <3>1, Paying DEF Spend
  <2> QED
    BY <2>1, <2>2, <2>4 DEF Sound, First, Clean, OwnAttempt, Current, Counted, Covered
<1> QED
  BY <1>1, <1>2, <1>3, <1>4 DEF Inv

-----------------------------------------------------------------------------
(* Types. *)
LEMMA CallsStep == TypeOK /\ [Next]_vars => CallsOK'
<1> SUFFICES ASSUME TypeOK, [Next]_vars PROVE CallsOK'
  OBVIOUS
<1> USE DEF TypeOK, CallsOK
<1>1. CASE UNCHANGED call
  BY <1>1
<1>2. ASSUME NEW e \in Events, NEW todo \in SUBSET Hooks, Continue(e, todo) PROVE CallsOK'
  BY <1>2 DEF Continue
<1>3. ASSUME NEW e \in Events, CreateDelivery(e) PROVE CallsOK'
  <2>1. PICK h \in call[e].todo :
          call' = [call EXCEPT ![e] = [pc |-> "add", todo |-> call[e].todo \ {h}, d |-> <<e, h>>]]
    BY <1>3 DEF CreateDelivery
  <2>2. call[e].todo \in SUBSET Hooks /\ <<e, h>> \in Deliveries
    BY DEF Deliveries
  <2> QED
    BY <2>1, <2>2
<1>4. ASSUME NEW e \in Events, EnqueueFirstFails(e) PROVE CallsOK'
  BY <1>4 DEF EnqueueFirstFails
<1>5. \/ UNCHANGED call
      \/ \E e \in Events : CreateDelivery(e) \/ EnqueueFirstFails(e)
                          \/ \E todo \in SUBSET Hooks : Continue(e, todo)
  <2>1. ASSUME NEW e \in Events, ListTargets(e) PROVE \E todo \in SUBSET Hooks : Continue(e, todo)
    BY <2>1 DEF ListTargets
  <2>2. ASSUME NEW e \in Events, EnqueueFirst(e) \/ Park(e)
        PROVE  \E todo \in SUBSET Hooks : Continue(e, todo)
    BY <2>2 DEF EnqueueFirst, Park
  <2>3. ASSUME NEW e \in Events, TargetRemoved(e) \/ CallFails(e)
        PROVE  \E todo \in SUBSET Hooks : Continue(e, todo)
    BY <2>3 DEF TargetRemoved, CallFails
  <2> QED
    BY <2>1, <2>2, <2>3 DEF Next, vars, Dispatch, Attempt, SetStatus, Remove, Start, ReadDelivery,
       ReadHook, Post, MarkDelivered, MarkRefused, MarkDead, MarkRetryable, EnqueueRetry, DbError,
       EnqueueRetryFails, EnqueueAgainFails, Crash, Claim, Requeue, RequeueFails, StopSweep, Age, Evict
<1> QED
  BY <1>1, <1>2, <1>3, <1>4, <1>5

LEMMA RowsStep == TypeOK /\ [Next]_vars => RowsOK'
<1> SUFFICES ASSUME TypeOK, [Next]_vars PROVE RowsOK'
  OBVIOUS
<1> USE SlotsType DEF TypeOK, RowsOK, Unsettled
<1>1. CASE UNCHANGED <<row, created>>
  BY <1>1
<1>2. ASSUME NEW h \in Hooks, Remove(h) PROVE RowsOK'
  BY <1>2 DEF Remove, NoRow
<1>3. ASSUME NEW e \in Events, CreateDelivery(e) PROVE RowsOK'
  <2>1. PICK h \in call[e].todo :
          /\ row' = [row EXCEPT ![<<e, h>>] = [status |-> "pending", attempts |-> 0, due |-> FALSE]]
          /\ created' = Append(created, <<e, h>>)
    BY <1>3 DEF CreateDelivery
  <2>2. <<e, h>> \in Deliveries
    BY DEF CallsOK, Deliveries
  <2>3. created' \in Seq(Deliveries)
    BY <2>1, <2>2
  <2>5. row' \in [Deliveries -> [status : {"none", "pending", "failed", "delivered", "dead"},
                                 attempts : 0 .. MaxAttempts, due : BOOLEAN]]
    BY <2>1, <2>2
  <2>6. \A d \in Deliveries : row'[d] = row[d] \/ row'[d].attempts = 0
    BY <2>1, <2>2
  <2> QED
    BY <2>3, <2>5, <2>6
<1>4. ASSUME NEW d \in Deliveries,
             NEW r \in [status : {"failed", "delivered", "dead"},
                        attempts : 0 .. MaxAttempts, due : BOOLEAN],
             r.status = "failed" => r.attempts \in Slots, Update(d, r), UNCHANGED created
      PROVE  RowsOK'
  <2>1. CASE UNCHANGED row
    BY <1>4, <2>1
  <2>2. CASE row' = [row EXCEPT ![d] = r]
    <3> DEFINE Row == [status : {"none", "pending", "failed", "delivered", "dead"},
                       attempts : 0 .. MaxAttempts, due : BOOLEAN]
    <3>1. r \in Row /\ r.status # "pending"
      OBVIOUS
    <3>2. row \in [Deliveries -> Row]
      OBVIOUS
    <3> HIDE DEF Row
    <3>3. row' \in [Deliveries -> Row]
      BY <2>2, <3>1, <3>2
    <3>4. \A x \in Deliveries : row'[x] = IF x = d THEN r ELSE row[x]
      BY <2>2, <3>2
    <3>5. \A x \in Deliveries : row'[x].status \in {"pending", "failed"} => row'[x].attempts \in Slots
      BY <1>4, <3>1, <3>4
    <3> QED
      BY <1>4, <3>3, <3>5 DEF Row
  <2> QED
    BY <1>4, <2>1, <2>2 DEF Update
<1>5. ASSUME NEW e \in Events, Park(e) PROVE RowsOK'
  <2>1. call[e].d \in Deliveries
    BY <1>5 DEF Park, CallsOK, Deliveries
  <2>2. Update(call[e].d, [status |-> "failed", attempts |-> 0, due |-> FALSE])
        /\ UNCHANGED created
    BY <1>5 DEF Park
  <2> DEFINE r == [status |-> "failed", attempts |-> 0, due |-> FALSE]
  <2>3. /\ r \in [status : {"failed", "delivered", "dead"}, attempts : 0 .. MaxAttempts, due : BOOLEAN]
        /\ r.attempts \in Slots
    OBVIOUS
  <2>4. Update(call[e].d, r)
    BY <2>2
  <2> HIDE DEF r
  <2> QED
    BY <1>4, <2>1, <2>2, <2>3, <2>4
<1>6. ASSUME NEW w \in Workers, MarkDelivered(w) \/ MarkRefused(w) PROVE RowsOK'
  <2>1. work[w].d \in Deliveries
    BY <1>6 DEF MarkDelivered, MarkRefused, At, WorkOK
  <2>2. ASSUME NEW st \in {"delivered", "dead"},
               Update(work[w].d, [row[work[w].d] EXCEPT !.status = st]), UNCHANGED created
        PROVE  RowsOK'
    <3> DEFINE r == [row[work[w].d] EXCEPT !.status = st]
    <3>1. /\ r \in [status : {"failed", "delivered", "dead"},
                    attempts : 0 .. MaxAttempts, due : BOOLEAN]
          /\ r.status # "failed"
      BY <2>1
    <3> HIDE DEF r
    <3>2. Update(work[w].d, r)
      BY <2>2 DEF r
    <3> QED
      BY <1>4, <2>1, <2>2, <3>1, <3>2
  <2>3. CASE MarkDelivered(w)
    <3>1. /\ Update(work[w].d, [row[work[w].d] EXCEPT !.status = "delivered"])
          /\ UNCHANGED created
      BY <2>3 DEF MarkDelivered
    <3> QED
      BY <2>2, <3>1, Zenon
  <2>4. CASE MarkRefused(w)
    <3>1. /\ Update(work[w].d, [row[work[w].d] EXCEPT !.status = "dead"])
          /\ UNCHANGED created
      BY <2>4 DEF MarkRefused
    <3> QED
      BY <2>2, <3>1, Zenon
  <2> QED
    BY <1>6, <2>3, <2>4
<1>7. ASSUME NEW w \in Workers, MarkDead(w) \/ MarkRetryable(w) PROVE RowsOK'
  <2>1. work[w].d \in Deliveries /\ work[w].attempts \in Slots
    BY <1>7 DEF MarkDead, MarkRetryable, At, WorkOK
  <2>2. CASE MarkDead(w)
    <3>1. Spent(w) \in 0 .. MaxAttempts
      BY <2>1 DEF Spent
    <3> QED
      BY <1>4, <2>1, <2>2, <3>1, ZenonT(40) DEF MarkDead
  <2>3. CASE MarkRetryable(w)
    <3>1. Spent(w) \in Slots /\ Spent(w) \in 0 .. MaxAttempts
      <4>1. Spent(w) < MaxAttempts
        BY <2>3 DEF MarkRetryable
      <4> QED
        BY <2>1, <4>1 DEF Spent, Slots
    <3> QED
      BY <1>4, <2>1, <2>3, <3>1 DEF MarkRetryable
  <2> QED
    BY <1>7, <2>2, <2>3
<1>8. ASSUME NEW d \in Deliveries, Age(d) PROVE RowsOK'
  BY <1>8 DEF Age
<1> QED
  BY <1>1, <1>2, <1>3, <1>5, <1>6, <1>7, <1>8
  DEF Next, vars, Dispatch, Attempt, SetStatus, ListTargets, EnqueueFirst, EnqueueFirstFails,
      TargetRemoved, CallFails, Start, ReadDelivery, ReadHook, Post, EnqueueRetry, DbError,
      EnqueueRetryFails, EnqueueAgainFails, Crash, Claim, Requeue, RequeueFails, StopSweep, Evict

Item == [pc : Pcs, d : Deliveries \cup {<<>>}, slot : Slots, attempts : Slots]

LEMMA WorkStep == TypeOK /\ [Next]_vars => WorkOK'
<1> SUFFICES ASSUME TypeOK, [Next]_vars PROVE WorkOK'
  OBVIOUS
<1>0. /\ work \in [Workers -> Item]
      /\ \A w \in Workers : work[w].pc # "idle" => work[w].d \in Deliveries
      /\ \A w \in Workers : work[w].pc \in {"enqueue", "enqueue again"} =>
           work[w].attempts + 1 \in Slots
  BY DEF TypeOK, WorkOK, At, Spent, Item
<1>1. CASE UNCHANGED work
  BY <1>1 DEF TypeOK, WorkOK, At, Spent
<1>2. ASSUME NEW w \in Workers, NEW i \in Item, work' = [work EXCEPT ![w] = i],
             i.pc # "idle" => i.d \in Deliveries,
             i.pc \in {"enqueue", "enqueue again"} => i.attempts + 1 \in Slots
      PROVE  WorkOK'
  <2>1. work' \in [Workers -> Item]
    BY <1>0, <1>2
  <2>2. \A v \in Workers : work'[v].pc # "idle" => work'[v].d \in Deliveries
    BY <1>0, <1>2
  <2>3. \A v \in Workers : work'[v].pc \in {"enqueue", "enqueue again"} =>
          work'[v].attempts + 1 \in Slots
    BY <1>0, <1>2
  <2> QED
    BY <2>1, <2>2, <2>3 DEF WorkOK, At, Spent, Item
<1>3. ASSUME NEW w \in Workers, work' = [work EXCEPT ![w] = NoWork] PROVE WorkOK'
  <2>1. NoWork \in Item /\ NoWork.pc = "idle"
    BY SlotsType DEF NoWork, Item, Pcs
  <2> QED
    BY <1>2, <1>3, <2>1
<1>4. ASSUME NEW w \in Workers, NEW n \in Slots, work[w].pc # "idle",
             work' = [work EXCEPT ![w].pc = "hook", ![w].attempts = n]
      PROVE  WorkOK'
  <2> DEFINE i == [work[w] EXCEPT !.pc = "hook", !.attempts = n]
  <2>1. i \in Item /\ i.d \in Deliveries /\ i.pc = "hook"
    BY <1>0, <1>4 DEF Item, Pcs
  <2>2. work' = [work EXCEPT ![w] = i]
    BY <1>0, <1>4
  <2> HIDE DEF i
  <2> QED
    BY <1>2, <2>1, <2>2
<1>5. ASSUME NEW w \in Workers, NEW pc \in Pcs, work[w].pc # "idle", Goto(w, pc),
             pc \in {"enqueue", "enqueue again"} => Spent(w) \in Slots
      PROVE  WorkOK'
  <2> DEFINE i == [work[w] EXCEPT !.pc = pc]
  <2>1. i \in Item /\ i.d \in Deliveries /\ i.pc = pc /\ i.attempts = work[w].attempts
    BY <1>0, <1>5 DEF Item
  <2>2. work' = [work EXCEPT ![w] = i]
    BY <1>0, <1>5 DEF Goto
  <2> HIDE DEF i
  <2> QED
    BY <1>2, <1>5, <2>1, <2>2 DEF Spent
<1>6. ASSUME NEW w \in Workers, Start(w) PROVE WorkOK'
  <2>1. PICK d \in Deliveries, n \in Slots :
          work' = [work EXCEPT ![w] = [pc |-> "read", d |-> d, slot |-> n, attempts |-> 0]]
    BY <1>6 DEF Start
  <2>2. [pc |-> "read", d |-> d, slot |-> n, attempts |-> 0] \in Item
    BY SlotsType DEF Item, Pcs
  <2> QED
    BY <1>2, <2>1, <2>2
<1>7. ASSUME NEW w \in Workers, ReadDelivery(w) PROVE WorkOK'
  <2>1. CASE row[work[w].d].status \in Settled
    <3>1. work' = [work EXCEPT ![w] = NoWork]
      BY <1>7, <2>1 DEF ReadDelivery, EndJob
    <3> QED
      BY <1>3, <3>1
  <2>2. CASE row[work[w].d].status \notin Settled
    <3>1. work[w].pc = "read" /\ work[w].d \in Deliveries
      BY <1>0, <1>7 DEF ReadDelivery, At
    <3>2. row[work[w].d].attempts \in Slots
      BY <2>2, <3>1 DEF TypeOK, RowsOK, Settled, Unsettled
    <3>3. work' = [work EXCEPT ![w].pc = "hook", ![w].attempts = row[work[w].d].attempts]
      BY <1>7, <2>2 DEF ReadDelivery
    <3> QED
      BY <1>4, <3>1, <3>2, <3>3
  <2> QED
    BY <2>1, <2>2
<1>8. ASSUME NEW w \in Workers, ReadHook(w) \/ Post(w) PROVE WorkOK'
  <2>1. work[w].pc # "idle" /\ \E pc \in Pcs \ {"enqueue", "enqueue again"} : Goto(w, pc)
    BY <1>8 DEF ReadHook, Post, At, Pcs
  <2> QED
    BY <1>5, <2>1
<1>9. ASSUME NEW w \in Workers, MarkRetryable(w) \/ EnqueueRetryFails(w) PROVE WorkOK'
  <2>1. work[w].pc # "idle"
    BY <1>9 DEF MarkRetryable, EnqueueRetryFails, At
  <2>2. {"enqueue", "enqueue again", "again"} \subseteq Pcs
    BY DEF Pcs
  <2>3. CASE MarkRetryable(w)
    <3>1. Spent(w) \in Slots
      <4>1. work[w].attempts \in Slots
        BY <1>0 DEF Item
      <4>2. Spent(w) < MaxAttempts
        BY <2>3 DEF MarkRetryable
      <4> QED
        BY <4>1, <4>2 DEF Spent, Slots
    <3>2. Goto(w, "enqueue") \/ Goto(w, "enqueue again")
      BY <2>3 DEF MarkRetryable
    <3> QED
      BY <1>5, <2>1, <2>2, <3>1, <3>2
  <2>4. CASE EnqueueRetryFails(w)
    BY <1>5, <2>1, <2>2, <2>4 DEF EnqueueRetryFails
  <2> QED
    BY <1>9, <2>3, <2>4
<1>10. ASSUME NEW w \in Workers, \/ MarkDelivered(w) \/ MarkRefused(w) \/ MarkDead(w)
                                \/ EnqueueRetry(w) \/ EnqueueAgainFails(w) \/ Crash(w)
       PROVE  WorkOK'
  <2>1. work' = [work EXCEPT ![w] = NoWork]
    BY <1>10 DEF MarkDelivered, MarkRefused, MarkDead, EnqueueRetry, EnqueueAgainFails, Crash, EndJob
  <2> QED
    BY <1>3, <2>1
<1>11. ASSUME NEW w \in Workers, DbError(w) PROVE WorkOK'
  <2>1. CASE (At(w, "accepted") \/ At(w, "retry")) /\ Goto(w, "again")
    BY <1>5, <2>1 DEF At, Pcs
  <2>2. CASE EndJob(w)
    BY <1>3, <2>2 DEF EndJob
  <2> QED
    BY <1>11, <2>1, <2>2 DEF DbError
<1> QED
  BY <1>1, <1>6, <1>7, <1>8, <1>9, <1>10, <1>11
  DEF Next, vars, Dispatch, Attempt, SetStatus, Remove, ListTargets, CreateDelivery, EnqueueFirst,
      EnqueueFirstFails, Park, TargetRemoved, CallFails, Claim, Requeue, RequeueFails, StopSweep,
      Age, Evict

Jobs == [Deliveries -> [Slots -> {"none", "queued", "active", "kept"}]]

(* What the steps do to the queue, job by job. *)
LEMMA Enqueued ==
  ASSUME job \in Jobs, NEW d \in Deliveries, NEW n \in Slots, Enqueue(d, n)
  PROVE  /\ job' \in Jobs
         /\ \A x \in Deliveries, m \in Slots :
              job'[x][m] = IF x = d /\ m = n /\ job[x][m] = "none" THEN "queued" ELSE job[x][m]
BY DEF Enqueue, Jobs

LEMMA Ended ==
  ASSUME TypeOK, NEW w \in Workers, ~At(w, "idle"), EndJob(w)
  PROVE  /\ job' \in Jobs
         /\ \A x \in Deliveries, m \in Slots :
              job'[x][m] = IF x = work[w].d /\ m = work[w].slot THEN "kept" ELSE job[x][m]
BY DEF TypeOK, QueueOK, WorkOK, EndJob, Jobs

Hand(w, v) ==
  job' = [job EXCEPT ![work[w].d][Spent(w)] = v, ![work[w].d][work[w].slot] = "kept"]

LEMMA Requeued ==
  ASSUME TypeOK, NEW w \in Workers, ~At(w, "idle"), Spent(w) \in Slots,
         NEW v \in {"none", "queued", "active", "kept"},
         Hand(w, v)
  PROVE  /\ job' \in Jobs
         /\ \A x \in Deliveries, m \in Slots :
              job'[x][m] = IF x = work[w].d /\ m = work[w].slot THEN "kept"
                           ELSE IF x = work[w].d /\ m = Spent(w) THEN v ELSE job[x][m]
<1>1. job \in Jobs /\ work[w].d \in Deliveries /\ work[w].slot \in Slots
  BY DEF TypeOK, QueueOK, WorkOK, Jobs
<1> QED
  BY <1>1 DEF Jobs, Hand

LEMMA QueueStep == TypeOK /\ [Next]_vars => QueueOK'
<1> SUFFICES ASSUME TypeOK, [Next]_vars PROVE QueueOK'
  OBVIOUS
<1>0. /\ job \in Jobs /\ stalled \subseteq Deliveries \X Slots
      /\ held \in [Sweepers -> SUBSET (Deliveries \X Slots)]
  BY DEF TypeOK, QueueOK, Jobs
<1>1. \/ job' \in Jobs
  <2>1. CASE UNCHANGED job
    BY <1>0, <2>1
  <2>2. ASSUME NEW e \in Events, EnqueueFirst(e) \/ EnqueueFirstFails(e) PROVE job' \in Jobs
    <3>1. call[e].d \in Deliveries
      BY <2>2 DEF TypeOK, CallsOK, EnqueueFirst, EnqueueFirstFails, Deliveries
    <3> QED
      BY <1>0, <2>2, <3>1, SlotsType, Enqueued DEF EnqueueFirst, EnqueueFirstFails, EnqueueFails
  <2>3. ASSUME NEW w \in Workers, Start(w) PROVE job' \in Jobs
    BY <1>0, <2>3 DEF Start, Jobs
  <2>4. ASSUME NEW w \in Workers, ~At(w, "idle"), EndJob(w) PROVE job' \in Jobs
    BY <2>4, Ended
  <2>5. ASSUME NEW w \in Workers, EnqueueRetryFails(w) PROVE job' \in Jobs
    <3>1. work[w].d \in Deliveries /\ Spent(w) \in Slots
      BY <2>5 DEF TypeOK, WorkOK, EnqueueRetryFails, At
    <3> QED
      BY <1>0, <2>5, <3>1, Enqueued DEF EnqueueRetryFails, EnqueueFails
  <2>6. ASSUME NEW w \in Workers, EnqueueRetry(w) \/ EnqueueAgainFails(w) PROVE job' \in Jobs
    <3>1. ~At(w, "idle") /\ work[w].d \in Deliveries /\ Spent(w) \in Slots
      BY <2>6 DEF TypeOK, WorkOK, EnqueueRetry, EnqueueAgainFails, At
    <3>2. job[work[w].d][Spent(w)] \in {"none", "queued", "active", "kept"}
      BY <1>0, <3>1 DEF Jobs
    <3>3. \E v \in {"none", "queued", "active", "kept"} :
            Hand(w, v)
      <4>1. CASE EnqueueRetry(w)
        BY <1>0, <3>1, <3>2, <4>1 DEF EnqueueRetry, Jobs, Hand
      <4>2. CASE EnqueueAgainFails(w)
        BY <1>0, <3>1, <3>2, <4>2 DEF EnqueueAgainFails, Jobs, Hand
      <4> QED
        BY <2>6, <4>1, <4>2
    <3> QED
      BY <3>1, <3>3, Requeued
  <2>7. ASSUME NEW w \in Workers, Crash(w) PROVE job' \in Jobs
    BY <1>0, <2>7 DEF Crash, Jobs
  <2>8. ASSUME NEW s \in Sweepers, Requeue(s) \/ RequeueFails(s) PROVE job' \in Jobs
    <3>1. PICK c \in held[s] : Enqueue(c[1], c[2]) \/ UNCHANGED job
      BY <2>8 DEF Requeue, RequeueFails, EnqueueFails
    <3>2. c[1] \in Deliveries /\ c[2] \in Slots
      BY <1>0, <3>1
    <3> QED
      BY <1>0, <3>1, <3>2, Enqueued
  <2>9. ASSUME NEW d \in Deliveries, Evict(d) PROVE job' \in Jobs
    BY <1>0, <2>9 DEF Evict, Jobs
  <2>10. ASSUME NEW w \in Workers,
                \/ ReadDelivery(w) \/ MarkDelivered(w) \/ MarkRefused(w) \/ MarkDead(w)
                \/ DbError(w)
         PROVE  job' \in Jobs
    <3>1. ~At(w, "idle") /\ (EndJob(w) \/ UNCHANGED job)
      BY <2>10 DEF ReadDelivery, MarkDelivered, MarkRefused, MarkDead, DbError, At
    <3> QED
      BY <2>1, <2>4, <3>1
  <2> QED
    BY <2>1, <2>2, <2>3, <2>5, <2>6, <2>7, <2>8, <2>9, <2>10
    DEF Next, vars, queue, Dispatch, Attempt, SetStatus, Remove, ListTargets, CreateDelivery, Park,
        TargetRemoved, CallFails, ReadHook, Post, MarkRetryable, Claim, StopSweep, Age
<1>2. stalled' \subseteq Deliveries \X Slots
  <2>1. ASSUME NEW w \in Workers, Crash(w) PROVE stalled' \subseteq Deliveries \X Slots
    <3>1. work[w].d \in Deliveries /\ work[w].slot \in Slots
      BY <2>1 DEF TypeOK, WorkOK, Crash
    <3> QED
      BY <1>0, <2>1, <3>1 DEF Crash
  <2>2. ASSUME NEW d \in Deliveries, Evict(d) PROVE stalled' \subseteq Deliveries \X Slots
    BY <1>0, <2>2 DEF Evict
  <2> QED
    BY <1>0, <2>1, <2>2
    DEF Next, vars, queue, Dispatch, Attempt, SetStatus, Remove, ListTargets, CreateDelivery,
        EnqueueFirst, EnqueueFirstFails, Park, TargetRemoved, CallFails, Start, ReadDelivery,
        ReadHook, Post, MarkDelivered, MarkRefused, MarkDead, MarkRetryable, EnqueueRetry, DbError,
        EnqueueRetryFails, EnqueueAgainFails, Claim, Requeue, RequeueFails, StopSweep, Age
<1>3. held' \in [Sweepers -> SUBSET (Deliveries \X Slots)]
  <2>1. ASSUME NEW s \in Sweepers, Claim(s) PROVE held' \in [Sweepers -> SUBSET (Deliveries \X Slots)]
    <3> DEFINE stranded == {i \in DOMAIN created : Stranded(created[i])}
    <3>1. \A i \in stranded : created[i] \in Deliveries /\ row[created[i]].attempts \in Slots
      <4> SUFFICES ASSUME NEW i \in DOMAIN created, Stranded(created[i])
                   PROVE  created[i] \in Deliveries /\ row[created[i]].attempts \in Slots
        OBVIOUS
      <4>1. created[i] \in Deliveries
        BY DEF TypeOK, RowsOK
      <4> QED
        BY <4>1 DEF TypeOK, RowsOK, Stranded, Unsettled
    <3>2. Oldest(stranded) \subseteq stranded
      BY DEF Oldest
    <3>3. held' = [held EXCEPT ![s] =
                     {<<created[i], row[created[i]].attempts>> : i \in Oldest(stranded)}]
      BY <2>1 DEF Claim
    <3> HIDE DEF stranded
    <3> QED
      BY <1>0, <3>1, <3>2, <3>3
  <2>2. ASSUME NEW s \in Sweepers, Requeue(s) \/ RequeueFails(s) \/ StopSweep(s)
        PROVE  held' \in [Sweepers -> SUBSET (Deliveries \X Slots)]
    <3>1. \E c : held' = [held EXCEPT ![s] = c] /\ c \subseteq held[s]
      BY <2>2 DEF Requeue, RequeueFails, StopSweep
    <3> QED
      BY <1>0, <3>1
  <2> QED
    BY <1>0, <2>1, <2>2
    DEF Next, vars, queue, Dispatch, Attempt, SetStatus, Remove, ListTargets, CreateDelivery,
        EnqueueFirst, EnqueueFirstFails, Park, TargetRemoved, CallFails, Start, ReadDelivery,
        ReadHook, Post, MarkDelivered, MarkRefused, MarkDead, MarkRetryable, EnqueueRetry, DbError,
        EnqueueRetryFails, EnqueueAgainFails, Crash, Age, Evict
<1> QED
  BY <1>1, <1>2, <1>3 DEF QueueOK, Jobs

LEMMA TypesStep == TypeOK /\ [Next]_vars => TypeOK'
<1> SUFFICES ASSUME TypeOK, [Next]_vars PROVE TypeOK'
  OBVIOUS
<1>1. hook' \in [Hooks -> {"active", "disabled", "removed"}]
  <2>1. ASSUME NEW h \in Hooks, SetStatus(h) \/ Remove(h)
        PROVE  hook' \in [Hooks -> {"active", "disabled", "removed"}]
    BY <2>1 DEF SetStatus, Remove, TypeOK
  <2> QED
    BY <2>1 DEF TypeOK, Next, vars, Dispatch, Attempt, ListTargets, CreateDelivery,
       EnqueueFirst, EnqueueFirstFails, Park, TargetRemoved, CallFails, Start, ReadDelivery,
       ReadHook, Post, MarkDelivered, MarkRefused, MarkDead, MarkRetryable, EnqueueRetry, DbError,
       EnqueueRetryFails, EnqueueAgainFails, Crash, Claim, Requeue, RequeueFails, StopSweep, Age, Evict
<1>2. posts' \in [Deliveries -> Nat]
  <2>1. ASSUME NEW w \in Workers, Post(w) PROVE posts' \in [Deliveries -> Nat]
    <3>1. work[w].d \in Deliveries
      BY <2>1 DEF TypeOK, WorkOK, Post, At
    <3> QED
      BY <2>1, <3>1 DEF Post, TypeOK
  <2> QED
    BY <2>1 DEF TypeOK, Next, vars, Dispatch, Attempt, SetStatus, Remove, ListTargets, CreateDelivery,
       EnqueueFirst, EnqueueFirstFails, Park, TargetRemoved, CallFails, Start, ReadDelivery,
       ReadHook, MarkDelivered, MarkRefused, MarkDead, MarkRetryable, EnqueueRetry, DbError,
       EnqueueRetryFails, EnqueueAgainFails, Crash, Claim, Requeue, RequeueFails, StopSweep, Age, Evict
<1>3. faults' \in 0 .. MaxFaults
  <2>1. Fault \/ UNCHANGED faults
    BY DEF TypeOK, Next, vars, Dispatch, Attempt, SetStatus, Remove, ListTargets, CreateDelivery,
       EnqueueFirst, EnqueueFirstFails, EnqueueFails, Park, TargetRemoved, CallFails, Start, ReadDelivery,
       ReadHook, Post, MarkDelivered, MarkRefused, MarkDead, MarkRetryable, EnqueueRetry, DbError,
       EnqueueRetryFails, EnqueueAgainFails, Crash, Claim, Requeue, RequeueFails, StopSweep, Age, Evict
  <2> QED
    BY <2>1 DEF Fault, TypeOK
<1> QED
  BY <1>1, <1>2, <1>3, CallsStep, RowsStep, QueueStep, WorkStep DEF TypeOK

-----------------------------------------------------------------------------
(* Workers and their jobs. *)

(* A job that is not active gets nobody a worker; a worker's job stays active *)
(* until it lets go.                                                          *)
LEMMA OwnJobsKept ==
  ASSUME TypeOK, TypeOK', OwnJobs,
         \A w \in Workers : ~At(w, "idle")' =>
           /\ ~At(w, "idle") /\ work'[w].d = work[w].d /\ work'[w].slot = work[w].slot
           /\ job'[work[w].d][work[w].slot] = "active"
  PROVE  OwnJobs'
BY DEF OwnJobs, At

LEMMA LetGo ==
  ASSUME TypeOK, TypeOK', OwnJobs, NEW w \in Workers, ~At(w, "idle"),
         work' = [work EXCEPT ![w] = NoWork],
         \A x \in Deliveries, m \in Slots :
           job[x][m] = "active" /\ ~(x = work[w].d /\ m = work[w].slot) => job'[x][m] = "active"
  PROVE  OwnJobs'
<1>1. \A v \in Workers : ~At(v, "idle")' => v # w /\ ~At(v, "idle") /\ work'[v] = work[v]
  BY DEF TypeOK, WorkOK, At, NoWork
<1>2. \A v \in Workers : ~At(v, "idle") =>
        /\ work[v].d \in Deliveries /\ work[v].slot \in Slots
        /\ job[work[v].d][work[v].slot] = "active"
  BY DEF TypeOK, WorkOK, OwnJobs
<1>3. \A v \in Workers : v # w /\ ~At(v, "idle") => ~(work[v].d = work[w].d /\ work[v].slot = work[w].slot)
  BY DEF OwnJobs
<1> QED
  BY <1>1, <1>2, <1>3, OwnJobsKept

LEMMA OwnJobsStep == TypeOK /\ TypeOK' /\ OwnJobs /\ [Next]_vars => OwnJobs'
<1> SUFFICES ASSUME TypeOK, TypeOK', OwnJobs, [Next]_vars PROVE OwnJobs'
  OBVIOUS
<1>0. /\ job \in Jobs
      /\ \A w \in Workers : ~At(w, "idle") =>
           /\ work[w].d \in Deliveries /\ work[w].slot \in Slots
           /\ job[work[w].d][work[w].slot] = "active"
  BY DEF TypeOK, QueueOK, WorkOK, OwnJobs, Jobs
<1>1. ASSUME UNCHANGED work,
             \A x \in Deliveries, m \in Slots : job[x][m] = "active" => job'[x][m] = "active"
      PROVE  OwnJobs'
  BY <1>0, <1>1, OwnJobsKept DEF At
<1>2. ASSUME NEW w \in Workers, NEW pc, ~At(w, "idle"), Goto(w, pc),
             \A x \in Deliveries, m \in Slots : job[x][m] = "active" => job'[x][m] = "active"
      PROVE  OwnJobs'
  <2>1. \A v \in Workers : ~At(v, "idle")' =>
          /\ ~At(v, "idle") /\ work'[v].d = work[v].d /\ work'[v].slot = work[v].slot
    <3>1. work \in [Workers -> Item]
      BY DEF TypeOK, WorkOK, Item
    <3>2. \A v \in Workers : work'[v] = IF v = w THEN [work[w] EXCEPT !.pc = pc] ELSE work[v]
      BY <1>2, <3>1 DEF Goto
    <3>3. [work[w] EXCEPT !.pc = pc].d = work[w].d /\ [work[w] EXCEPT !.pc = pc].slot = work[w].slot
      BY <3>1 DEF Item
    <3> QED
      BY <1>2, <3>2, <3>3 DEF At
  <2> QED
    BY <1>0, <1>2, <2>1, OwnJobsKept
<1>3. ASSUME NEW w \in Workers, ~At(w, "idle"), EndJob(w) PROVE OwnJobs'
  <2>1. \A x \in Deliveries, m \in Slots :
          job[x][m] = "active" /\ ~(x = work[w].d /\ m = work[w].slot) => job'[x][m] = "active"
    BY <1>3, Ended
  <2>2. work' = [work EXCEPT ![w] = NoWork]
    BY <1>3 DEF EndJob
  <2> QED
    BY <1>3, <2>1, <2>2, LetGo
<1>4. ASSUME NEW d \in Deliveries, NEW n \in Slots, Enqueue(d, n) \/ UNCHANGED job,
             NEW x \in Deliveries, NEW m \in Slots, job[x][m] = "active"
      PROVE  job'[x][m] = "active"
  BY <1>0, <1>4, Enqueued
<1>5. ASSUME NEW e \in Events, EnqueueFirst(e) \/ EnqueueFirstFails(e) PROVE OwnJobs'
  <2>1. call[e].d \in Deliveries
    BY <1>5 DEF TypeOK, CallsOK, EnqueueFirst, EnqueueFirstFails, Deliveries
  <2>2. (Enqueue(call[e].d, 0) \/ UNCHANGED job) /\ UNCHANGED work
    BY <1>5 DEF EnqueueFirst, EnqueueFirstFails, EnqueueFails
  <2> QED
    BY <1>1, <1>4, <2>1, <2>2, SlotsType
<1>6. ASSUME NEW s \in Sweepers, Requeue(s) \/ RequeueFails(s) PROVE OwnJobs'
  <2>1. PICK c \in held[s] : Enqueue(c[1], c[2]) \/ UNCHANGED job
    BY <1>6 DEF Requeue, RequeueFails, EnqueueFails
  <2>2. c[1] \in Deliveries /\ c[2] \in Slots
    BY <2>1 DEF TypeOK, QueueOK
  <2>3. UNCHANGED work
    BY <1>6 DEF Requeue, RequeueFails
  <2> QED
    BY <1>1, <1>4, <2>1, <2>2, <2>3
<1>7. ASSUME NEW d \in Deliveries, Evict(d) PROVE OwnJobs'
  <2>1. \A x \in Deliveries, m \in Slots : job[x][m] = "active" => job'[x][m] = "active"
    BY <1>0, <1>7 DEF Evict, Jobs
  <2> QED
    BY <1>1, <1>7, <2>1 DEF Evict
<1>8. ASSUME NEW w \in Workers, Start(w) PROVE OwnJobs'
  <2>1. PICK d \in Deliveries, n \in Slots :
          /\ At(w, "idle") /\ job[d][n] = "queued"
          /\ job' = [job EXCEPT ![d][n] = "active"]
          /\ work' = [work EXCEPT ![w] = [pc |-> "read", d |-> d, slot |-> n, attempts |-> 0]]
    BY <1>8 DEF Start
  <2>2. \A x \in Deliveries, m \in Slots :
          job'[x][m] = IF x = d /\ m = n THEN "active" ELSE job[x][m]
    BY <1>0, <2>1 DEF Jobs
  <2>3. /\ work'[w].d = d /\ work'[w].slot = n
        /\ \A v \in Workers : v # w => work'[v] = work[v]
    BY <2>1 DEF TypeOK, WorkOK
  <2>4. \A v \in Workers : v # w /\ ~At(v, "idle") => ~(work[v].d = d /\ work[v].slot = n)
    BY <1>0, <2>1
  <2>5. \A v \in Workers : ~At(v, "idle")' => job'[work'[v].d][work'[v].slot] = "active"
    BY <1>0, <2>2, <2>3 DEF At
  <2> QED
    BY <2>3, <2>4, <2>5 DEF OwnJobs, At
<1>9. ASSUME NEW w \in Workers, ReadDelivery(w) PROVE OwnJobs'
  <2>1. CASE row[work[w].d].status \in Settled
    BY <1>3, <1>9, <2>1 DEF ReadDelivery, At
  <2>2. CASE row[work[w].d].status \notin Settled
    <3>1. \A v \in Workers : ~At(v, "idle")' =>
            /\ ~At(v, "idle") /\ work'[v].d = work[v].d /\ work'[v].slot = work[v].slot
      <4> DEFINE i == [work[w] EXCEPT !.pc = "hook", !.attempts = row[work[w].d].attempts]
      <4>1. work \in [Workers -> Item] /\ work[w].pc = "read"
        BY <1>9 DEF TypeOK, WorkOK, Item, ReadDelivery, At
      <4>2. \A v \in Workers : work'[v] = IF v = w THEN i ELSE work[v]
        BY <1>9, <2>2, <4>1 DEF ReadDelivery
      <4>3. i.d = work[w].d /\ i.slot = work[w].slot
        BY <4>1 DEF Item
      <4> HIDE DEF i
      <4> QED
        BY <4>1, <4>2, <4>3 DEF At
    <3> QED
      BY <1>0, <1>9, <2>2, <3>1, OwnJobsKept DEF ReadDelivery
  <2> QED
    BY <2>1, <2>2
<1>10. ASSUME NEW w \in Workers, ReadHook(w) \/ Post(w) \/ MarkRetryable(w) PROVE OwnJobs'
  <2>1. ~At(w, "idle") /\ UNCHANGED job /\ \E pc : Goto(w, pc)
    BY <1>10 DEF ReadHook, Post, MarkRetryable, At, queue
  <2> QED
    BY <1>2, <2>1
<1>11. ASSUME NEW w \in Workers, MarkDelivered(w) \/ MarkRefused(w) \/ MarkDead(w) PROVE OwnJobs'
  BY <1>3, <1>11 DEF MarkDelivered, MarkRefused, MarkDead, At
<1>12. ASSUME NEW w \in Workers, EnqueueRetry(w) \/ EnqueueAgainFails(w) PROVE OwnJobs'
  <2>1. ~At(w, "idle") /\ Spent(w) \in Slots
    BY <1>12 DEF TypeOK, WorkOK, EnqueueRetry, EnqueueAgainFails, At
  <2>2. job[work[w].d][Spent(w)] \in {"none", "queued", "active", "kept"}
    BY <1>0, <2>1 DEF Jobs
  <2>3. \E v \in {"none", "queued", "active", "kept"} :
          /\ Hand(w, v)
          /\ job[work[w].d][Spent(w)] = "active" => v = "active"
    <3>1. CASE EnqueueRetry(w)
      BY <1>0, <2>1, <2>2, <3>1 DEF EnqueueRetry, Jobs, Hand
    <3>2. CASE EnqueueAgainFails(w)
      BY <1>0, <2>1, <2>2, <3>2 DEF EnqueueAgainFails, Jobs, Hand
    <3> QED
      BY <1>12, <3>1, <3>2
  <2>4. PICK v \in {"none", "queued", "active", "kept"} :
          /\ Hand(w, v)
          /\ job[work[w].d][Spent(w)] = "active" => v = "active"
    BY <2>3
  <2>5. \A x \in Deliveries, m \in Slots :
          job'[x][m] = IF x = work[w].d /\ m = work[w].slot THEN "kept"
                       ELSE IF x = work[w].d /\ m = Spent(w) THEN v ELSE job[x][m]
    BY <2>1, <2>4, Requeued
  <2>6. ASSUME NEW x \in Deliveries, NEW m \in Slots, job[x][m] = "active",
               ~(x = work[w].d /\ m = work[w].slot)
        PROVE  job'[x][m] = "active"
    <3>1. job'[x][m] = IF x = work[w].d /\ m = Spent(w) THEN v ELSE job[x][m]
      BY <2>5, <2>6
    <3>2. x = work[w].d /\ m = Spent(w) => v = "active"
      BY <2>4, <2>6
    <3> QED
      BY <2>6, <3>1, <3>2
  <2>7. work' = [work EXCEPT ![w] = NoWork]
    BY <1>12 DEF EnqueueRetry, EnqueueAgainFails
  <2> QED
    BY <2>1, <2>6, <2>7, LetGo
<1>13. ASSUME NEW w \in Workers, DbError(w) PROVE OwnJobs'
  <2>1. ~At(w, "idle") /\ ((\E pc : Goto(w, pc) /\ UNCHANGED job) \/ EndJob(w))
    BY <1>13 DEF DbError, At
  <2> QED
    BY <1>2, <1>3, <2>1
<1>14. ASSUME NEW w \in Workers, EnqueueRetryFails(w) PROVE OwnJobs'
  <2>1. ~At(w, "idle") /\ work[w].d \in Deliveries /\ Spent(w) \in Slots
    BY <1>14 DEF TypeOK, WorkOK, EnqueueRetryFails, At
  <2>2. (Enqueue(work[w].d, Spent(w)) \/ UNCHANGED job) /\ Goto(w, "again")
    BY <1>14 DEF EnqueueRetryFails, EnqueueFails
  <2> QED
    BY <1>2, <1>4, <2>1, <2>2
<1>15. ASSUME NEW w \in Workers, Crash(w) PROVE OwnJobs'
  <2>1. \A x \in Deliveries, m \in Slots :
          job[x][m] = "active" /\ ~(x = work[w].d /\ m = work[w].slot) => job'[x][m] = "active"
    BY <1>0, <1>15 DEF Crash, Jobs
  <2> QED
    BY <1>15, <2>1, LetGo DEF Crash
<1> QED
  BY <1>1, <1>5, <1>6, <1>7, <1>8, <1>9, <1>10, <1>11, <1>12, <1>13, <1>14, <1>15
  DEF Next, vars, queue, Dispatch, Attempt, SetStatus, Remove, ListTargets, CreateDelivery, Park,
      TargetRemoved, CallFails, Claim, StopSweep, Age

-----------------------------------------------------------------------------
(* What a step may do to a delivery that leaves it as sound as it was.       *)
CallKeeps(d) == (Adding(d)' => Adding(d)) /\ (Parking(d)' => Parking(d))

HeldKeeps(d) ==
  \A n \in Slots : Holding(d, n)' => Holding(d, n) \/ (Unsettled(d) /\ n = row[d].attempts)

RowKeeps(d) ==
  /\ Unsettled(d)' => Unsettled(d) /\ row'[d].attempts = row[d].attempts
  /\ row[d].status = "none" => row'[d].status = "none"

JobKeeps(d) ==
  \A n \in Slots :
    /\ job'[d][n] = "queued" => job[d][n] \in {"queued", "none"}
    /\ job'[d][n] = "none" => job[d][n] = "none"
    /\ job[d][n] = "none" /\ job'[d][n] # "none" => Coming(d, n)

SameItem(w) ==
  /\ work'[w].d = work[w].d /\ work'[w].slot = work[w].slot
  /\ work'[w].attempts = work[w].attempts

WorkKeeps(d) ==
  \A w \in Workers : work'[w].d = d =>
    /\ Trying(w)' => Trying(w) /\ SameItem(w)
    /\ Sending(w)' => Sending(w)
    /\ Attempting(w, d)' => Attempting(w, d)
    /\ Enqueuing(w)' => Enqueuing(w) /\ SameItem(w)

CountKeeps(d) ==
  /\ posts'[d] = posts[d]
  /\ Fault \/ UNCHANGED faults
  /\ \/ Fault \/ ~Unsettled(d)'
     \/ \A w \in Workers : work[w].d = d /\ Sent(w) => work'[w].d = d /\ Sent(w)'

Keeps(d) ==
  CallKeeps(d) /\ HeldKeeps(d) /\ RowKeeps(d) /\ JobKeeps(d) /\ WorkKeeps(d) /\ CountKeeps(d)

LEMMA Unchanged ==
  ASSUME NEW d \in Deliveries
  PROVE  /\ UNCHANGED call => CallKeeps(d)
         /\ UNCHANGED held => HeldKeeps(d)
         /\ UNCHANGED row => RowKeeps(d)
         /\ UNCHANGED job => JobKeeps(d)
         /\ UNCHANGED work => WorkKeeps(d)
         /\ UNCHANGED <<posts, work>> /\ (Fault \/ UNCHANGED faults) => CountKeeps(d)
         /\ UNCHANGED <<row, work>> => (OwnAttempt(d) => OwnAttempt(d)')
<1>1. UNCHANGED call => CallKeeps(d)
  BY DEF CallKeeps, Adding, Parking
<1>2. UNCHANGED held => HeldKeeps(d)
  BY DEF HeldKeeps, Holding
<1>3. UNCHANGED row => RowKeeps(d)
  BY DEF RowKeeps, Unsettled
<1>4. UNCHANGED job => JobKeeps(d)
  BY DEF JobKeeps
<1>5. UNCHANGED work => WorkKeeps(d)
  BY DEF WorkKeeps, Trying, Sending, Attempting, Enqueuing, SameItem, At
<1>6. UNCHANGED <<posts, work>> /\ (Fault \/ UNCHANGED faults) => CountKeeps(d)
  BY DEF CountKeeps, Sent
<1>7. UNCHANGED <<row, work>> => (OwnAttempt(d) => OwnAttempt(d)')
  BY DEF OwnAttempt, Attempting
<1> QED
  BY <1>1, <1>2, <1>3, <1>4, <1>5, <1>6, <1>7

LEMMA ComingKept ==
  ASSUME NEW d \in Deliveries, CallKeeps(d), HeldKeeps(d), WorkKeeps(d),
         NEW n \in Slots, Coming(d, n)'
  PROVE  Coming(d, n) \/ (Unsettled(d) /\ n = row[d].attempts)
<1>1. ASSUME NEW w \in Workers, Enqueuing(w)', work'[w].d = d, n = Spent(w)' PROVE Coming(d, n)
  BY <1>1 DEF WorkKeeps, SameItem, Coming, Spent
<1> QED
  BY <1>1 DEF CallKeeps, HeldKeeps, Coming

(* A base stays a base, and nothing is spent. *)
LEMMA BaseKept ==
  ASSUME TypeOK, TypeOK', NEW d \in Deliveries, Keeps(d), NEW b \in Bases, Base(d, b)
  PROVE  Base(d, b)' /\ Spend(d, b)' <= Spend(d, b)
<1>0. CallKeeps(d) /\ HeldKeeps(d) /\ RowKeeps(d) /\ JobKeeps(d) /\ WorkKeeps(d) /\ CountKeeps(d)
  BY DEF Keeps
<1>1. Parking(d)' => b = 0
  BY <1>0 DEF CallKeeps, Base
<1>2. Unsettled(d)' => row'[d].attempts >= b
  BY <1>0 DEF RowKeeps, Base
<1>3. ASSUME NEW w \in Workers, Attempting(w, d)' \/ (Enqueuing(w)' /\ work'[w].d = d)
      PROVE  Spent(w)' >= b
  <2>1. CASE Attempting(w, d)'
    <3>1. Attempting(w, d) /\ SameItem(w)
      BY <1>0, <2>1 DEF WorkKeeps, Attempting, Trying
    <3> QED
      BY <3>1 DEF Base, SameItem, Spent
  <2>2. CASE Enqueuing(w)' /\ work'[w].d = d
    <3>1. Enqueuing(w) /\ SameItem(w)
      BY <1>0, <2>2 DEF WorkKeeps
    <3> QED
      BY <2>2, <3>1 DEF Base, SameItem, Spent
  <2> QED
    BY <1>3, <2>1, <2>2
<1>4. ASSUME NEW n \in Slots, Coming(d, n)' PROVE n >= b \/ job'[d][n] # "none"
  <2>1. Coming(d, n) \/ (Unsettled(d) /\ n = row[d].attempts)
    BY <1>0, <1>4, ComingKept
  <2>2. n >= b \/ job[d][n] # "none"
    BY <2>1 DEF Base
  <2> QED
    BY <1>0, <2>2 DEF JobKeeps
<1>5. Base(d, b)'
  BY <1>1, <1>2, <1>3, <1>4 DEF Base
<1>6. ASSUME NEW n \in Slots, n \in Unsent(d, b)' PROVE n \in Unsent(d, b)
  <2>1. CASE job'[d][n] = "none" /\ n >= b
    BY <1>0, <2>1 DEF JobKeeps, Unsent
  <2>2. CASE job'[d][n] = "queued"
    BY <1>0, <2>2 DEF JobKeeps, Unsent, Base
  <2>3. CASE \E w \in Workers : Sending(w)' /\ work'[w].d = d /\ work'[w].slot = n
    <3>1. PICK w \in Workers : Sending(w)' /\ work'[w].d = d /\ work'[w].slot = n
      BY <2>3
    <3>2. Trying(w)'
      BY <3>1 DEF Sending, Trying
    <3>3. Sending(w) /\ SameItem(w)
      BY <1>0, <3>1, <3>2 DEF WorkKeeps
    <3> QED
      BY <3>1, <3>3 DEF Unsent, SameItem
  <2> QED
    BY <1>6, <2>1, <2>2, <2>3 DEF Unsent
<1>7. Unsent(d, b)' \subseteq Unsent(d, b) /\ Unsent(d, b) \in SUBSET Slots
  BY <1>6 DEF Unsent
<1>8. Cardinality(Unsent(d, b)') <= Cardinality(Unsent(d, b))
  BY <1>7, Sizes
<1>9. posts'[d] = posts[d]
  BY <1>0 DEF CountKeeps
<1>10. Spend(d, b)' = posts'[d] + Cardinality(Unsent(d, b)') /\ Spend(d, b) = posts[d] + Cardinality(Unsent(d, b))
  BY DEF Spend
<1>11. posts[d] \in Nat /\ Cardinality(Unsent(d, b)) \in Nat /\ Cardinality(Unsent(d, b)') \in Nat
  BY <1>7, Sizes DEF TypeOK, Unsent
<1> QED
  BY <1>5, <1>8, <1>9, <1>10, <1>11

LEMMA BaseZero ==
  ASSUME TypeOK, TypeOK', NEW d \in Deliveries
  PROVE  0 \in Bases /\ Base(d, 0) /\ Base(d, 0)'
<1>1. row[d].attempts >= 0 /\ row'[d].attempts >= 0
  BY DEF TypeOK, RowsOK
<1>2. ASSUME NEW w \in Workers PROVE Spent(w) >= 0 /\ Spent(w)' >= 0
  <2>1. work[w].attempts \in Slots /\ work'[w].attempts \in Slots
    BY DEF TypeOK, WorkOK
  <2>2. work[w].attempts \in Nat /\ work'[w].attempts \in Nat
    BY <2>1, SlotsType
  <2> QED
    BY <2>2 DEF Spent
<1>3. \A n \in Slots : n >= 0
  BY SlotsType
<1>4. Base(d, 0)
  BY <1>1, <1>2, <1>3 DEF Base
<1>5. Base(d, 0)'
  BY <1>1, <1>2, <1>3 DEF Base
<1> QED
  BY <1>4, <1>5 DEF Bases

(* A step that spends no more than the fault it may be pays for. *)
LEMMA Carried ==
  ASSUME TypeOK, TypeOK', NEW d \in Deliveries, Adding(d)' => Adding(d), Fault \/ UNCHANGED faults,
         \A b \in Bases : Base(d, b) => Base(d, b)' /\ Spend(d, b)' + Paid <= Spend(d, b) + Paid'
  PROVE  /\ First(d) => First(d)'
         /\ Covered(d) => Covered(d)'
         /\ Raced(d) => Raced(d)'
<1>1. PICK p, q : p = Paid /\ q = Paid' /\ p \in Nat /\ q \in Nat
  BY Paying
<1>2. \A b : Spend(d, b) \in Nat /\ Spend(d, b)' \in Nat
  BY SpendType
<1>3. ASSUME NEW x \in Nat, NEW y \in Nat, NEW k \in Nat, x + p <= y + q, y + k <= p
      PROVE  x + k <= q
  <2>1. p \in Nat /\ q \in Nat
    BY <1>1
  <2> QED
    BY <1>3, <2>1
<1>4. \A b \in Bases : MaxAttempts - b \in Nat
  BY DEF Bases
<1>5. First(d) => First(d)'
  <2> SUFFICES ASSUME Adding(d), Spend(d, 0) <= Paid PROVE Spend(d, 0)' <= Paid'
    BY DEF First
  <2>1. Spend(d, 0)' + p <= Spend(d, 0) + q
    BY <1>1, BaseZero
  <2> QED
    BY <1>1, <1>2, <2>1
<1>6. Covered(d) => Covered(d)'
  <2> SUFFICES ASSUME NEW b \in Bases, Base(d, b), Spend(d, b) <= Paid PROVE Covered(d)'
    BY DEF Covered
  <2>1. Base(d, b)' /\ Spend(d, b)' + p <= Spend(d, b) + q
    BY <1>1
  <2>2. Spend(d, b)' <= q
    BY <1>1, <1>2, <2>1
  <2> QED
    BY <1>1, <2>1, <2>2 DEF Covered
<1>7. Raced(d) => Raced(d)'
  <2> SUFFICES ASSUME faults > 0, NEW b \in Bases, Base(d, b), Spend(d, b) + (MaxAttempts - b) <= Paid
               PROVE  Raced(d)'
    BY DEF Raced
  <2>1. Base(d, b)' /\ Spend(d, b)' + p <= Spend(d, b) + q
    BY <1>1
  <2>2. Spend(d, b)' + (MaxAttempts - b) <= q
    BY <1>1, <1>2, <1>3, <1>4, <2>1
  <2>3. faults' > 0
    BY DEF Fault, TypeOK
  <2> QED
    BY <1>1, <2>1, <2>2, <2>3 DEF Raced
<1> QED
  BY <1>5, <1>6, <1>7

LEMMA CurrentKept ==
  ASSUME TypeOK, NEW d \in Deliveries, Keeps(d), Current(d)
  PROVE  Current(d)'
<1> SUFFICES ASSUME Unsettled(d)'
             PROVE  /\ \A n \in Slots : job'[d][n] = "queued" => n = row'[d].attempts
                    /\ \A w \in Workers : Trying(w)' /\ work'[w].d = d =>
                         work'[w].slot = row'[d].attempts
                    /\ \A n \in Slots : Coming(d, n)' =>
                         /\ n <= row'[d].attempts
                         /\ n < row'[d].attempts => job'[d][n] # "none"
  BY DEF Current
<1>0. CallKeeps(d) /\ HeldKeeps(d) /\ RowKeeps(d) /\ JobKeeps(d) /\ WorkKeeps(d)
  BY DEF Keeps
<1>1. Unsettled(d) /\ row'[d].attempts = row[d].attempts
  BY <1>0 DEF RowKeeps
<1>2. row[d].attempts \in Slots
  BY <1>1 DEF TypeOK, RowsOK
<1>3. /\ \A n \in Slots : job[d][n] = "queued" => n = row[d].attempts
      /\ \A w \in Workers : Trying(w) /\ work[w].d = d => work[w].slot = row[d].attempts
      /\ \A n \in Slots : Coming(d, n) =>
           n <= row[d].attempts /\ (n < row[d].attempts => job[d][n] # "none")
  BY <1>1 DEF Current
<1>4. ASSUME NEW n \in Slots, job'[d][n] = "queued" PROVE n = row'[d].attempts
  <2>1. CASE job[d][n] = "queued"
    BY <1>1, <1>3, <2>1
  <2>2. CASE job[d][n] = "none" /\ Coming(d, n)
    <3>1. n <= row[d].attempts /\ ~(n < row[d].attempts)
      BY <1>3, <2>2
    <3>2. n \in Nat /\ row[d].attempts \in Nat
      BY <1>2, SlotsType
    <3> QED
      BY <1>1, <3>1, <3>2
  <2> QED
    BY <1>0, <1>4, <2>1, <2>2 DEF JobKeeps
<1>5. ASSUME NEW w \in Workers, Trying(w)', work'[w].d = d PROVE work'[w].slot = row'[d].attempts
  BY <1>0, <1>1, <1>3, <1>5 DEF WorkKeeps, SameItem
<1>6. ASSUME NEW n \in Slots, Coming(d, n)'
      PROVE  n <= row'[d].attempts /\ (n < row'[d].attempts => job'[d][n] # "none")
  <2>1. CASE Coming(d, n)
    <3>1. n <= row[d].attempts /\ (n < row[d].attempts => job[d][n] # "none")
      BY <1>3, <2>1
    <3>2. job[d][n] # "none" => job'[d][n] # "none"
      BY <1>0 DEF JobKeeps
    <3> QED
      BY <1>1, <3>1, <3>2
  <2>2. CASE Unsettled(d) /\ n = row[d].attempts
    BY <1>1, <1>2, <2>2, SlotsType
  <2> QED
    BY <1>0, <1>6, <2>1, <2>2, ComingKept
<1> QED
  BY <1>4, <1>5, <1>6

LEMMA CountedKept ==
  ASSUME TypeOK, NEW d \in Deliveries, Keeps(d), Counted(d)
  PROVE  Counted(d)'
<1> SUFFICES ASSUME Unsettled(d)'
             PROVE  posts'[d] + (MaxAttempts - row'[d].attempts) <=
                      Paid' + (IF \E w \in Workers : work'[w].d = d /\ Sent(w)' THEN 1 ELSE 0)
  BY DEF Counted
<1>1. /\ Unsettled(d) /\ row'[d].attempts = row[d].attempts /\ posts'[d] = posts[d]
      /\ Fault \/ UNCHANGED faults
      /\ \/ Fault
         \/ \A w \in Workers : work[w].d = d /\ Sent(w) => work'[w].d = d /\ Sent(w)'
  BY DEF Keeps, RowKeeps, CountKeeps
<1>2. PICK p, q : /\ p = Paid /\ q = Paid' /\ p \in Nat /\ q \in Nat
                  /\ (Fault => q >= p + 1) /\ (UNCHANGED faults => q = p)
  BY <1>1, Paying
<1>3. row[d].attempts \in 0 .. MaxAttempts /\ posts[d] \in Nat
  BY DEF TypeOK, RowsOK
<1>4. PICK k \in Nat : k = posts[d] + (MaxAttempts - row[d].attempts)
  BY <1>3
<1>5. k <= p + (IF \E w \in Workers : work[w].d = d /\ Sent(w) THEN 1 ELSE 0)
  BY <1>1, <1>2, <1>4 DEF Counted
<1>6. CASE Fault
  <2>1. k <= p + 1
    BY <1>2, <1>4, <1>5
  <2> QED
    BY <1>1, <1>2, <1>4, <1>6, <2>1
<1>7. CASE UNCHANGED faults /\ ~Fault
  <2>1. (\E w \in Workers : work[w].d = d /\ Sent(w)) => \E w \in Workers : work'[w].d = d /\ Sent(w)'
    BY <1>1, <1>7
  <2> QED
    BY <1>1, <1>2, <1>4, <1>5, <1>7, <2>1
<1> QED
  BY <1>1, <1>6, <1>7

LEMMA SoundStep ==
  ASSUME TypeOK, TypeOK', NEW d \in Deliveries, Sound(d),
         Adding(d)' => Adding(d), Parking(d)' => Parking(d), Fault \/ UNCHANGED faults,
         \A b \in Bases : Base(d, b) =>
           /\ Base(d, b)'
           /\ Spend(d, b)' <= Spend(d, b) \/ (Fault /\ Spend(d, b)' <= Spend(d, b) + 1),
         Clean(d) => OwnAttempt(d)' /\ Current(d)' /\ Counted(d)'
  PROVE  Sound(d)'
<1>1. PICK p, q : /\ p = Paid /\ q = Paid' /\ p \in Nat /\ q \in Nat /\ p <= q
                  /\ Fault => q >= p + 1
  BY Paying
<1>2. \A b \in Bases : Base(d, b) => Base(d, b)' /\ Spend(d, b)' + Paid <= Spend(d, b) + Paid'
  <2>1. ASSUME NEW b \in Bases, Base(d, b)
        PROVE  Base(d, b)' /\ Spend(d, b)' + Paid <= Spend(d, b) + Paid'
    <3>1. PICK m, n \in Nat : m = Spend(d, b) /\ n = Spend(d, b)'
      BY SpendType
    <3>2. Base(d, b)' /\ (n <= m \/ (Fault /\ n <= m + 1))
      BY <2>1, <3>1
    <3>3. n + p <= m + q
      BY <1>1, <3>1, <3>2
    <3> QED
      BY <1>1, <3>1, <3>2, <3>3
  <2> QED
    BY <2>1
<1>3. First(d)' /\ (Covered(d) => Covered(d)') /\ (Raced(d) => Raced(d)')
  BY <1>2, Carried DEF Sound
<1>4. Clean(d) => Clean(d)'
  BY <1>3 DEF Clean
<1> QED
  BY <1>3, <1>4 DEF Sound

LEMMA SoundKept ==
  ASSUME TypeOK, TypeOK', NEW d \in Deliveries, Keeps(d), Sound(d),
         Clean(d) => OwnAttempt(d)'
  PROVE  Sound(d)'
<1>1. (Adding(d)' => Adding(d)) /\ (Parking(d)' => Parking(d)) /\ (Fault \/ UNCHANGED faults)
  BY DEF Keeps, CallKeeps, CountKeeps
<1>2. Clean(d) => Current(d)' /\ Counted(d)'
  BY CurrentKept, CountedKept DEF Clean
<1> QED
  BY <1>1, <1>2, BaseKept, SoundStep

LEMMA OwnKept ==
  ASSUME NEW d \in Deliveries, WorkKeeps(d), OwnAttempt(d),
         \A w \in Workers : Attempting(w, d)' =>
           row'[d].status = row[d].status \/ row'[d].status \in {"pending", "failed", "none"}
  PROVE  OwnAttempt(d)'
<1>1. \A w \in Workers : Attempting(w, d)' => Attempting(w, d) /\ SameItem(w)
  BY DEF WorkKeeps, Attempting, Trying
<1>2. \A w \in Workers : Attempting(w, d)' =>
        /\ work'[w].attempts = work'[w].slot
        /\ row'[d].status \in {"pending", "failed", "none"}
  BY <1>1 DEF OwnAttempt, SameItem
<1>3. \A v, w \in Workers : Attempting(v, d)' /\ Attempting(w, d)' => v = w
  BY <1>1 DEF OwnAttempt
<1> QED
  BY <1>2, <1>3 DEF OwnAttempt

(* A worker lets go of its job. *)
LEMMA LastStep ==
  ASSUME TypeOK, NEW w \in Workers, ~At(w, "idle"), work' = [work EXCEPT ![w] = NoWork],
         NEW d \in Deliveries
  PROVE  /\ WorkKeeps(d)
         /\ \A v \in Workers : v # w => work'[v] = work[v]
         /\ row'[d] = row[d] \/ Attempting(w, d) => (OwnAttempt(d) => OwnAttempt(d)')
<1>1. \A v \in Workers : work'[v] = IF v = w THEN NoWork ELSE work[v]
  BY DEF TypeOK, WorkOK
<1>2. NoWork.pc = "idle"
  BY DEF NoWork
<1>3. \A v \in Workers : Trying(v)' \/ Sending(v)' \/ Enqueuing(v)' \/ Attempting(v, d)' =>
        v # w /\ work'[v] = work[v]
  <2> SUFFICES ASSUME NEW v \in Workers, work'[v].pc # "idle" PROVE v # w /\ work'[v] = work[v]
    BY DEF Trying, Sending, Enqueuing, Attempting, At
  <2> QED
    BY <1>1, <1>2
<1>4. WorkKeeps(d)
  BY <1>3 DEF WorkKeeps, Trying, Sending, Enqueuing, Attempting, SameItem, At
<1>5. ASSUME row'[d] = row[d] \/ Attempting(w, d), OwnAttempt(d) PROVE OwnAttempt(d)'
  <2>1. ASSUME NEW v \in Workers, Attempting(v, d)' PROVE row'[d] = row[d]
    <3>1. v # w /\ Attempting(v, d)
      BY <1>3, <2>1 DEF Attempting
    <3>2. ~Attempting(w, d)
      BY <1>5, <3>1 DEF OwnAttempt
    <3> QED
      BY <1>5, <3>2
  <2> QED
    BY <1>4, <1>5, <2>1, OwnKept
<1> QED
  BY <1>1, <1>4, <1>5

LEMMA EndedKeeps ==
  ASSUME TypeOK, OwnJobs, NEW w \in Workers, ~At(w, "idle"), EndJob(w), NEW d \in Deliveries
  PROVE  JobKeeps(d)
<1>1. \A x \in Deliveries, m \in Slots :
        job'[x][m] = IF x = work[w].d /\ m = work[w].slot THEN "kept" ELSE job[x][m]
  BY Ended
<1>2. job[work[w].d][work[w].slot] = "active"
  BY DEF OwnJobs
<1> QED
  BY <1>1, <1>2 DEF JobKeeps

(* Queueing what was about to be queued, or failing to. *)
LEMMA ComingEnqueued ==
  ASSUME TypeOK, NEW x \in Deliveries, NEW n \in Slots, Coming(x, n),
         Enqueue(x, n) \/ UNCHANGED job, NEW d \in Deliveries
  PROVE  JobKeeps(d)
<1>1. CASE Enqueue(x, n)
  <2>1. \A y \in Deliveries, m \in Slots :
          job'[y][m] = IF y = x /\ m = n /\ job[y][m] = "none" THEN "queued" ELSE job[y][m]
    BY <1>1, Enqueued DEF TypeOK, QueueOK, Jobs
  <2> QED
    BY <2>1 DEF JobKeeps
<1> QED
  BY <1>1, Unchanged

LEMMA KeepsRows ==
  ASSUME TypeOK, TypeOK', NEW d \in Deliveries,
         \/ \E h \in Hooks : SetStatus(h) \/ Remove(h)
         \/ \E x \in Deliveries : Age(x)
  PROVE  Keeps(d) /\ (Clean(d) => OwnAttempt(d)')
<1>1. /\ UNCHANGED <<call, work, held, job, posts, faults>>
      /\ \/ row'[d].status = row[d].status /\ row'[d].attempts = row[d].attempts
         \/ row'[d].status = "none"
  <2>1. ASSUME NEW h \in Hooks, SetStatus(h)
        PROVE  UNCHANGED <<call, work, held, job, posts, faults, row>>
    BY <2>1 DEF SetStatus, queue
  <2>2. ASSUME NEW h \in Hooks, Remove(h)
        PROVE  /\ UNCHANGED <<call, work, held, job, posts, faults>>
               /\ row'[d] = row[d] \/ row'[d].status = "none"
    BY <2>2 DEF Remove, NoRow, queue
  <2>3. ASSUME NEW x \in Deliveries, Age(x)
        PROVE  /\ UNCHANGED <<call, work, held, job, posts, faults>>
               /\ row'[d].status = row[d].status /\ row'[d].attempts = row[d].attempts
    BY <2>3 DEF Age, queue, TypeOK, RowsOK
  <2> QED
    BY <2>1, <2>2, <2>3
<1>2. RowKeeps(d)
  BY <1>1 DEF RowKeeps, Unsettled
<1>3. Keeps(d)
  BY <1>1, <1>2, Unchanged DEF Keeps
<1>4. Clean(d) => OwnAttempt(d)'
  BY <1>1, Unchanged, OwnKept DEF Clean
<1> QED
  BY <1>3, <1>4

LEMMA KeepsDispatch ==
  ASSUME TypeOK, TypeOK', NEW d \in Deliveries, NEW e \in Events,
         ListTargets(e) \/ EnqueueFirst(e) \/ TargetRemoved(e) \/ CallFails(e)
  PROVE  Keeps(d) /\ (Clean(d) => OwnAttempt(d)')
<1>1. \E todo \in SUBSET Hooks : Continue(e, todo)
  <2>1. CASE ListTargets(e)
    BY <2>1 DEF ListTargets
  <2>2. CASE EnqueueFirst(e)
    BY <2>2 DEF EnqueueFirst, TypeOK, CallsOK
  <2>3. CASE TargetRemoved(e) \/ CallFails(e)
    BY <2>3 DEF TargetRemoved, CallFails
  <2> QED
    BY <2>1, <2>2, <2>3
<1>2. CallKeeps(d)
  <2>1. PICK todo \in SUBSET Hooks : Continue(e, todo)
    BY <1>1
  <2>2. \A f \in Events : call'[f] = call[f] \/ call'[f].pc \in {"done", "insert"}
    BY <2>1 DEF Continue, TypeOK, CallsOK
  <2> QED
    BY <2>2 DEF CallKeeps, Adding, Parking
<1>3. JobKeeps(d)
  <2>1. CASE EnqueueFirst(e)
    <3>1. call[e].d \in Deliveries /\ Coming(call[e].d, 0)
      BY <2>1 DEF TypeOK, CallsOK, EnqueueFirst, Coming, Adding, Deliveries
    <3> QED
      BY <2>1, <3>1, ComingEnqueued, SlotsType DEF EnqueueFirst
  <2>2. CASE ListTargets(e) \/ TargetRemoved(e) \/ CallFails(e)
    BY <2>2, Unchanged DEF ListTargets, TargetRemoved, CallFails, queue
  <2> QED
    BY <2>1, <2>2
<1>4. UNCHANGED <<row, work, held, posts>> /\ (Fault \/ UNCHANGED faults)
  BY DEF ListTargets, EnqueueFirst, TargetRemoved, CallFails
<1>5. Keeps(d) /\ (OwnAttempt(d) => OwnAttempt(d)')
  BY <1>2, <1>3, <1>4, Unchanged DEF Keeps
<1> QED
  BY <1>5 DEF Clean

LEMMA KeepsSweep ==
  ASSUME TypeOK, TypeOK', NEW d \in Deliveries, NEW s \in Sweepers,
         Claim(s) \/ Requeue(s) \/ RequeueFails(s) \/ StopSweep(s)
  PROVE  Keeps(d) /\ (Clean(d) => OwnAttempt(d)')
<1>1. HeldKeeps(d)
  <2>1. CASE Claim(s)
    <3> DEFINE stranded == {i \in DOMAIN created : Stranded(created[i])}
    <3>1. \A i \in stranded : Unsettled(created[i])
      BY DEF Stranded, Unsettled
    <3>2. Oldest(stranded) \subseteq stranded
      BY DEF Oldest
    <3>3. held' = [held EXCEPT ![s] =
                     {<<created[i], row[created[i]].attempts>> : i \in Oldest(stranded)}]
      BY <2>1 DEF Claim
    <3> HIDE DEF stranded
    <3>4. \A t \in Sweepers : held'[t] =
            IF t = s THEN {<<created[i], row[created[i]].attempts>> : i \in Oldest(stranded)}
            ELSE held[t]
      BY <3>3 DEF TypeOK, QueueOK
    <3>5. ASSUME NEW t \in Sweepers, NEW n \in Slots, <<d, n>> \in held'[t]
          PROVE  <<d, n>> \in held[t] \/ (Unsettled(d) /\ n = row[d].attempts)
      <4>1. CASE t = s
        <5>0. <<d, n>> \in {<<created[i], row[created[i]].attempts>> : i \in Oldest(stranded)}
          BY <3>4, <3>5, <4>1
        <5>1. PICK i \in Oldest(stranded) : <<d, n>> = <<created[i], row[created[i]].attempts>>
          BY <5>0, Zenon
        <5> QED
          BY <3>1, <3>2, <5>1
      <4>2. CASE t # s
        BY <3>4, <3>5, <4>2
      <4> QED
        BY <4>1, <4>2
    <3> QED
      BY <3>5 DEF HeldKeeps, Holding
  <2>2. CASE Requeue(s) \/ RequeueFails(s) \/ StopSweep(s)
    <3>1. \A t \in Sweepers : held'[t] \subseteq held[t]
      BY <2>2 DEF Requeue, RequeueFails, StopSweep, TypeOK, QueueOK
    <3> QED
      BY <3>1 DEF HeldKeeps, Holding
  <2> QED
    BY <2>1, <2>2
<1>2. JobKeeps(d)
  <2>1. CASE Requeue(s) \/ RequeueFails(s)
    <3>1. PICK c \in held[s] : Enqueue(c[1], c[2]) \/ UNCHANGED job
      BY <2>1 DEF Requeue, RequeueFails, EnqueueFails
    <3>2. c[1] \in Deliveries /\ c[2] \in Slots /\ c = <<c[1], c[2]>>
      BY DEF TypeOK, QueueOK
    <3>3. Coming(c[1], c[2])
      BY <3>2 DEF Coming, Holding
    <3> QED
      BY <3>1, <3>2, <3>3, ComingEnqueued
  <2>2. CASE Claim(s) \/ StopSweep(s)
    BY <2>2, Unchanged DEF Claim, StopSweep, queue
  <2> QED
    BY <2>1, <2>2
<1>3. UNCHANGED <<call, row, work, posts>> /\ (Fault \/ UNCHANGED faults)
  BY DEF Claim, Requeue, RequeueFails, EnqueueFails, StopSweep
<1>4. Keeps(d) /\ (OwnAttempt(d) => OwnAttempt(d)')
  BY <1>1, <1>2, <1>3, Unchanged DEF Keeps
<1> QED
  BY <1>4 DEF Clean

LEMMA KeepsSettle ==
  ASSUME TypeOK, TypeOK', OwnJobs, NEW d \in Deliveries, NEW w \in Workers,
         \/ MarkDelivered(w) \/ MarkRefused(w) \/ MarkDead(w)
         \/ ReadDelivery(w) /\ row[work[w].d].status \in Settled
         \/ DbError(w) /\ EndJob(w)
  PROVE  Keeps(d) /\ (Clean(d) => OwnAttempt(d)')
<1>1. /\ ~At(w, "idle") /\ EndJob(w) /\ UNCHANGED <<call, held, posts>>
      /\ work' = [work EXCEPT ![w] = NoWork] /\ (Fault \/ UNCHANGED faults)
  BY DEF MarkDelivered, MarkRefused, MarkDead, ReadDelivery, DbError, At, EndJob
<1>2. /\ \/ row'[d] = row[d]
         \/ /\ Attempting(w, d) /\ row'[d].status \in {"delivered", "dead"}
            /\ row[d].status # "none"
      /\ \/ UNCHANGED row /\ (Fault \/ At(w, "read"))
         \/ work[w].d = d => ~Unsettled(d)'
  <2>1. CASE ReadDelivery(w) \/ DbError(w)
    BY <2>1 DEF ReadDelivery, DbError
  <2>2. ASSUME NEW r, r.status \in {"delivered", "dead"}, Attempting(w, work[w].d), Update(work[w].d, r)
        PROVE  /\ \/ row'[d] = row[d]
                  \/ /\ Attempting(w, d) /\ row'[d].status \in {"delivered", "dead"}
                     /\ row[d].status # "none"
               /\ work[w].d = d => ~Unsettled(d)'
    <3>1. CASE row[work[w].d].status = "none" /\ row' = row
      BY <3>1 DEF Unsettled
    <3>2. CASE row[work[w].d].status # "none" /\ row' = [row EXCEPT ![work[w].d] = r]
      <4>1. row'[d] = IF d = work[w].d THEN r ELSE row[d]
        BY <3>2 DEF TypeOK, RowsOK
      <4> QED
        BY <2>2, <3>2, <4>1 DEF Unsettled
    <3> QED
      BY <2>2, <3>1, <3>2 DEF Update
  <2>3. CASE MarkDelivered(w) \/ MarkRefused(w) \/ MarkDead(w)
    <3>1. work[w].d \in Deliveries /\ Attempting(w, work[w].d)
      BY <2>3 DEF MarkDelivered, MarkRefused, MarkDead, At, Attempting, TypeOK, WorkOK
    <3> DEFINE delivered == [row[work[w].d] EXCEPT !.status = "delivered"]
               refused == [row[work[w].d] EXCEPT !.status = "dead"]
               dead == [row[work[w].d] EXCEPT !.status = "dead", !.attempts = Spent(w)]
    <3>2. delivered.status = "delivered" /\ refused.status = "dead" /\ dead.status = "dead"
      BY <3>1 DEF TypeOK, RowsOK
    <3>3. Update(work[w].d, delivered) \/ Update(work[w].d, refused) \/ Update(work[w].d, dead)
      BY <2>3 DEF MarkDelivered, MarkRefused, MarkDead
    <3> HIDE DEF delivered, refused, dead
    <3> QED
      BY <2>2, <3>1, <3>2, <3>3
  <2> QED
    BY <2>1, <2>3
<1>3. WorkKeeps(d) /\ JobKeeps(d)
  BY <1>1, LastStep, EndedKeeps
<1>4. RowKeeps(d)
  BY <1>2 DEF RowKeeps, Unsettled
<1>5. CountKeeps(d)
  <2>1. ASSUME work[w].d = d => ~Unsettled(d)', NEW v \in Workers, work[v].d = d, Sent(v)
        PROVE  ~Unsettled(d)' \/ (work'[v].d = d /\ Sent(v)')
    <3>1. CASE v = w
      BY <2>1, <3>1
    <3>2. CASE v # w
      BY <1>1, <2>1, <3>2, LastStep DEF Sent
    <3> QED
      BY <3>1, <3>2
  <2>2. ASSUME At(w, "read"), NEW v \in Workers, work[v].d = d, Sent(v)
        PROVE  work'[v].d = d /\ Sent(v)'
    <3>1. v # w
      BY <2>2 DEF At, Sent
    <3> QED
      BY <1>1, <2>2, <3>1, LastStep DEF Sent
  <2> QED
    BY <1>1, <1>2, <2>1, <2>2 DEF CountKeeps
<1>6. Keeps(d)
  BY <1>1, <1>3, <1>4, <1>5, Unchanged DEF Keeps
<1>7. Clean(d) => OwnAttempt(d)'
  BY <1>1, <1>2, LastStep DEF Clean
<1> QED
  BY <1>6, <1>7

(* A worker goes on with its attempt. *)
LEMMA Gone ==
  ASSUME TypeOK, NEW w \in Workers, NEW pc, Goto(w, pc)
  PROVE  \A v \in Workers : /\ SameItem(v)
                            /\ work'[v].pc = IF v = w THEN pc ELSE work[v].pc
<1>1. work \in [Workers -> Item]
  BY DEF TypeOK, WorkOK, Item
<1>2. \A v \in Workers : work'[v] = IF v = w THEN [work[w] EXCEPT !.pc = pc] ELSE work[v]
  BY <1>1 DEF Goto
<1> QED
  BY <1>1, <1>2 DEF Item, SameItem

LEMMA KeepsMove ==
  ASSUME TypeOK, TypeOK', NEW d \in Deliveries, NEW w \in Workers,
         ReadHook(w) \/ (DbError(w) /\ ~EndJob(w))
  PROVE  Keeps(d) /\ (Clean(d) => OwnAttempt(d)')
<1>1. /\ UNCHANGED <<call, row, held, job, posts>> /\ (Fault \/ UNCHANGED faults)
      /\ \/ At(w, "hook") /\ Goto(w, "post")
         \/ At(w, "hook") /\ Goto(w, "refuse")
         \/ (At(w, "accepted") \/ At(w, "retry")) /\ Goto(w, "again")
  BY DEF ReadHook, DbError, queue
<1>2. \E pc : Goto(w, pc) /\ \/ At(w, "hook") /\ pc \in {"post", "refuse"}
                             \/ (At(w, "accepted") \/ At(w, "retry")) /\ pc = "again"
  BY <1>1
<1>3. PICK pc : Goto(w, pc) /\ \/ At(w, "hook") /\ pc \in {"post", "refuse"}
                               \/ (At(w, "accepted") \/ At(w, "retry")) /\ pc = "again"
  BY <1>2
<1>4. \A v \in Workers : /\ SameItem(v)
                         /\ work'[v].pc = IF v = w THEN pc ELSE work[v].pc
  BY <1>3, Gone
<1>5. WorkKeeps(d)
  BY <1>3, <1>4 DEF WorkKeeps, Trying, Sending, Attempting, Enqueuing, SameItem, At
<1>6. CountKeeps(d)
  BY <1>1, <1>3, <1>4 DEF CountKeeps, Sent, SameItem, At
<1>7. Keeps(d) /\ (OwnAttempt(d) => OwnAttempt(d)')
  BY <1>1, <1>5, <1>6, Unchanged, OwnKept DEF Keeps
<1> QED
  BY <1>7 DEF Clean

LEMMA KeepsHand ==
  ASSUME TypeOK, TypeOK', OwnJobs, NEW d \in Deliveries, NEW w \in Workers,
         EnqueueRetry(w) \/ EnqueueAgainFails(w)
  PROVE  Keeps(d) /\ (Clean(d) => OwnAttempt(d)')
<1> DEFINE x == work[w].d
<1>1. /\ ~At(w, "idle") /\ Enqueuing(w) /\ UNCHANGED <<call, row, held, posts>>
      /\ work' = [work EXCEPT ![w] = NoWork] /\ (Fault \/ UNCHANGED faults)
  BY DEF EnqueueRetry, EnqueueAgainFails, Enqueuing, At
<1>2. /\ x \in Deliveries /\ Spent(w) \in Slots /\ work[w].slot \in Slots
      /\ job[x][work[w].slot] = "active" /\ Coming(x, Spent(w))
  BY <1>1 DEF TypeOK, WorkOK, Enqueuing, At, OwnJobs, Coming
<1>3. \A m \in Slots :
        /\ job'[d][m] = "queued" => job[d][m] = "queued" \/ (d = x /\ m = Spent(w) /\ job[d][m] = "none")
        /\ job'[d][m] = "none" => job[d][m] = "none"
        /\ job[d][m] = "none" /\ job'[d][m] # "none" => d = x /\ m = Spent(w)
  <2>1. job \in Jobs
    BY DEF TypeOK, QueueOK, Jobs
  <2>2. \E landed \in BOOLEAN :
          Hand(w, IF landed /\ job[x][Spent(w)] = "none" THEN "queued" ELSE job[x][Spent(w)])
    <3>1. CASE EnqueueRetry(w)
      BY <1>2, <2>1, <3>1 DEF EnqueueRetry, Hand, Jobs
    <3>2. CASE EnqueueAgainFails(w)
      BY <1>2, <2>1, <3>2 DEF EnqueueAgainFails, Hand, Jobs
    <3> QED
      BY <3>1, <3>2
  <2>3. PICK landed \in BOOLEAN :
          Hand(w, IF landed /\ job[x][Spent(w)] = "none" THEN "queued" ELSE job[x][Spent(w)])
    BY <2>2
  <2>4. PICK v : v = IF landed /\ job[x][Spent(w)] = "none" THEN "queued" ELSE job[x][Spent(w)]
    OBVIOUS
  <2>5. v \in {"none", "queued", "active", "kept"}
    BY <1>2, <2>1, <2>4 DEF Jobs
  <2>6. \A y \in Deliveries, m \in Slots :
          job'[y][m] = IF y = x /\ m = work[w].slot THEN "kept"
                       ELSE IF y = x /\ m = Spent(w) THEN v ELSE job[y][m]
    BY <1>1, <1>2, <2>3, <2>4, <2>5, Requeued
  <2> QED
    BY <1>2, <2>4, <2>6
<1>4. JobKeeps(d)
  BY <1>2, <1>3 DEF JobKeeps
<1>5. CountKeeps(d)
  <2>1. \A v \in Workers : Sent(v) => v # w
    BY <1>1 DEF Sent, Enqueuing, At
  <2> QED
    BY <1>1, <2>1, LastStep DEF CountKeeps, Sent
<1>6. Keeps(d) /\ (OwnAttempt(d) => OwnAttempt(d)')
  BY <1>1, <1>4, <1>5, Unchanged, LastStep DEF Keeps
<1> QED
  BY <1>6 DEF Clean

(* A worker's step leaves the other deliveries alone. *)
LEMMA Elsewhere ==
  ASSUME NEW d \in Deliveries, NEW w \in Workers,
         work[w].d = d => At(w, "idle"), work'[w].d = d => At(w, "idle")',
         \A v \in Workers : v # w => work'[v] = work[v],
         UNCHANGED <<call, held>>, row'[d] = row[d], posts'[d] = posts[d],
         \A n \in Slots : job'[d][n] = job[d][n], Fault \/ UNCHANGED faults
  PROVE  Keeps(d) /\ (Clean(d) => OwnAttempt(d)')
<1>1. \A v \in Workers : /\ work'[v].d = d /\ ~At(v, "idle")' => work'[v] = work[v]
                         /\ work[v].d = d /\ ~At(v, "idle") => work'[v] = work[v]
  BY DEF At
<1>2. WorkKeeps(d)
  BY <1>1 DEF WorkKeeps, Trying, Sending, Attempting, Enqueuing, SameItem, At
<1>3. CountKeeps(d)
  BY <1>1 DEF CountKeeps, Sent, At
<1>4. RowKeeps(d) /\ JobKeeps(d)
  BY DEF RowKeeps, JobKeeps, Unsettled
<1>5. Keeps(d)
  BY <1>2, <1>3, <1>4, Unchanged DEF Keeps
<1> QED
  BY <1>2, <1>5, OwnKept DEF Clean

(* The steps that do not only keep a delivery as it is. *)
OwnStart(w, d) == Start(w) /\ work'[w].d = d

OwnWork(w, d) ==
  /\ work[w].d = d
  /\ \/ ReadDelivery(w) /\ row[d].status \notin Settled
     \/ Post(w) \/ MarkRetryable(w) \/ EnqueueRetryFails(w) \/ Crash(w)

OwnCall(e, d) ==
  \/ CreateDelivery(e) /\ call'[e].d = d
  \/ call[e].d = d /\ (EnqueueFirstFails(e) \/ Park(e))

LEMMA WorkerElsewhere ==
  ASSUME TypeOK, TypeOK', OwnJobs, NEW d \in Deliveries, NEW w \in Workers,
         \/ Start(w) \/ (ReadDelivery(w) /\ row[work[w].d].status \notin Settled)
         \/ Post(w) \/ MarkRetryable(w) \/ EnqueueRetryFails(w) \/ Crash(w),
         ~OwnStart(w, d), ~OwnWork(w, d)
  PROVE  Keeps(d) /\ (Clean(d) => OwnAttempt(d)')
<1>0. job \in Jobs /\ work \in [Workers -> Item]
  BY DEF TypeOK, QueueOK, WorkOK, Jobs, Item
<1>1. CASE Start(w)
  <2>1. PICK x \in Deliveries, n \in Slots :
          /\ At(w, "idle") /\ job' = [job EXCEPT ![x][n] = "active"]
          /\ work' = [work EXCEPT ![w] = [pc |-> "read", d |-> x, slot |-> n, attempts |-> 0]]
    BY <1>1 DEF Start
  <2>2. work'[w].d = x /\ \A v \in Workers : v # w => work'[v] = work[v]
    BY <1>0, <2>1
  <2>3. x # d
    BY <1>1, <2>2 DEF OwnStart
  <2>4. \A m \in Slots : job'[d][m] = job[d][m]
    BY <1>0, <2>1, <2>3 DEF Jobs
  <2>5. UNCHANGED <<call, held, row, posts, faults>>
    BY <1>1 DEF Start
  <2> QED
    BY <2>1, <2>2, <2>3, <2>4, <2>5, Elsewhere
<1>2. CASE \/ ReadDelivery(w) /\ row[work[w].d].status \notin Settled
           \/ Post(w) \/ MarkRetryable(w) \/ EnqueueRetryFails(w) \/ Crash(w)
  <2>1. work[w].d # d
    BY <1>2 DEF OwnWork
  <2>2. ~At(w, "idle") /\ work[w].d \in Deliveries /\ work[w].slot \in Slots
        /\ (EnqueueRetryFails(w) => Spent(w) \in Slots)
    BY <1>2 DEF ReadDelivery, Post, MarkRetryable, EnqueueRetryFails, Crash, At, TypeOK, WorkOK
  <2>3. UNCHANGED <<call, held>> /\ (Fault \/ UNCHANGED faults)
    BY <1>2 DEF ReadDelivery, Post, MarkRetryable, EnqueueRetryFails, EnqueueFails, Crash
  <2>4. row'[d] = row[d]
    <3>1. CASE MarkRetryable(w)
      BY <2>1, <3>1 DEF MarkRetryable, Update, TypeOK, RowsOK
    <3> QED
      BY <1>2, <3>1 DEF ReadDelivery, Post, EnqueueRetryFails, Crash
  <2>5. posts'[d] = posts[d]
    <3>1. CASE Post(w)
      BY <2>1, <3>1 DEF Post, TypeOK
    <3> QED
      BY <1>2, <3>1 DEF ReadDelivery, MarkRetryable, EnqueueRetryFails, Crash
  <2>6. \A n \in Slots : job'[d][n] = job[d][n]
    <3>1. CASE EnqueueRetryFails(w)
      <4>1. Enqueue(work[w].d, Spent(w)) \/ UNCHANGED job
        BY <3>1 DEF EnqueueRetryFails, EnqueueFails
      <4> QED
        BY <1>0, <2>1, <2>2, <3>1, <4>1, Enqueued
    <3>2. CASE Crash(w)
      BY <1>0, <2>1, <2>2, <3>2 DEF Crash, Jobs
    <3> QED
      BY <1>2, <3>1, <3>2 DEF ReadDelivery, Post, MarkRetryable, queue
  <2>7. /\ \A v \in Workers : v # w => work'[v] = work[v]
        /\ work'[w].d = d => At(w, "idle")'
    <3>1. CASE ReadDelivery(w) /\ row[work[w].d].status \notin Settled
      <4> DEFINE i == [work[w] EXCEPT !.pc = "hook", !.attempts = row[work[w].d].attempts]
      <4>1. work' = [work EXCEPT ![w] = i]
        BY <1>0, <3>1 DEF ReadDelivery
      <4>2. i.d = work[w].d
        BY <1>0 DEF Item
      <4> HIDE DEF i
      <4> QED
        BY <1>0, <2>1, <4>1, <4>2
    <3>2. CASE Crash(w)
      BY <1>0, <3>2 DEF Crash, At, NoWork
    <3>3. ASSUME NEW pc, Goto(w, pc)
          PROVE  (\A v \in Workers : v # w => work'[v] = work[v]) /\ work'[w].d = work[w].d
      <4>1. \A v \in Workers : v # w => work'[v] = work[v]
        BY <1>0, <3>3 DEF Goto
      <4> QED
        BY <3>3, <4>1, Gone DEF SameItem
    <3>4. CASE Post(w) \/ MarkRetryable(w) \/ EnqueueRetryFails(w)
      <4>1. \E pc : Goto(w, pc)
        BY <3>4 DEF Post, MarkRetryable, EnqueueRetryFails
      <4> QED
        BY <2>1, <3>3, <4>1
    <3> QED
      BY <1>2, <3>1, <3>2, <3>4
  <2> QED
    BY <2>1, <2>3, <2>4, <2>5, <2>6, <2>7, Elsewhere
<1> QED
  BY <1>1, <1>2

LEMMA CallElsewhere ==
  ASSUME TypeOK, TypeOK', NEW d \in Deliveries, NEW e \in Events,
         CreateDelivery(e) \/ EnqueueFirstFails(e) \/ Park(e), ~OwnCall(e, d)
  PROVE  Keeps(d) /\ (Clean(d) => OwnAttempt(d)')
<1>0. job \in Jobs /\ call \in [Events -> [pc : {"new", "insert", "add", "park", "done"},
                                          todo : SUBSET Hooks, d : Deliveries \cup {<<>>}]]
  BY DEF TypeOK, QueueOK, CallsOK, Jobs
<1>1. CASE CreateDelivery(e)
  <2>1. PICK h \in call[e].todo :
          /\ row' = [row EXCEPT ![<<e, h>>] = [status |-> "pending", attempts |-> 0, due |-> FALSE]]
          /\ call' = [call EXCEPT ![e] = [pc |-> "add", todo |-> call[e].todo \ {h}, d |-> <<e, h>>]]
    BY <1>1 DEF CreateDelivery
  <2>2. call'[e].d = <<e, h>> /\ \A f \in Events : f # e => call'[f] = call[f]
    BY <1>0, <2>1
  <2>3. d # <<e, h>>
    BY <1>1, <2>2 DEF OwnCall
  <2>4. row'[d] = row[d]
    BY <2>1, <2>3 DEF TypeOK, RowsOK
  <2>5. CallKeeps(d)
    BY <2>2, <2>3 DEF CallKeeps, Adding, Parking
  <2>6. UNCHANGED <<job, held, work, posts, faults>>
    BY <1>1 DEF CreateDelivery, queue
  <2>7. RowKeeps(d)
    BY <2>4 DEF RowKeeps, Unsettled
  <2>8. Keeps(d)
    BY <2>5, <2>6, <2>7, Unchanged DEF Keeps
  <2> QED
    BY <2>4, <2>6, <2>8, Unchanged, OwnKept DEF Clean
<1>2. CASE EnqueueFirstFails(e) \/ Park(e)
  <2>1. call[e].d \in Deliveries /\ call[e].d # d
    BY <1>2 DEF OwnCall, EnqueueFirstFails, Park, TypeOK, CallsOK, Deliveries
  <2>2. /\ UNCHANGED <<held, work, posts>> /\ (Fault \/ UNCHANGED faults)
        /\ \A f \in Events : f # e => call'[f] = call[f]
        /\ call'[e].d = call[e].d \/ call'[e].pc \in {"done", "insert"}
    BY <1>0, <1>2 DEF EnqueueFirstFails, EnqueueFails, Park, Continue
  <2>3. row'[d] = row[d]
    BY <1>2, <2>1 DEF EnqueueFirstFails, Park, Update, TypeOK, RowsOK
  <2>4. \A n \in Slots : job'[d][n] = job[d][n]
    BY <1>0, <1>2, <2>1, Enqueued, SlotsType DEF EnqueueFirstFails, EnqueueFails, Park, queue
  <2>5. CallKeeps(d)
    BY <2>1, <2>2 DEF CallKeeps, Adding, Parking
  <2>6. RowKeeps(d) /\ JobKeeps(d)
    BY <2>3, <2>4 DEF RowKeeps, JobKeeps, Unsettled
  <2>7. Keeps(d)
    BY <2>2, <2>5, <2>6, Unchanged DEF Keeps
  <2> QED
    BY <2>2, <2>3, <2>7, Unchanged, OwnKept DEF Clean
<1> QED
  BY <1>1, <1>2

(* Every step keeps a delivery, or is one of its own. *)
LEMMA Steps ==
  ASSUME TypeOK, TypeOK', OwnJobs, [Next]_vars, NEW d \in Deliveries
  PROVE  \/ Keeps(d) /\ (Clean(d) => OwnAttempt(d)')
         \/ \E w \in Workers : OwnStart(w, d) \/ OwnWork(w, d)
         \/ \E e \in Events : OwnCall(e, d)
         \/ Evict(d)
<1>1. CASE UNCHANGED vars
  <2>1. UNCHANGED <<call, held, row, job, work, posts, faults>>
    BY <1>1 DEF vars, queue
  <2> QED
    BY <2>1, Unchanged DEF Keeps, Clean
<1>2. ASSUME NEW x \in Deliveries, x # d, Evict(x) PROVE Keeps(d) /\ (Clean(d) => OwnAttempt(d)')
  <2>1. UNCHANGED <<call, held, row, work, posts, faults>>
    BY <1>2 DEF Evict
  <2>2. \A n \in Slots : job'[d][n] = job[d][n]
    BY <1>2 DEF Evict, TypeOK, QueueOK
  <2>3. JobKeeps(d)
    BY <2>2 DEF JobKeeps
  <2> QED
    BY <2>1, <2>3, Unchanged DEF Keeps, Clean
<1>3. ASSUME NEW w \in Workers,
             \/ Attempt(w) \/ DbError(w) \/ EnqueueRetryFails(w) \/ EnqueueAgainFails(w) \/ Crash(w)
      PROVE  \/ Keeps(d) /\ (Clean(d) => OwnAttempt(d)')
             \/ OwnStart(w, d) \/ OwnWork(w, d)
  <2>1. CASE \/ Start(w) \/ (ReadDelivery(w) /\ row[work[w].d].status \notin Settled)
             \/ Post(w) \/ MarkRetryable(w) \/ EnqueueRetryFails(w) \/ Crash(w)
    BY <2>1, WorkerElsewhere
  <2>2. CASE \/ MarkDelivered(w) \/ MarkRefused(w) \/ MarkDead(w)
             \/ ReadDelivery(w) /\ row[work[w].d].status \in Settled
             \/ DbError(w) /\ EndJob(w)
    BY <2>2, KeepsSettle
  <2>3. CASE ReadHook(w) \/ (DbError(w) /\ ~EndJob(w))
    BY <2>3, KeepsMove
  <2>4. CASE EnqueueRetry(w) \/ EnqueueAgainFails(w)
    BY <2>4, KeepsHand
  <2> QED
    BY <1>3, <2>1, <2>2, <2>3, <2>4 DEF Attempt
<1>4. ASSUME NEW e \in Events, Dispatch(e) \/ EnqueueFirstFails(e) \/ CallFails(e)
      PROVE  (Keeps(d) /\ (Clean(d) => OwnAttempt(d)')) \/ OwnCall(e, d)
  BY <1>4, KeepsDispatch, CallElsewhere DEF Dispatch
<1> QED
  BY <1>1, <1>2, <1>3, <1>4, KeepsRows, KeepsSweep DEF Next

LEMMA BaseMoved ==
  ASSUME NEW d \in Deliveries, NEW b \in Bases, Base(d, b), UNCHANGED <<call, held>>,
         Unsettled(d)' => row'[d].attempts >= b,
         \A v \in Workers : Attempting(v, d)' \/ (Enqueuing(v)' /\ work'[v].d = d) => Spent(v)' >= b,
         \A n \in Slots : job[d][n] # "none" => job'[d][n] # "none"
  PROVE  Base(d, b)'
<1>1. Parking(d)' => b = 0
  BY DEF Base, Parking
<1>2. ASSUME NEW n \in Slots, Coming(d, n)' PROVE n >= b \/ job'[d][n] # "none"
  <2>1. CASE Adding(d)' /\ n = 0
    <3>1. Coming(d, n)
      BY <2>1 DEF Adding, Coming
    <3> QED
      BY <3>1 DEF Base
  <2>2. CASE Holding(d, n)'
    <3>1. Coming(d, n)
      BY <2>2 DEF Holding, Coming
    <3> QED
      BY <3>1 DEF Base
  <2>3. CASE \E v \in Workers : Enqueuing(v)' /\ work'[v].d = d /\ n = Spent(v)'
    BY <2>3
  <2> QED
    BY <1>2, <2>1, <2>2, <2>3 DEF Coming
<1> QED
  BY <1>1, <1>2 DEF Base

LEMMA SpendMoved ==
  ASSUME TypeOK, TypeOK', NEW d \in Deliveries, NEW b \in Bases, posts'[d] = posts[d]
  PROVE  /\ Unsent(d, b)' \subseteq Unsent(d, b) => Spend(d, b)' <= Spend(d, b)
         /\ \A n : Unsent(d, b)' \subseteq Unsent(d, b) \cup {n} => Spend(d, b)' <= Spend(d, b) + 1
<1>1. PICK S, R : S = Unsent(d, b) /\ R = Unsent(d, b)'
  OBVIOUS
<1>2. S \in SUBSET Slots /\ R \in SUBSET Slots /\ posts[d] \in Nat
  BY <1>1, SpendType
<1>3. PICK s, r \in Nat : s = Cardinality(S) /\ r = Cardinality(R)
  BY <1>2, Sizes
<1>4. Spend(d, b) = posts[d] + s /\ Spend(d, b)' = posts[d] + r
  BY <1>1, <1>3 DEF Spend
<1>5. R \subseteq S => r <= s
  BY <1>2, <1>3, Sizes
<1>6. \A n : R \subseteq S \cup {n} => r <= s + 1
  BY <1>2, <1>3, Sizes
<1> QED
  BY <1>1, <1>2, <1>3, <1>4, <1>5, <1>6

LEMMA SoundStart ==
  ASSUME TypeOK, TypeOK', OwnJobs, NEW d \in Deliveries, Sound(d), NEW w \in Workers, OwnStart(w, d)
  PROVE  Sound(d)'
<1>0. job \in Jobs /\ work \in [Workers -> Item]
  BY DEF TypeOK, QueueOK, WorkOK, Jobs, Item
<1>1. PICK x \in Deliveries, n \in Slots :
        /\ At(w, "idle") /\ job[x][n] = "queued" /\ job' = [job EXCEPT ![x][n] = "active"]
        /\ work' = [work EXCEPT ![w] = [pc |-> "read", d |-> x, slot |-> n, attempts |-> 0]]
  BY DEF OwnStart, Start
<1>2. /\ work'[w] = [pc |-> "read", d |-> d, slot |-> n, attempts |-> 0] /\ x = d
      /\ \A v \in Workers : v # w => work'[v] = work[v]
  BY <1>0, <1>1 DEF OwnStart
<1>3. \A m \in Slots : job'[d][m] = IF m = n THEN "active" ELSE job[d][m]
  BY <1>0, <1>1, <1>2 DEF Jobs
<1>4. UNCHANGED <<call, held, row, posts, faults>>
  BY DEF OwnStart, Start
<1>5. \A v \in Workers : Attempting(v, d)' \/ Enqueuing(v)' \/ Sent(v)' => v # w /\ work'[v] = work[v]
  <2> SUFFICES ASSUME NEW v \in Workers, work'[v].pc # "read" PROVE v # w /\ work'[v] = work[v]
    BY DEF Attempting, Enqueuing, Sent, At
  <2>1. work'[w].pc = "read"
    BY <1>2
  <2> QED
    BY <1>2, <2>1
<1>6. ASSUME NEW b \in Bases, Base(d, b) PROVE Base(d, b)' /\ Spend(d, b)' <= Spend(d, b)
  <2>1. \A v \in Workers : Attempting(v, d)' \/ (Enqueuing(v)' /\ work'[v].d = d) => Spent(v)' >= b
    BY <1>5, <1>6 DEF Base, Attempting, Enqueuing, At, Spent
  <2>2. Unsettled(d)' => row'[d].attempts >= b
    BY <1>4, <1>6 DEF Base, Unsettled
  <2>3. Base(d, b)'
    BY <1>3, <1>4, <1>6, <2>1, <2>2, BaseMoved
  <2>4. ASSUME NEW m \in Unsent(d, b)' PROVE m \in Unsent(d, b)
    <3>1. m \in Slots
      BY DEF Unsent
    <3>2. CASE \E v \in Workers : Sending(v)' /\ work'[v].d = d /\ work'[v].slot = m
      <4>1. PICK v \in Workers : Sending(v)' /\ work'[v].d = d /\ work'[v].slot = m
        BY <3>2
      <4>2. CASE v = w
        BY <1>1, <1>2, <3>1, <4>1, <4>2 DEF Unsent
      <4>3. CASE v # w
        BY <1>2, <3>1, <4>1, <4>3 DEF Unsent, Sending
      <4> QED
        BY <4>2, <4>3
    <3> QED
      BY <1>3, <2>4, <3>1, <3>2 DEF Unsent
  <2> QED
    BY <1>4, <2>3, <2>4, SpendMoved
<1>7. ASSUME Clean(d) PROVE OwnAttempt(d)' /\ Current(d)' /\ Counted(d)'
  <2>1. OwnAttempt(d)'
    BY <1>4, <1>5, <1>7 DEF Clean, OwnAttempt, Attempting
  <2>2. Counted(d)'
    <3>1. (\E v \in Workers : work[v].d = d /\ Sent(v)) <=> \E v \in Workers : work'[v].d = d /\ Sent(v)'
      BY <1>1, <1>2, <1>5 DEF Sent, At
    <3>2. Paid' = Paid
      BY <1>4 DEF Paid
    <3> QED
      BY <1>4, <1>7, <3>1, <3>2 DEF Clean, Counted, Unsettled
  <2>3. Current(d)'
    <3> SUFFICES ASSUME Unsettled(d)
                 PROVE  /\ \A m \in Slots : job'[d][m] = "queued" => m = row[d].attempts
                        /\ \A v \in Workers : Trying(v)' /\ work'[v].d = d =>
                             work'[v].slot = row[d].attempts
                        /\ \A m \in Slots : Coming(d, m)' =>
                             m <= row[d].attempts /\ (m < row[d].attempts => job'[d][m] # "none")
      BY <1>4 DEF Current, Unsettled
    <3>1. /\ \A m \in Slots : job[d][m] = "queued" => m = row[d].attempts
          /\ \A v \in Workers : Trying(v) /\ work[v].d = d => work[v].slot = row[d].attempts
          /\ \A m \in Slots : Coming(d, m) =>
               m <= row[d].attempts /\ (m < row[d].attempts => job[d][m] # "none")
      BY <1>7 DEF Clean, Current
    <3>2. \A m \in Slots : job'[d][m] = "queued" => m = row[d].attempts
      BY <1>3, <3>1
    <3>3. ASSUME NEW v \in Workers, Trying(v)', work'[v].d = d PROVE work'[v].slot = row[d].attempts
      BY <1>1, <1>2, <3>1, <3>3 DEF Trying
    <3>4. \A m \in Slots : Coming(d, m)' => Coming(d, m)
      BY <1>4, <1>5 DEF Coming, Adding, Holding, Enqueuing, Spent, At
    <3> QED
      BY <1>3, <3>1, <3>2, <3>3, <3>4
  <2> QED
    BY <2>1, <2>2, <2>3
<1>8. (Adding(d)' => Adding(d)) /\ (Parking(d)' => Parking(d))
  BY <1>4 DEF Adding, Parking
<1> QED
  BY <1>4, <1>6, <1>7, <1>8, SoundStep

LEMMA SoundRead ==
  ASSUME TypeOK, TypeOK', OwnJobs, NEW d \in Deliveries, Sound(d), NEW w \in Workers,
         work[w].d = d, ReadDelivery(w), row[d].status \notin Settled
  PROVE  Sound(d)'
<1>0. work \in [Workers -> Item]
  BY DEF TypeOK, WorkOK, Item
<1>1. /\ UNCHANGED <<call, held, row, job, posts, faults>> /\ At(w, "read")
      /\ work' = [work EXCEPT ![w].pc = "hook", ![w].attempts = row[d].attempts]
  BY DEF ReadDelivery
<1>2. Unsettled(d) /\ row[d].attempts \in Nat
  BY DEF TypeOK, RowsOK, Settled, Unsettled
<1>3. /\ work'[w].pc = "hook" /\ work'[w].d = d /\ work'[w].slot = work[w].slot
      /\ work'[w].attempts = row[d].attempts
      /\ \A v \in Workers : v # w => work'[v] = work[v]
  <2> DEFINE i == [work[w] EXCEPT !.pc = "hook", !.attempts = row[d].attempts]
  <2>1. \A v \in Workers : work'[v] = IF v = w THEN i ELSE work[v]
    BY <1>0, <1>1
  <2>2. i.d = work[w].d /\ i.slot = work[w].slot /\ i.pc = "hook" /\ i.attempts = row[d].attempts
    BY <1>0 DEF Item
  <2> HIDE DEF i
  <2> QED
    BY <2>1, <2>2
<1>4. /\ \A v \in Workers : Enqueuing(v)' \/ Sent(v)' => v # w
      /\ \A v \in Workers : Enqueuing(v) \/ Sent(v) => v # w
      /\ Trying(w) /\ Sending(w) /\ ~At(w, "idle")
  BY <1>1, <1>3 DEF Enqueuing, Sent, Trying, Sending, At
<1>5. ASSUME NEW b \in Bases, Base(d, b) PROVE Base(d, b)' /\ Spend(d, b)' <= Spend(d, b)
  <2>1. ASSUME NEW v \in Workers, Attempting(v, d)' \/ (Enqueuing(v)' /\ work'[v].d = d)
        PROVE  Spent(v)' >= b
    <3>1. CASE v = w
      <4>1. row[d].attempts >= b /\ b \in Nat
        BY <1>2, <1>5 DEF Base, Bases
      <4> QED
        BY <1>2, <1>3, <3>1, <4>1 DEF Spent
    <3>2. CASE v # w
      BY <1>3, <1>5, <2>1, <3>2 DEF Base, Attempting, Enqueuing, At, Spent
    <3> QED
      BY <3>1, <3>2
  <2>2. Base(d, b)'
    BY <1>1, <1>5, <2>1, BaseMoved DEF Base, Unsettled
  <2>3. ASSUME NEW m \in Unsent(d, b)' PROVE m \in Unsent(d, b)
    <3>1. \A v \in Workers : Sending(v)' => Sending(v) /\ work'[v].d = work[v].d /\ work'[v].slot = work[v].slot
      BY <1>3, <1>4 DEF Sending
    <3> QED
      BY <1>1, <2>3, <3>1 DEF Unsent
  <2> QED
    BY <1>1, <2>2, <2>3, SpendMoved
<1>6. ASSUME Clean(d) PROVE OwnAttempt(d)' /\ Current(d)' /\ Counted(d)'
  <2>1. /\ \A m \in Slots : job[d][m] = "queued" => m = row[d].attempts
        /\ \A v \in Workers : Trying(v) /\ work[v].d = d => work[v].slot = row[d].attempts
        /\ \A m \in Slots : Coming(d, m) =>
             m <= row[d].attempts /\ (m < row[d].attempts => job[d][m] # "none")
    BY <1>2, <1>6 DEF Clean, Current
  <2>2. work[w].slot = row[d].attempts
    BY <1>4, <2>1
  <2>3. ASSUME NEW v \in Workers, Attempting(v, d)', v # w PROVE FALSE
    <3>1. Attempting(v, d) /\ Trying(v) /\ work[v].d = d /\ ~At(v, "idle")
      BY <1>3, <2>3 DEF Attempting, Trying, At
    <3> QED
      BY <1>4, <2>1, <2>2, <2>3, <3>1 DEF OwnJobs
  <2>4. OwnAttempt(d)'
    <3>1. row'[d].status \in {"pending", "failed", "none"}
      BY <1>1, <1>2 DEF Unsettled
    <3> QED
      BY <1>3, <2>2, <2>3, <3>1 DEF OwnAttempt
  <2>5. Counted(d)'
    <3>1. (\E v \in Workers : work[v].d = d /\ Sent(v)) <=> \E v \in Workers : work'[v].d = d /\ Sent(v)'
      BY <1>3, <1>4 DEF Sent
    <3>2. Paid' = Paid
      BY <1>1 DEF Paid
    <3> QED
      BY <1>1, <1>6, <3>1, <3>2 DEF Clean, Counted, Unsettled
  <2>6. \A m \in Slots : Coming(d, m)' => Coming(d, m)
    BY <1>1, <1>3, <1>4 DEF Coming, Adding, Holding, Enqueuing, Spent, At
  <2>7. \A v \in Workers : Trying(v)' /\ work'[v].d = d => work'[v].slot = row[d].attempts
    BY <1>3, <2>1, <2>2 DEF Trying
  <2>8. Current(d)'
    BY <1>1, <2>1, <2>6, <2>7 DEF Current
  <2> QED
    BY <2>4, <2>5, <2>8
<1>7. (Adding(d)' => Adding(d)) /\ (Parking(d)' => Parking(d))
  BY <1>1 DEF Adding, Parking
<1> QED
  BY <1>1, <1>5, <1>6, <1>7, SoundStep

LEMMA SoundPost ==
  ASSUME TypeOK, TypeOK', OwnJobs, NEW d \in Deliveries, Sound(d), NEW w \in Workers,
         work[w].d = d, Post(w)
  PROVE  Sound(d)'
<1>1. /\ UNCHANGED <<call, held, row, job, faults>> /\ At(w, "post")
      /\ posts' = [posts EXCEPT ![d] = @ + 1] /\ \E pc \in {"accepted", "retry", "again"} : Goto(w, pc)
  BY DEF Post, queue
<1>2. PICK pc \in {"accepted", "retry", "again"} : Goto(w, pc)
  BY <1>1
<1>3. \A v \in Workers : SameItem(v) /\ work'[v].pc = IF v = w THEN pc ELSE work[v].pc
  BY <1>2, Gone
<1>4. posts[d] \in Nat /\ posts'[d] = posts[d] + 1
  BY <1>1 DEF TypeOK
<1>5. /\ Trying(w) /\ Sending(w) /\ ~At(w, "idle") /\ Attempting(w, d) /\ ~Sending(w)'
      /\ \A v \in Workers : Enqueuing(v)' => Enqueuing(v)
      /\ \A v \in Workers : Attempting(v, d)' => Attempting(v, d)
      /\ \A v \in Workers : Trying(v)' => Trying(v)
      /\ \A v \in Workers : Sending(v)' => Sending(v) /\ v # w
  BY <1>1, <1>2, <1>3 DEF Trying, Sending, Attempting, Enqueuing, At, SameItem
<1>6. ASSUME NEW b \in Bases, Base(d, b) PROVE Base(d, b)' /\ Spend(d, b)' <= Spend(d, b)
  <2>1. Base(d, b)'
    <3>1. \A v \in Workers : Attempting(v, d)' \/ (Enqueuing(v)' /\ work'[v].d = d) => Spent(v)' >= b
      BY <1>3, <1>5, <1>6 DEF Base, SameItem, Spent
    <3> QED
      BY <1>1, <1>6, <3>1, BaseMoved DEF Base, Unsettled
  <2>2. PICK S, R, n : S = Unsent(d, b) /\ R = Unsent(d, b)' /\ n = work[w].slot
    OBVIOUS
  <2>3. n \in S
    BY <1>5, <2>2 DEF Unsent, TypeOK, WorkOK
  <2>4. ASSUME NEW m \in R PROVE m \in S /\ m # n
    <3>1. m \in Slots
      BY <2>2, <2>4 DEF Unsent
    <3>2. job[d][n] = "active"
      BY <1>5, <2>2 DEF OwnJobs
    <3>3. CASE (job[d][m] = "none" /\ m >= b) \/ job[d][m] = "queued"
      BY <2>2, <3>1, <3>2, <3>3 DEF Unsent
    <3>4. CASE \E v \in Workers : Sending(v)' /\ work'[v].d = d /\ work'[v].slot = m
      <4>1. PICK v \in Workers : v # w /\ Sending(v) /\ work[v].d = d /\ work[v].slot = m
        BY <1>3, <1>5, <3>4 DEF SameItem
      <4>2. ~At(v, "idle")
        BY <4>1 DEF Sending, At
      <4>3. m # n
        BY <1>5, <2>2, <4>1, <4>2 DEF OwnJobs
      <4> QED
        BY <2>2, <3>1, <4>1, <4>3 DEF Unsent
    <3> QED
      BY <1>1, <2>2, <2>4, <3>3, <3>4 DEF Unsent
  <2>5. S \in SUBSET Slots /\ R \in SUBSET (S \ {n})
    BY <2>2, <2>4, SpendType
  <2>6. R \in SUBSET Slots
    BY <2>5
  <2>7. PICK s, r \in Nat : s = Cardinality(S) /\ r = Cardinality(R)
    BY <2>5, <2>6, Sizes
  <2>8. r + 1 <= s
    BY <2>3, <2>5, <2>7, Sizes
  <2>9. Spend(d, b) = posts[d] + s /\ Spend(d, b)' = posts[d] + 1 + r
    BY <1>4, <2>2, <2>7 DEF Spend
  <2> QED
    BY <1>4, <2>1, <2>7, <2>8, <2>9
<1>7. ASSUME Clean(d) PROVE OwnAttempt(d)' /\ Current(d)' /\ Counted(d)'
  <2>1. OwnAttempt(d)'
    BY <1>1, <1>3, <1>5, <1>7 DEF Clean, OwnAttempt, SameItem
  <2>2. Current(d)'
    <3>1. \A m \in Slots : Coming(d, m)' => Coming(d, m)
      BY <1>1, <1>3, <1>5 DEF Coming, Adding, Holding, SameItem, Spent
    <3> QED
      BY <1>1, <1>3, <1>5, <1>7, <3>1 DEF Clean, Current, SameItem, Unsettled
  <2>3. Counted(d)'
    <3> SUFFICES ASSUME Unsettled(d)
                 PROVE  posts'[d] + (MaxAttempts - row[d].attempts) <=
                          Paid' + (IF \E v \in Workers : work'[v].d = d /\ Sent(v)' THEN 1 ELSE 0)
      BY <1>1 DEF Counted, Unsettled
    <3>1. ASSUME NEW v \in Workers, work[v].d = d, Sent(v) PROVE FALSE
      <4>1. Attempting(v, d) /\ v # w
        BY <1>5, <3>1 DEF Sent, Attempting, Sending
      <4> QED
        BY <1>5, <1>7, <4>1 DEF Clean, OwnAttempt
    <3>2. work'[w].d = d /\ Sent(w)'
      BY <1>2, <1>3 DEF Sent, SameItem
    <3>3. PICK p \in Nat : p = Paid /\ Paid' = p
      BY <1>1, Paying
    <3>4. posts[d] + (MaxAttempts - row[d].attempts) <= p
      BY <1>7, <3>1, <3>3 DEF Clean, Counted
    <3>5. row[d].attempts \in Nat
      BY DEF TypeOK, RowsOK
    <3> QED
      BY <1>4, <3>2, <3>3, <3>4, <3>5
  <2> QED
    BY <2>1, <2>2, <2>3
<1>8. (Adding(d)' => Adding(d)) /\ (Parking(d)' => Parking(d))
  BY <1>1 DEF Adding, Parking
<1> QED
  BY <1>1, <1>6, <1>7, <1>8, SoundStep

LEMMA SoundRetryable ==
  ASSUME TypeOK, TypeOK', OwnJobs, NEW d \in Deliveries, Sound(d), NEW w \in Workers,
         work[w].d = d, MarkRetryable(w)
  PROVE  Sound(d)'
<1>1. /\ UNCHANGED <<call, job, held, posts, faults>>
      /\ Update(d, [status |-> "failed", attempts |-> Spent(w), due |-> FALSE])
      /\ \E pc \in {"enqueue", "enqueue again"} : Goto(w, pc)
      /\ Trying(w) /\ Sent(w) /\ ~At(w, "idle") /\ Attempting(w, d)
  BY DEF MarkRetryable, queue, Trying, Sent, At, Attempting
<1>2. PICK pc : pc \in {"enqueue", "enqueue again"} /\ Goto(w, pc)
  BY <1>1
<1>3. \A v \in Workers : SameItem(v) /\ work'[v].pc = IF v = w THEN pc ELSE work[v].pc
  BY <1>2, Gone
<1>4. /\ \A v \in Workers : Attempting(v, d)' => Attempting(v, d) /\ v # w
      /\ \A v \in Workers : Trying(v)' => Trying(v) /\ v # w
      /\ \A v \in Workers : Sending(v)' => Sending(v)
      /\ \A v \in Workers : Enqueuing(v)' => Enqueuing(v) \/ v = w
      /\ Spent(w)' = Spent(w) /\ work'[w].d = d
  BY <1>1, <1>2, <1>3 DEF Trying, Sending, Attempting, Enqueuing, At, SameItem, Spent
<1>5. PICK n \in Slots : n = work[w].slot /\ job[d][n] = "active"
  BY <1>1 DEF TypeOK, WorkOK, OwnJobs
<1>6. /\ row[d].status = "none" => row'[d] = row[d]
      /\ row[d].status # "none" => row'[d].status = "failed" /\ row'[d].attempts = Spent(w)
  BY <1>1 DEF Update, TypeOK, RowsOK
<1>7. ASSUME NEW b \in Bases, Base(d, b) PROVE Base(d, b)' /\ Spend(d, b)' <= Spend(d, b)
  <2>1. \A v \in Workers : Attempting(v, d)' \/ (Enqueuing(v)' /\ work'[v].d = d) => Spent(v)' >= b
    BY <1>1, <1>3, <1>4, <1>7 DEF Base, SameItem, Spent
  <2>2. Unsettled(d)' => row'[d].attempts >= b
    BY <1>1, <1>6, <1>7 DEF Base, Unsettled
  <2>3. Base(d, b)'
    BY <1>1, <1>7, <2>1, <2>2, BaseMoved
  <2>4. Unsent(d, b)' \subseteq Unsent(d, b)
    BY <1>1, <1>3, <1>4 DEF Unsent, SameItem
  <2> QED
    BY <1>1, <2>3, <2>4, SpendMoved
<1>8. ASSUME Clean(d) PROVE OwnAttempt(d)' /\ Current(d)' /\ Counted(d)'
  <2>1. \A v \in Workers : ~Attempting(v, d)'
    BY <1>1, <1>4, <1>8 DEF Clean, OwnAttempt
  <2>2. OwnAttempt(d)'
    BY <2>1 DEF OwnAttempt
  <2>3. work[w].attempts = n /\ row[d].status \in {"pending", "failed", "none"} /\ Spent(w) = n + 1
    BY <1>1, <1>5, <1>8 DEF Clean, OwnAttempt, Spent
  <2>4. ASSUME Unsettled(d)'
        PROVE  /\ row[d].attempts = n /\ row'[d].attempts = n + 1 /\ n \in Nat
               /\ \A m \in Slots : job[d][m] = "queued" => m = n
               /\ \A v \in Workers : Trying(v) /\ work[v].d = d => work[v].slot = n
               /\ \A m \in Slots : Coming(d, m) => m <= n /\ (m < n => job[d][m] # "none")
               /\ posts[d] + (MaxAttempts - n) <= Paid + 1
    <3>1. row[d].status # "none" /\ Unsettled(d)
      BY <1>6, <2>3, <2>4 DEF Unsettled
    <3>2. row'[d].attempts = n + 1
      BY <1>6, <2>3, <3>1
    <3>3. /\ \A m \in Slots : job[d][m] = "queued" => m = row[d].attempts
          /\ \A v \in Workers : Trying(v) /\ work[v].d = d => work[v].slot = row[d].attempts
          /\ \A m \in Slots : Coming(d, m) =>
               m <= row[d].attempts /\ (m < row[d].attempts => job[d][m] # "none")
      BY <1>8, <3>1 DEF Clean, Current
    <3>4. row[d].attempts = n
      BY <1>1, <1>5, <3>3
    <3>5. posts[d] + (MaxAttempts - row[d].attempts) <= Paid + 1
      BY <1>1, <1>8, <3>1 DEF Clean, Counted
    <3> QED
      BY <3>2, <3>3, <3>4, <3>5, SlotsType
  <2>5. Counted(d)'
    <3> SUFFICES ASSUME Unsettled(d)'
                 PROVE  posts'[d] + (MaxAttempts - row'[d].attempts) <=
                          Paid' + (IF \E v \in Workers : work'[v].d = d /\ Sent(v)' THEN 1 ELSE 0)
      BY DEF Counted
    <3>1. PICK p, k \in Nat : p = Paid /\ Paid' = p /\ k = posts[d] /\ k = posts'[d]
      BY <1>1, Paying DEF TypeOK
    <3>2. k + (MaxAttempts - n) <= p + 1 /\ row'[d].attempts = n + 1 /\ n \in Nat
      BY <2>4, <3>1
    <3>3. k + (MaxAttempts - (n + 1)) <= p
      <4>1. p \in Nat /\ k \in Nat
        BY <3>1
      <4> QED
        BY <3>2, <4>1
    <3> QED
      <4>1. p \in Nat /\ k \in Nat /\ k + (MaxAttempts - (n + 1)) \in Int
        BY <3>1, <3>2
      <4> QED
        BY <3>1, <3>2, <3>3, <4>1
  <2>6. Current(d)'
    <3> SUFFICES ASSUME Unsettled(d)'
                 PROVE  /\ \A m \in Slots : job'[d][m] = "queued" => m = row'[d].attempts
                        /\ \A v \in Workers : Trying(v)' /\ work'[v].d = d =>
                             work'[v].slot = row'[d].attempts
                        /\ \A m \in Slots : Coming(d, m)' =>
                             m <= row'[d].attempts /\ (m < row'[d].attempts => job'[d][m] # "none")
      BY DEF Current
    <3>1. \A m \in Slots : job[d][m] # "queued"
      BY <1>5, <2>4
    <3>2. ASSUME NEW v \in Workers, Trying(v)', work'[v].d = d PROVE FALSE
      <4>1. v # w /\ Trying(v) /\ work[v].d = d /\ ~At(v, "idle")
        BY <1>3, <1>4, <3>2 DEF SameItem, Trying, At
      <4> QED
        BY <1>1, <1>5, <2>4, <4>1 DEF OwnJobs
    <3>3. ASSUME NEW m \in Slots, Coming(d, m)'
          PROVE  m <= n + 1 /\ (m < n + 1 => job[d][m] # "none")
      <4>1. m \in Nat /\ n \in Nat
        BY SlotsType
      <4>2. CASE Coming(d, m)
        <5>1. m <= n /\ (m < n => job[d][m] # "none")
          BY <2>4, <4>2
        <5>2. (m < n \/ m = n) /\ m <= n + 1
          BY <4>1, <5>1, AtMost, Zenon
        <5>3. job[d][m] # "none"
          BY <1>5, <5>1, <5>2, Zenon
        <5> QED
          BY <5>2, <5>3, Zenon
      <4>3. CASE ~Coming(d, m)
        <5>1. ASSUME NEW v \in Workers, Enqueuing(v)', work'[v].d = d, m = Spent(v)' PROVE m = n + 1
          BY <1>3, <1>4, <2>3, <4>3, <5>1 DEF Coming, SameItem, Spent
        <5>2. m = n + 1
          BY <1>1, <3>3, <4>3, <5>1 DEF Coming, Adding, Holding
        <5> QED
          BY <4>1, <5>2, AtMost
      <4> QED
        BY <4>2, <4>3
    <3> QED
      BY <1>1, <2>4, <3>1, <3>2, <3>3
  <2> QED
    BY <2>2, <2>5, <2>6
<1>9. (Adding(d)' => Adding(d)) /\ (Parking(d)' => Parking(d))
  BY <1>1 DEF Adding, Parking
<1> QED
  BY <1>1, <1>7, <1>8, <1>9, SoundStep


(* What a fault pays for, when a step of one worker undoes the other's count. *)
LEMMA FaultRaces ==
  ASSUME TypeOK, TypeOK', NEW d \in Deliveries, NEW b \in Bases, NEW c \in Bases, Fault,
         Spend(d, b) <= Paid, Base(d, c)', Spend(d, c)' <= Spend(d, b) + c
  PROVE  Raced(d)'
<1>1. PICK p, q : p = Paid /\ q = Paid' /\ p \in Nat /\ q \in Nat /\ q = p + MaxAttempts
  BY Paying
<1>2. PICK s, t \in Nat : s = Spend(d, b) /\ t = Spend(d, c)'
  BY SpendType
<1>3. c \in Nat /\ c <= MaxAttempts
  BY DEF Bases
<1>4. s <= p /\ t <= s + c
  BY <1>1, <1>2
<1>5. t + (MaxAttempts - c) <= q
  BY <1>1, <1>2, <1>3, <1>4
<1>6. faults' > 0
  BY DEF Fault, TypeOK
<1> QED
  BY <1>1, <1>2, <1>5, <1>6 DEF Raced

LEMMA SoundRetryFails ==
  ASSUME TypeOK, TypeOK', OwnJobs, NEW d \in Deliveries, Sound(d), NEW w \in Workers,
         work[w].d = d, EnqueueRetryFails(w)
  PROVE  Sound(d)'
<1>0. job \in Jobs
  BY DEF TypeOK, QueueOK, Jobs
<1>1. /\ UNCHANGED <<call, row, held, posts>> /\ Fault /\ Goto(w, "again") /\ Enqueuing(w)
      /\ Enqueue(d, Spent(w)) \/ UNCHANGED job
      /\ ~Sending(w) /\ ~Attempting(w, d) /\ ~Trying(w)
  BY DEF EnqueueRetryFails, EnqueueFails, Enqueuing, At, Sending, Attempting, Trying
<1>2. Spent(w) \in Slots /\ Coming(d, Spent(w))
  BY <1>1 DEF TypeOK, WorkOK, Enqueuing, Coming
<1>3. \A v \in Workers : SameItem(v) /\ work'[v].pc = IF v = w THEN "again" ELSE work[v].pc
  BY <1>1, Gone
<1>4. \A m \in Slots : job'[d][m] = job[d][m] \/ (m = Spent(w) /\ job[d][m] = "none" /\ job'[d][m] = "queued")
  <2>1. CASE Enqueue(d, Spent(w))
    BY <1>0, <1>2, <2>1, Enqueued
  <2> QED
    BY <1>1, <2>1
<1>5. /\ \A v \in Workers : Sending(v)' => Sending(v)
      /\ \A v \in Workers : Attempting(v, d)' => Attempting(v, d) \/ v = w
      /\ \A v \in Workers : Enqueuing(v)' => Enqueuing(v)
  BY <1>3 DEF Sending, Attempting, Enqueuing, At, SameItem
<1>6. ASSUME NEW b \in Bases, Base(d, b) PROVE Base(d, b)' /\ Spend(d, b)' <= Spend(d, b)
  <2>1. \A v \in Workers : Attempting(v, d)' \/ (Enqueuing(v)' /\ work'[v].d = d) => Spent(v)' >= b
    BY <1>1, <1>3, <1>5, <1>6 DEF Base, SameItem, Spent
  <2>2. Base(d, b)'
    <3>1. Unsettled(d)' => row'[d].attempts >= b
      BY <1>1, <1>6 DEF Base, Unsettled
    <3>2. \A m \in Slots : job[d][m] # "none" => job'[d][m] # "none"
      BY <1>4
    <3> QED
      BY <1>1, <1>6, <2>1, <3>1, <3>2, BaseMoved
  <2>3. ASSUME NEW m \in Unsent(d, b)' PROVE m \in Unsent(d, b)
    <3>1. m \in Slots
      BY DEF Unsent
    <3>2. CASE job'[d][m] = job[d][m]
      BY <1>3, <1>5, <2>3, <3>1, <3>2 DEF Unsent, SameItem
    <3>3. CASE m = Spent(w) /\ job[d][m] = "none"
      <4>1. m >= b
        BY <1>2, <1>6, <3>1, <3>3 DEF Base
      <4> QED
        BY <3>1, <3>3, <4>1 DEF Unsent
    <3> QED
      BY <1>4, <3>1, <3>2, <3>3
  <2> QED
    BY <1>1, <2>2, <2>3, SpendMoved
<1>7. \A b \in Bases : Base(d, b) => Base(d, b)' /\ Spend(d, b)' + Paid <= Spend(d, b) + Paid'
  <2>1. PICK p, q : p = Paid /\ q = Paid' /\ p \in Nat /\ q \in Nat /\ p <= q
    BY <1>1, Paying
  <2>2. ASSUME NEW b \in Bases, Base(d, b) PROVE Spend(d, b)' + p <= Spend(d, b) + q
    <3>1. PICK s, t \in Nat : s = Spend(d, b) /\ t = Spend(d, b)' /\ t <= s
      BY <1>6, <2>2, SpendType
    <3>2. t + p <= s + q
      BY <2>1, <3>1
    <3> QED
      BY <3>1, <3>2
  <2> QED
    BY <1>6, <2>1, <2>2
<1>8. First(d)' /\ (Raced(d) => Raced(d)')
  <2>1. Adding(d)' => Adding(d)
    BY <1>1 DEF Adding
  <2> QED
    BY <1>1, <1>7, <2>1, Carried DEF Sound
<1>9. ASSUME Clean(d) PROVE Raced(d)'
  <2>1. PICK b \in Bases : Base(d, b) /\ Spend(d, b) <= Paid
    BY <1>9 DEF Clean, Covered
  <2>2. Base(d, b)' /\ Spend(d, b)' <= Spend(d, b)
    BY <1>6, <2>1
  <2>3. Spend(d, b)' <= Spend(d, b) + b
    <3>1. PICK s, t \in Nat : s = Spend(d, b) /\ t = Spend(d, b)' /\ t <= s
      BY <2>2, SpendType
    <3>2. b \in Nat
      BY DEF Bases
    <3>3. t <= s + b
      BY <3>1, <3>2
    <3> QED
      BY <3>1, <3>3
  <2> QED
    BY <1>1, <2>1, <2>2, <2>3, FaultRaces
<1> QED
  BY <1>8, <1>9 DEF Sound

(* A worker stops: its job is run again, unless it was run again before. *)
LEMMA SoundCrash ==
  ASSUME TypeOK, TypeOK', OwnJobs, NEW d \in Deliveries, Sound(d), NEW w \in Workers,
         work[w].d = d, Crash(w)
  PROVE  Sound(d)'
<1>0. job \in Jobs
  BY DEF TypeOK, QueueOK, Jobs
<1>1. /\ UNCHANGED <<call, row, held, posts>> /\ Fault /\ ~At(w, "idle")
      /\ work' = [work EXCEPT ![w] = NoWork]
  BY DEF Crash
<1>2. PICK n \in Slots : n = work[w].slot /\ job[d][n] = "active"
  BY <1>1 DEF TypeOK, WorkOK, OwnJobs
<1>3. /\ \A m \in Slots : m # n => job'[d][m] = job[d][m]
      /\ job'[d][n] = "kept" \/ job'[d][n] = "queued"
  BY <1>0, <1>2 DEF Crash, Jobs
<1>4. /\ WorkKeeps(d) /\ (OwnAttempt(d) => OwnAttempt(d)')
      /\ \A v \in Workers : v # w => work'[v] = work[v]
  BY <1>1, LastStep
<1>5. CASE job'[d][n] = "kept"
  <2>1. JobKeeps(d)
    BY <1>2, <1>3, <1>5 DEF JobKeeps
  <2>2. CountKeeps(d)
    BY <1>1 DEF CountKeeps
  <2>3. Keeps(d)
    BY <1>1, <1>4, <2>1, <2>2, Unchanged DEF Keeps
  <2> QED
    BY <1>4, <2>3, SoundKept DEF Clean
<1>6. CASE job'[d][n] = "queued"
  <2>0. (Adding(d)' => Adding(d)) /\ (Parking(d)' => Parking(d))
    BY <1>1 DEF Adding, Parking
  <2>1. ASSUME NEW b \in Bases, Base(d, b)
        PROVE  /\ Base(d, b)' /\ Unsent(d, b)' \subseteq Unsent(d, b) \cup {n}
               /\ Spend(d, b)' <= Spend(d, b) + 1
    <3>1. ASSUME NEW v \in Workers, Attempting(v, d)' \/ (Enqueuing(v)' /\ work'[v].d = d)
          PROVE  Spent(v)' >= b
      <4>1. SameItem(v) /\ (Attempting(v, d) \/ (Enqueuing(v) /\ work[v].d = d))
        BY <1>4, <3>1 DEF WorkKeeps, SameItem, Attempting, Trying
      <4> QED
        BY <2>1, <4>1 DEF Base, SameItem, Spent
    <3>2. Base(d, b)'
      <4>1. Unsettled(d)' => row'[d].attempts >= b
        BY <1>1, <2>1 DEF Base, Unsettled
      <4>2. \A m \in Slots : job[d][m] # "none" => job'[d][m] # "none"
        BY <1>3, <1>6
      <4> QED
        BY <1>1, <2>1, <3>1, <4>1, <4>2, BaseMoved
    <3>3. ASSUME NEW m \in Unsent(d, b)', m # n PROVE m \in Unsent(d, b)
      <4>1. m \in Slots /\ job'[d][m] = job[d][m]
        BY <1>3, <3>3 DEF Unsent
      <4>2. \A v \in Workers : Sending(v)' /\ work'[v].d = d => Sending(v) /\ SameItem(v)
        BY <1>4 DEF WorkKeeps, Sending, Trying
      <4> QED
        BY <3>3, <4>1, <4>2 DEF Unsent, SameItem
    <3>4. Unsent(d, b)' \subseteq Unsent(d, b) \cup {n}
      BY <3>3
    <3> QED
      BY <1>1, <3>2, <3>4, SpendMoved
  <2>2. CASE Trying(w) \/ ~Unsettled(d)
    <3>1. ASSUME Clean(d), Unsettled(d)
          PROVE  /\ \A m \in Slots : job'[d][m] = "queued" => m = row[d].attempts
                 /\ \A v \in Workers : Trying(v)' /\ work'[v].d = d => work'[v].slot = row[d].attempts
                 /\ \A m \in Slots : Coming(d, m)' =>
                      m <= row[d].attempts /\ (m < row[d].attempts => job'[d][m] # "none")
      <4>1. /\ \A m \in Slots : job[d][m] = "queued" => m = row[d].attempts
            /\ \A v \in Workers : Trying(v) /\ work[v].d = d => work[v].slot = row[d].attempts
            /\ \A m \in Slots : Coming(d, m) =>
                 m <= row[d].attempts /\ (m < row[d].attempts => job[d][m] # "none")
        BY <3>1 DEF Clean, Current
      <4>2. n = row[d].attempts
        BY <1>2, <2>2, <3>1, <4>1
      <4>3. \A m \in Slots : Coming(d, m)' => Coming(d, m)
        BY <1>1, <1>4 DEF Coming, Adding, Holding, WorkKeeps, SameItem, Spent
      <4> QED
        BY <1>3, <1>4, <1>6, <4>1, <4>2, <4>3 DEF WorkKeeps, SameItem
    <3>2. Clean(d) => Current(d)'
      BY <1>1, <3>1 DEF Current, Unsettled
    <3>3. ASSUME Clean(d) PROVE Counted(d)'
      <4> SUFFICES ASSUME Unsettled(d)
                   PROVE  posts[d] + (MaxAttempts - row[d].attempts) <=
                            Paid' + (IF \E v \in Workers : work'[v].d = d /\ Sent(v)' THEN 1 ELSE 0)
        BY <1>1 DEF Counted, Unsettled
      <4>1. PICK p, q : p = Paid /\ q = Paid' /\ p \in Nat /\ q \in Nat /\ q >= p + 1
        BY <1>1, Paying
      <4>2. row[d].attempts \in 0 .. MaxAttempts /\ posts[d] \in Nat
        BY DEF TypeOK, RowsOK
      <4>3. PICK k \in Nat : k = posts[d] + (MaxAttempts - row[d].attempts)
        BY <4>2
      <4>4. k <= p + (IF \E v \in Workers : work[v].d = d /\ Sent(v) THEN 1 ELSE 0)
        BY <3>3, <4>1, <4>3 DEF Clean, Counted
      <4>5. k <= p + 1
        BY <4>1, <4>3, <4>4
      <4>6. k <= q
        BY <4>1, <4>3, <4>5
      <4> QED
        BY <4>1, <4>3, <4>6
    <3> QED
      BY <1>1, <1>4, <2>0, <2>1, <3>2, <3>3, SoundStep DEF Clean
  <2>3. CASE Enqueuing(w) /\ Unsettled(d)
    <3>1. First(d)' /\ (Raced(d) => Raced(d)')
      <4>1. PICK p, q : p = Paid /\ q = Paid' /\ p \in Nat /\ q \in Nat /\ q >= p + 1
        BY <1>1, Paying
      <4>2. ASSUME NEW b \in Bases, Base(d, b) PROVE Spend(d, b)' + p <= Spend(d, b) + q
        <5>1. PICK s, t \in Nat : s = Spend(d, b) /\ t = Spend(d, b)' /\ t <= s + 1
          BY <2>1, <4>2, SpendType
        <5>2. t + p <= s + q
          BY <4>1, <5>1
        <5> QED
          BY <5>1, <5>2
      <4> QED
        BY <1>1, <2>0, <2>1, <4>1, <4>2, Carried DEF Sound
    <3>2. ASSUME Clean(d) PROVE Raced(d)'
      <4>1. PICK b \in Bases : Base(d, b) /\ Spend(d, b) <= Paid
        BY <3>2 DEF Clean, Covered
      <4>2. Base(d, b)' /\ Unsent(d, b)' \subseteq Unsent(d, b) \cup {n} /\ Spend(d, b)' <= Spend(d, b) + 1
        BY <2>1, <4>1
      <4>3. CASE b # 0
        <5>1. PICK s, t \in Nat : s = Spend(d, b) /\ t = Spend(d, b)' /\ t <= s + 1
          BY <4>2, SpendType
        <5>2. b \in Nat /\ b >= 1
          BY <4>3 DEF Bases
        <5>3. t <= s + b
          BY <5>1, <5>2
        <5>4. Spend(d, b)' <= Spend(d, b) + b
          BY <5>1, <5>3
        <5> QED
          BY <1>1, <4>1, <4>2, <5>4, FaultRaces
      <4>4. CASE b = 0
        <5>1. row[d].attempts \in Nat /\ row[d].attempts >= 1
          <6>1. Spent(w) \in Slots /\ Coming(d, Spent(w)) /\ work[w].attempts \in Slots
            BY <2>3 DEF TypeOK, WorkOK, Enqueuing, Coming
          <6>2. Spent(w) <= row[d].attempts
            BY <2>3, <3>2, <6>1 DEF Clean, Current
          <6>3. Spent(w) >= 1 /\ Spent(w) \in Nat
            <7>1. work[w].attempts \in Nat
              BY <6>1, SlotsType
            <7> QED
              BY <7>1 DEF Spent
          <6>4. row[d].attempts \in Nat
            BY DEF TypeOK, RowsOK
          <6> QED
            BY <6>2, <6>3, <6>4
        <5>2. ASSUME NEW m \in Slots, Coming(d, m)' PROVE m >= 1 \/ job'[d][m] # "none"
          <6>1. Coming(d, m)
            BY <1>1, <1>4, <5>2 DEF Coming, Adding, Holding, WorkKeeps, SameItem, Spent
          <6>2. m < row[d].attempts => job[d][m] # "none"
            BY <2>3, <3>2, <6>1 DEF Clean, Current
          <6>3. m \in Nat
            BY SlotsType
          <6>4. m >= 1 \/ job[d][m] # "none"
            BY <5>1, <6>2, <6>3
          <6> QED
            BY <1>3, <1>6, <6>4
        <5>3. ASSUME NEW v \in Workers PROVE Spent(v)' >= 1
          <6>1. work'[v].attempts \in Slots
            BY DEF TypeOK, WorkOK
          <6>2. work'[v].attempts \in Nat
            BY <6>1, SlotsType
          <6> QED
            BY <6>2 DEF Spent
        <5>4. 1 \in Bases /\ Base(d, 1)'
          <6>1. ~Parking(d)'
            BY <2>0, <3>2 DEF Clean
          <6>2. row'[d].attempts >= 1
            BY <1>1, <5>1
          <6>3. 1 \in Bases
            BY DEF Bases
          <6> QED
            BY <5>2, <5>3, <6>1, <6>2, <6>3 DEF Base
        <5>5. Spend(d, 1)' <= Spend(d, 0) + 1
          <6>1. PICK R, S, T : R = Unsent(d, 1)' /\ S = Unsent(d, 0) /\ T = Unsent(d, 0)'
            OBVIOUS
          <6>2. R \in SUBSET Slots /\ S \in SUBSET Slots /\ posts[d] \in Nat
            BY <6>1, SpendType
          <6>3. R \subseteq T
            <7>1. \A m \in Slots : m >= 0
              BY SlotsType
            <7> QED
              BY <6>1, <7>1 DEF Unsent
          <6>4. R \subseteq S \cup {n}
            BY <4>2, <4>4, <6>1, <6>3
          <6>5. PICK r, s \in Nat : r = Cardinality(R) /\ s = Cardinality(S)
            BY <6>2, Sizes
          <6>6. r <= s + 1
            BY <6>2, <6>4, <6>5, Sizes
          <6>7. Spend(d, 1)' = posts[d] + r /\ Spend(d, 0) = posts[d] + s
            BY <1>1, <6>1, <6>5 DEF Spend
          <6> QED
            BY <6>2, <6>5, <6>6, <6>7
        <5> QED
          BY <1>1, <4>1, <4>4, <5>4, <5>5, FaultRaces
      <4> QED
        BY <4>3, <4>4
    <3> QED
      BY <3>1, <3>2 DEF Sound
  <2>4. Trying(w) \/ Enqueuing(w)
    BY <1>1 DEF TypeOK, WorkOK, Trying, Enqueuing, At, Pcs
  <2> QED
    BY <2>2, <2>3, <2>4
<1> QED
  BY <1>3, <1>5, <1>6

(* A delivery begins with nothing spent. *)
LEMMA SoundCreate ==
  ASSUME TypeOK, TypeOK', OwnJobs, Untouched, NEW d \in Deliveries, Sound(d), NEW e \in Events,
         CreateDelivery(e), call'[e].d = d
  PROVE  Sound(d)'
<1>0. call \in [Events -> [pc : {"new", "insert", "add", "park", "done"},
                           todo : SUBSET Hooks, d : Deliveries \cup {<<>>}]]
  BY DEF TypeOK, CallsOK
<1>1. PICK h \in call[e].todo :
        /\ row' = [row EXCEPT ![<<e, h>>] = [status |-> "pending", attempts |-> 0, due |-> FALSE]]
        /\ call' = [call EXCEPT ![e] = [pc |-> "add", todo |-> call[e].todo \ {h}, d |-> <<e, h>>]]
  BY DEF CreateDelivery
<1>2. UNCHANGED <<held, work, job, posts, faults>>
  BY DEF CreateDelivery, queue
<1>3. h \in Hooks /\ d = <<e, h>> /\ call'[e].pc = "add"
  BY <1>0, <1>1
<1>4. /\ posts[d] = 0 /\ row[d].status = "none"
      /\ \A n \in Slots : job[d][n] = "none" /\ ~Holding(d, n)
  BY <1>1, <1>3 DEF Untouched
<1>5. row'[d].attempts = 0 /\ row'[d].status = "pending"
  BY <1>1, <1>3 DEF TypeOK, RowsOK
<1>6. \A w \in Workers : work'[w].d = d => At(w, "idle")'
  <2>1. ASSUME NEW w \in Workers, work[w].d = d, ~At(w, "idle") PROVE FALSE
    <3>1. job[d][work[w].slot] = "active" /\ work[w].slot \in Slots
      BY <2>1 DEF OwnJobs, TypeOK, WorkOK
    <3> QED
      BY <1>4, <3>1
  <2> QED
    BY <1>2, <2>1 DEF At
<1>7. /\ \A w \in Workers : work'[w].d = d => ~Enqueuing(w)' /\ ~Trying(w)' /\ ~Sent(w)'
      /\ \A w \in Workers : ~Attempting(w, d)'
  BY <1>6 DEF At, Enqueuing, Trying, Sent, Attempting
<1>8. ~Parking(d)'
  <2>1. ASSUME NEW f \in Events, call'[f].pc = "park", call'[f].d = d PROVE FALSE
    <3>1. f = e
      BY <1>3, <2>1 DEF TypeOK, CallsOK
    <3> QED
      BY <1>3, <2>1, <3>1
  <2> QED
    BY <2>1 DEF Parking
<1>9. \A n \in Slots : Coming(d, n)' => n = 0
  BY <1>2, <1>4, <1>7 DEF Coming, Holding
<1>10. OwnAttempt(d)'
  BY <1>7 DEF OwnAttempt
<1>11. Current(d)'
  <2>1. \A n \in Slots : job'[d][n] # "queued"
    BY <1>2, <1>4
  <2>2. 0 <= 0 /\ ~(0 < 0)
    OBVIOUS
  <2> QED
    BY <1>5, <1>7, <1>9, <2>1, <2>2 DEF Current
<1>12. PICK p \in Nat : p = Paid' /\ MaxAttempts <= p
  <2>1. UNCHANGED faults
    BY <1>2
  <2> QED
    BY <2>1, Paying
<1>13. Counted(d)'
  <2>1. \A w \in Workers : ~(work'[w].d = d /\ Sent(w)')
    BY <1>7
  <2>2. posts'[d] = 0 /\ row'[d].attempts = 0
    BY <1>2, <1>4, <1>5
  <2>3. \A m, k \in Nat : m <= k => 0 + (m - 0) <= k + 0
    OBVIOUS
  <2>4. 0 + (MaxAttempts - 0) <= p + 0
    BY <1>12, <2>3
  <2> QED
    BY <1>12, <2>1, <2>2, <2>4 DEF Counted
<1>14. Spend(d, 0)' <= Paid'
  <2>1. PICK S : S = Unsent(d, 0)' /\ S \in SUBSET Slots
    BY SpendType
  <2>2. Cardinality(S) \in Nat /\ Cardinality(S) <= MaxAttempts
    BY <2>1, Sizes
  <2>3. Spend(d, 0)' = Cardinality(S)
    BY <1>2, <1>4, <2>1, <2>2 DEF Spend
  <2> QED
    BY <1>12, <2>2, <2>3
<1>15. Covered(d)'
  BY <1>14, BaseZero DEF Covered
<1> QED
  BY <1>8, <1>10, <1>11, <1>13, <1>14, <1>15 DEF Sound, First, Clean

LEMMA SoundFirstFails ==
  ASSUME TypeOK, TypeOK', OwnJobs, NEW d \in Deliveries, Sound(d), NEW e \in Events,
         call[e].d = d, EnqueueFirstFails(e)
  PROVE  Sound(d)'
<1>0. job \in Jobs
  BY DEF TypeOK, QueueOK, Jobs
<1>1. /\ UNCHANGED <<row, held, work, posts>> /\ Fault /\ Adding(d)
      /\ Enqueue(d, 0) \/ UNCHANGED job
  BY DEF EnqueueFirstFails, EnqueueFails, Adding
<1>2. Adding(d)' => Adding(d)
  BY <1>1
<1>3. \A m \in Slots : job'[d][m] = job[d][m] \/ (m = 0 /\ job[d][m] = "none" /\ job'[d][m] = "queued")
  <2>1. CASE Enqueue(d, 0)
    BY <1>0, <2>1, Enqueued, SlotsType
  <2> QED
    BY <1>1, <2>1
<1>4. Spend(d, 0) <= Paid
  BY <1>1 DEF Sound, First
<1>5. Unsent(d, 0)' \subseteq Unsent(d, 0)
  <2>1. \A m \in Slots : m >= 0
    BY SlotsType
  <2> QED
    BY <1>1, <1>3, <2>1 DEF Unsent, Sending
<1>6. 0 \in Bases /\ Base(d, 0)'
  BY BaseZero
<1>7. PICK s, t \in Nat : s = Spend(d, 0) /\ t = Spend(d, 0)' /\ t <= s
  BY <1>1, <1>5, <1>6, SpendMoved, SpendType
<1>8. t <= s + 0
  BY <1>7
<1>9. Raced(d)'
  BY <1>1, <1>4, <1>6, <1>7, <1>8, FaultRaces
<1>10. First(d)'
  <2>1. PICK p, q : p = Paid /\ q = Paid' /\ p \in Nat /\ q \in Nat /\ p <= q
    BY <1>1, Paying
  <2>2. s <= p
    BY <1>4, <1>7, <2>1
  <2>3. t <= q
    BY <1>7, <2>1, <2>2
  <2> QED
    BY <1>7, <2>1, <2>3 DEF First
<1> QED
  BY <1>9, <1>10 DEF Sound

LEMMA SoundPark ==
  ASSUME TypeOK, TypeOK', OwnJobs, NEW d \in Deliveries, Sound(d), NEW e \in Events,
         call[e].d = d, Park(e)
  PROVE  Sound(d)'
<1>1. UNCHANGED <<job, held, work, posts, faults>> /\ Parking(d)
  BY DEF Park, Parking, queue
<1>2. Adding(d)' => Adding(d)
  <2>1. PICK todo : Continue(e, todo)
    BY DEF Park
  <2>2. \A f \in Events : call'[f] = call[f] \/ call'[f].pc \in {"done", "insert"}
    BY <2>1 DEF Continue, TypeOK, CallsOK
  <2> QED
    BY <2>2 DEF Adding
<1>3. Paid' = Paid
  BY <1>1, Paying
<1>4. Unsent(d, 0)' = Unsent(d, 0)
  BY <1>1 DEF Unsent, Sending
<1>5. Spend(d, 0)' = Spend(d, 0)
  BY <1>1, <1>4 DEF Spend
<1>6. First(d)'
  BY <1>2, <1>3, <1>5 DEF Sound, First
<1>7. PICK b \in Bases : faults > 0 /\ Base(d, b) /\ Spend(d, b) + (MaxAttempts - b) <= Paid
  BY <1>1 DEF Sound, Clean, Raced
<1>8. b = 0
  BY <1>1, <1>7 DEF Base
<1>9. Raced(d)'
  BY <1>1, <1>3, <1>5, <1>7, <1>8, BaseZero DEF Raced
<1> QED
  BY <1>6, <1>9 DEF Sound

(* A forgotten job costs nothing that is not paid: the row knows how many    *)
(* attempts are left, and a delivery nobody works on is clean again.         *)
LEMMA SoundEvict ==
  ASSUME TypeOK, TypeOK', OwnJobs, NEW d \in Deliveries, Sound(d), Evict(d)
  PROVE  Sound(d)'
<1>0. job \in Jobs
  BY DEF TypeOK, QueueOK, Jobs
<1>1. PICK n \in Slots : job[d][n] = "kept" /\ job' = [job EXCEPT ![d][n] = "none"]
  BY DEF Evict
<1>2. UNCHANGED <<call, row, work, held, posts, faults>>
  BY DEF Evict
<1>3. /\ \A m \in Slots : job[d][m] \notin {"queued", "active"}
      /\ \A e \in Events : call[e].d # d
      /\ \A s \in Sweepers : \A c \in held[s] : c[1] # d
  BY DEF Evict, Touches
<1>4. \A m \in Slots : job'[d][m] # "queued"
  BY <1>0, <1>1, <1>3 DEF Jobs
<1>5. \A w \in Workers : work[w].d = d => At(w, "idle")
  BY <1>3 DEF OwnJobs, TypeOK, WorkOK
<1>6. \A w \in Workers : /\ ~(work[w].d = d /\ (Trying(w) \/ Sending(w) \/ Sent(w) \/ Enqueuing(w)))
                         /\ ~Attempting(w, d)
  BY <1>5 DEF At, Trying, Sending, Sent, Enqueuing, Attempting
<1>7. /\ ~Adding(d)' /\ ~Parking(d)' /\ \A m \in Slots : ~Coming(d, m)'
      /\ \A w \in Workers : /\ ~(work'[w].d = d /\ (Trying(w)' \/ Sending(w)' \/ Sent(w)' \/ Enqueuing(w)'))
                            /\ ~Attempting(w, d)'
  <2>1. ~Adding(d)' /\ ~Parking(d)'
    BY <1>2, <1>3 DEF Adding, Parking
  <2>2. \A m : ~Holding(d, m)'
    BY <1>2, <1>3 DEF Holding
  <2>3. \A w \in Workers :
          /\ ~(work'[w].d = d /\ (Trying(w)' \/ Sending(w)' \/ Sent(w)' \/ Enqueuing(w)'))
          /\ ~Attempting(w, d)'
    BY <1>2, <1>6 DEF Trying, Sending, Sent, Enqueuing, At, Attempting
  <2> QED
    BY <2>1, <2>2, <2>3 DEF Coming
<1>8. PICK p, k, n1 : /\ p = Paid /\ p = Paid' /\ p \in Nat /\ k = posts[d] /\ k \in Nat /\ k = posts'[d]
                      /\ n1 = row[d].attempts /\ n1 \in 0 .. MaxAttempts
  BY <1>2, Paying DEF TypeOK, RowsOK
<1>9. k <= p /\ (Unsettled(d) => k + (MaxAttempts - n1) <= p)
  <2>1. CASE Clean(d)
    <3>1. PICK b \in Bases : Spend(d, b) <= Paid
      BY <2>1 DEF Clean, Covered
    <3>2. PICK s \in Nat : s = Cardinality(Unsent(d, b))
      BY Sizes, SpendType
    <3>3. k + s <= p
      BY <1>8, <3>1, <3>2 DEF Spend
    <3>4. k <= p
      BY <1>8, <3>2, <3>3
    <3>5. Unsettled(d) => k + (MaxAttempts - n1) <= p
      BY <1>6, <1>8, <2>1 DEF Clean, Counted
    <3> QED
      BY <3>4, <3>5
  <2>2. CASE Raced(d)
    <3>1. PICK b \in Bases : Base(d, b) /\ Spend(d, b) + (MaxAttempts - b) <= Paid
      BY <2>2 DEF Raced
    <3>2. PICK s \in Nat : s = Cardinality(Unsent(d, b))
      BY Sizes, SpendType
    <3>3. k + s + (MaxAttempts - b) <= p
      BY <1>8, <3>1, <3>2 DEF Spend
    <3>4. b \in Nat /\ b <= MaxAttempts
      BY DEF Bases
    <3>5. Unsettled(d) => n1 >= b
      BY <1>8, <3>1 DEF Base
    <3> QED
      BY <1>8, <3>2, <3>3, <3>4, <3>5
  <2> QED
    BY <2>1, <2>2 DEF Sound
<1>10. Counted(d)'
  <2> SUFFICES ASSUME Unsettled(d)
               PROVE  k + (MaxAttempts - n1) <=
                        p + (IF \E w \in Workers : work'[w].d = d /\ Sent(w)' THEN 1 ELSE 0)
    BY <1>2, <1>8 DEF Counted, Unsettled
  <2> QED
    BY <1>7, <1>8, <1>9
<1>11. PICK c \in Bases : c = IF Unsettled(d) THEN n1 ELSE MaxAttempts
  BY <1>8 DEF Bases
<1>12. Base(d, c)'
  <2>1. Unsettled(d)' => row'[d].attempts >= c
    BY <1>2, <1>8, <1>11 DEF Unsettled
  <2> QED
    BY <1>7, <2>1 DEF Base
<1>13. Spend(d, c)' <= Paid'
  <2>1. PICK R : R = Unsent(d, c)'
    OBVIOUS
  <2>2. R \in SUBSET Slots
    BY <2>1, SpendType
  <2>3. \A m \in R : m >= c
    BY <1>4, <1>7, <2>1 DEF Unsent
  <2>4. PICK r \in Nat : r = Cardinality(R)
    BY <2>2, Sizes
  <2>5. r <= MaxAttempts - c
    BY <2>2, <2>3, <2>4, Sizes
  <2>6. Spend(d, c)' = k + r
    BY <1>8, <2>1, <2>4 DEF Spend
  <2>7. k + r <= p
    BY <1>8, <1>9, <1>11, <2>4, <2>5
  <2> QED
    BY <1>8, <2>6, <2>7
<1>14. OwnAttempt(d)' /\ Current(d)'
  BY <1>4, <1>7 DEF OwnAttempt, Current
<1> QED
  BY <1>7, <1>10, <1>12, <1>13, <1>14 DEF Sound, First, Clean, Covered

-----------------------------------------------------------------------------
LEMMA SoundNext ==
  ASSUME TypeOK, TypeOK', OwnJobs, Untouched, [Next]_vars, NEW d \in Deliveries, Sound(d)
  PROVE  Sound(d)'
<1>1. ASSUME NEW w \in Workers, OwnWork(w, d) PROVE Sound(d)'
  BY <1>1, SoundRead, SoundPost, SoundRetryable, SoundRetryFails, SoundCrash DEF OwnWork
<1>2. ASSUME NEW e \in Events, OwnCall(e, d) PROVE Sound(d)'
  BY <1>2, SoundCreate, SoundFirstFails, SoundPark DEF OwnCall
<1> QED
  BY <1>1, <1>2, Steps, SoundKept, SoundStart, SoundEvict

(* A call does not come back to a target. *)
LEMMA TargetsAhead ==
  ASSUME TypeOK, [Next]_vars, NEW e \in Events, NEW h \in Hooks,
         call'[e].pc = "new" \/ h \in call'[e].todo
  PROVE  call[e].pc = "new" \/ h \in call[e].todo
<1>0. call \in [Events -> [pc : {"new", "insert", "add", "park", "done"},
                           todo : SUBSET Hooks, d : Deliveries \cup {<<>>}]]
  BY DEF TypeOK, CallsOK
<1>1. CASE UNCHANGED call
  BY <1>1
<1>2. ASSUME NEW f \in Events, NEW todo, Continue(f, todo), call[f].pc = "new" \/ todo \subseteq call[f].todo
      PROVE  call[e].pc = "new" \/ h \in call[e].todo
  <2>1. CASE f = e
    <3>1. call'[e].todo = todo /\ call'[e].pc # "new"
      BY <1>0, <1>2, <2>1 DEF Continue
    <3> QED
      BY <1>2, <2>1, <3>1
  <2>2. CASE f # e
    BY <1>0, <1>2, <2>2 DEF Continue
  <2> QED
    BY <2>1, <2>2
<1>3. ASSUME NEW f \in Events, Dispatch(f) \/ EnqueueFirstFails(f) \/ CallFails(f)
      PROVE  call[e].pc = "new" \/ h \in call[e].todo
  <2>1. CASE ListTargets(f)
    BY <1>2, <2>1 DEF ListTargets
  <2>2. CASE CreateDelivery(f)
    <3>1. PICK g : call' = [call EXCEPT ![f] = [pc |-> "add", todo |-> call[f].todo \ {g}, d |-> <<f, g>>]]
      BY <2>2 DEF CreateDelivery
    <3> QED
      BY <1>0, <3>1
  <2>3. CASE EnqueueFirst(f) \/ Park(f)
    BY <1>2, <2>3 DEF EnqueueFirst, Park
  <2>4. CASE TargetRemoved(f) \/ CallFails(f)
    BY <1>2, <2>4 DEF TargetRemoved, CallFails
  <2>5. CASE EnqueueFirstFails(f)
    <3>1. call' = [call EXCEPT ![f].pc = "park"]
      BY <2>5 DEF EnqueueFirstFails
    <3> QED
      BY <1>0, <3>1
  <2> QED
    BY <1>3, <2>1, <2>2, <2>3, <2>4, <2>5 DEF Dispatch
<1>4. CASE Next /\ ~UNCHANGED call
  BY <1>3, <1>4 DEF Next, SetStatus, Remove, Attempt, Start, ReadDelivery, ReadHook, Post,
     MarkDelivered, MarkRefused, MarkDead, MarkRetryable, EnqueueRetry, DbError, EnqueueRetryFails,
     EnqueueAgainFails, Crash, Claim, Requeue, RequeueFails, StopSweep, Age, Evict
<1> QED
  BY <1>1, <1>4 DEF vars

LEMMA UntouchedStep ==
  ASSUME TypeOK, TypeOK', OwnJobs, Untouched, [Next]_vars
  PROVE  Untouched'
<1> SUFFICES ASSUME NEW e \in Events, NEW h \in Hooks, call'[e].pc = "new" \/ h \in call'[e].todo
             PROVE  /\ row'[<<e, h>>].status = "none" /\ posts'[<<e, h>>] = 0
                    /\ \A n \in Slots : job'[<<e, h>>][n] = "none" /\ ~Holding(<<e, h>>, n)'
  BY DEF Untouched
<1>1. PICK d \in Deliveries : d = <<e, h>>
  BY DEF Deliveries
<1>2. call[e].pc = "new" \/ h \in call[e].todo
  BY TargetsAhead
<1>3. /\ row[d].status = "none" /\ posts[d] = 0
      /\ \A n \in Slots : job[d][n] = "none" /\ ~Holding(d, n)
  BY <1>1, <1>2 DEF Untouched
<1>4. \A w \in Workers : work[w].d = d => At(w, "idle")
  BY <1>3 DEF OwnJobs, TypeOK, WorkOK
<1>5. \A f \in Events : call[f].d = d => call[f].pc \notin {"add", "park"}
  BY <1>1, <1>2 DEF TypeOK, CallsOK
<1>6. \A n \in Slots : ~Coming(d, n)
  BY <1>3, <1>4, <1>5 DEF Coming, Adding, Enqueuing, At
<1>7. ASSUME NEW w \in Workers, OwnStart(w, d) PROVE FALSE
  <2>1. PICK x \in Deliveries, n \in Slots :
          /\ job[x][n] = "queued"
          /\ work' = [work EXCEPT ![w] = [pc |-> "read", d |-> x, slot |-> n, attempts |-> 0]]
    BY <1>7 DEF OwnStart, Start
  <2>2. work'[w].d = x
    BY <2>1 DEF TypeOK, WorkOK
  <2> QED
    BY <1>3, <1>7, <2>1, <2>2 DEF OwnStart
<1>8. ASSUME NEW w \in Workers, OwnWork(w, d) PROVE FALSE
  <2>1. ~At(w, "idle")
    BY <1>8 DEF OwnWork, ReadDelivery, Post, MarkRetryable, EnqueueRetryFails, Crash, At
  <2> QED
    BY <1>4, <1>8, <2>1 DEF OwnWork
<1>9. ASSUME NEW f \in Events, OwnCall(f, d) PROVE FALSE
  <2>1. CASE CreateDelivery(f) /\ call'[f].d = d
    <3>1. call'[f].pc = "add"
      BY <2>1 DEF CreateDelivery, TypeOK, CallsOK
    <3>2. d \in {f} \X (Hooks \ call'[f].todo)
      BY <2>1, <3>1 DEF TypeOK, CallsOK
    <3>3. f = e /\ h \notin call'[f].todo
      BY <1>1, <3>2
    <3> QED
      BY <3>1, <3>3
  <2>2. CASE call[f].d = d /\ (EnqueueFirstFails(f) \/ Park(f))
    BY <1>5, <2>2 DEF EnqueueFirstFails, Park
  <2> QED
    BY <1>9, <2>1, <2>2 DEF OwnCall
<1>10. ~Evict(d)
  BY <1>3 DEF Evict
<1>11. Keeps(d)
  BY <1>7, <1>8, <1>9, <1>10, Steps
<1>12. row'[d].status = "none" /\ posts'[d] = 0
  BY <1>3, <1>11 DEF Keeps, RowKeeps, CountKeeps
<1>13. \A n \in Slots : job'[d][n] = "none"
  BY <1>3, <1>6, <1>11 DEF Keeps, JobKeeps
<1>14. \A n \in Slots : ~Holding(d, n)'
  BY <1>3, <1>11 DEF Keeps, HeldKeeps, Unsettled
<1> QED
  BY <1>1, <1>12, <1>13, <1>14

LEMMA InvStep == Inv /\ [Next]_vars => Inv'
<1> SUFFICES ASSUME Inv, [Next]_vars PROVE Inv'
  OBVIOUS
<1>1. TypeOK /\ OwnJobs /\ Untouched /\ TypeOK'
  BY TypesStep DEF Inv
<1>2. OwnJobs' /\ Untouched'
  BY <1>1, OwnJobsStep, UntouchedStep
<1>3. ASSUME NEW d \in Deliveries PROVE Sound(d)'
  BY <1>1, SoundNext DEF Inv
<1> QED
  BY <1>1, <1>2, <1>3 DEF Inv, Deliveries

-----------------------------------------------------------------------------
(* The inductive invariant, for any number of events, webhooks, workers,     *)
(* sweeps and faults and any MAX_ATTEMPTS.                                   *)
THEOREM Invariance == Spec => []Inv
<1>1. Init => Inv
  BY InitInv
<1>2. Inv /\ [Next]_vars => Inv'
  BY InvStep
<1> QED
  BY <1>1, <1>2, PTL DEF Spec

(* The types hold, failures included: no job beyond the last attempt is ever *)
(* queued, no row goes past MAX_ATTEMPTS (webhooks.service.ts:346-358).      *)
THEOREM WebhookTypes == Spec => []TypeOK
<1>1. Inv => TypeOK
  BY DEF Inv
<1> QED
  BY <1>1, Invariance, PTL

(* Without failed calls and stopped processes a raced requeue is a no-op     *)
(* (webhooks.service.ts:185-193).                                            *)
THEOREM RacedRequeues == Spec => []RacedRequeueIsNoOp
<1>1. ASSUME Inv, faults = 0, NEW d \in Deliveries PROVE OwnAttempt(d)
  BY <1>1 DEF Inv, Sound, Raced, Clean
<1>2. Inv => RacedRequeueIsNoOp
  BY <1>1 DEF RacedRequeueIsNoOp, OneAttempt, OwnAttempt
<1> QED
  BY <1>2, Invariance, PTL

(* An endpoint gets at most MAX_ATTEMPTS requests for a delivery, and as     *)
(* many again for each failed call or stopped process, however the sweep's   *)
(* claims, the raced jobs and the forgotten ones fall                        *)
(* (webhooks.service.ts:185-193, 346-358).                                   *)
THEOREM AttemptsArePaidFor == Spec => []AttemptsPaidFor
<1>1. ASSUME Inv, NEW d \in Deliveries PROVE posts[d] <= Paid
  <2>1. TypeOK /\ Sound(d)
    BY <1>1 DEF Inv
  <2>2. PICK p, k : p = Paid /\ p \in Nat /\ k = posts[d] /\ k \in Nat
    BY <2>1, Paying DEF TypeOK
  <2>3. \A b : Unsent(d, b) \in SUBSET Slots
    BY DEF Unsent
  <2>4. PICK b \in Bases : Spend(d, b) <= Paid \/ Spend(d, b) + (MaxAttempts - b) <= Paid
    BY <2>1 DEF Sound, Clean, Covered, Raced
  <2>5. PICK s \in Nat : s = Cardinality(Unsent(d, b))
    BY <2>3, Sizes
  <2>6. k + s <= p \/ k + s + (MaxAttempts - b) <= p
    BY <2>2, <2>4, <2>5 DEF Spend
  <2>7. b \in Nat /\ MaxAttempts - b \in Nat
    BY DEF Bases
  <2> QED
    BY <2>2, <2>5, <2>6, <2>7
<1>2. Inv => AttemptsPaidFor
  BY <1>1 DEF AttemptsPaidFor, Paid
<1> QED
  BY <1>2, Invariance, PTL
=============================================================================
