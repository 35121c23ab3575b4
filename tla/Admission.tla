------------------------------ MODULE Admission ------------------------------
(* The admission of standard runs in an organization whose plan has a        *)
(* monthly limit: the idempotency key, the conversation's row lock and       *)
(* unique index, the advisory hold on the Redis counter, and the durable     *)
(* wall (count the month's ledger entries and open reservations, then        *)
(* reserve), all inside one READ COMMITTED transaction whose writes nobody   *)
(* sees before it commits; then the run's end, the release of the hold after *)
(* that, and the hourly pass over reservations and counter.  Redis is not in *)
(* the transaction and may be unreachable at any call.  A refused or         *)
(* replayed request changes nothing and is no step.  Entries other services  *)
(* add to the ledger only refuse more, and are left out.                     *)
EXTENDS Integers, FiniteSets

CONSTANTS Conversations, Runs, Keys, NoConversation, NoKey, NoRun,
          Tx,             \* transactions in flight
          Limit,          \* monthly_events of the plan
          EarlierEvents,  \* spend events of the month when the model begins
          MaxEvents       \* bound

ASSUME AdmissionAssumption ==
  /\ IsFiniteSet(Conversations) /\ IsFiniteSet(Runs) /\ IsFiniteSet(Tx)
  /\ Conversations # {} /\ Tx # {}
  /\ NoConversation \notin Conversations /\ NoKey \notin Keys /\ NoRun \notin Runs
  /\ {Limit, EarlierEvents, MaxEvents} \subseteq Nat

VARIABLES tx,       \* the requests in flight
          run,      \* runs with their quota reservation
          ledger,   \* runs with a usage ledger entry
          record,   \* the run a succeeded idempotency record answers with
          counter,  \* quota:<org>:agents:<month>:events
          owed,     \* ended runs whose hold is still to be dropped
          events,   \* billing.spend_events of the month
          seen,     \* what the hourly pass read of them, -1 between passes
          late      \* history: runs whose reservation lapsed before they ended

durable == <<run, ledger, record, late>>
redis == <<counter, events, seen>>
vars == <<tx, durable, redis, owed>>

Quota == {"none", "RESERVED", "LAPSED", "EXPIRED", "COMMITTED", "RELEASED"}

TypeOK ==
  /\ tx \in [Tx -> [pc : {"idle", "claimed", "locked", "held", "counted"},
                    conv : Conversations \cup {NoConversation}, key : Keys \cup {NoKey}]]
  /\ run \in [Runs -> [state : {"none", "ACTIVE", "COMPLETED", "ENDED"}, quota : Quota,
                       conv : Conversations \cup {NoConversation}, key : Keys \cup {NoKey}]]
  /\ ledger \subseteq Runs /\ owed \subseteq Runs /\ late \subseteq Runs
  /\ record \in [Keys -> Runs \cup {NoRun}]
  /\ counter \in Nat /\ events \in Nat /\ seen \in Nat \cup {-1}

NoRequest == [pc |-> "idle", conv |-> NoConversation, key |-> NoKey]
NoRow == [state |-> "none", quota |-> "none", conv |-> NoConversation, key |-> NoKey]

Init ==
  /\ tx = [t \in Tx |-> NoRequest]
  /\ run = [r \in Runs |-> NoRow]
  /\ ledger = {} /\ owed = {} /\ late = {}
  /\ record = [k \in Keys |-> NoRun]
  /\ counter = EarlierEvents /\ events = EarlierEvents /\ seen = -1

Active == {r \in Runs : run[r].state = "ACTIVE"}

(* quota_reservations with state RESERVED and expires_at > now(). *)
OpenReservations == {r \in Runs : run[r].quota = "RESERVED"}

(* The transactions past a step. *)
Counted == {t \in Tx : tx[t].pc = "counted"}
Locking(c) == {t \in Tx : tx[t].pc \in {"locked", "held", "counted"} /\ tx[t].conv = c}

Advance(t, from, to) ==
  /\ tx[t].pc = from
  /\ tx' = [tx EXCEPT ![t].pc = to]

(* The transaction ends and its locks go with it. *)
Leave(t) == tx' = [tx EXCEPT ![t] = NoRequest]

-----------------------------------------------------------------------------
(* Mutant: the record is read before it is inserted. *)
ClaimUnlocked(t, c, k) ==
  /\ tx[t].pc = "idle"
  /\ k # NoKey => record[k] = NoRun
  /\ tx' = [tx EXCEPT ![t] = [pc |-> "claimed", conv |-> c, key |-> k]]
  /\ UNCHANGED <<durable, redis, owed>>

(* claimIdempotency: the insert of a key waits for a transaction that has    *)
(* inserted it and not yet ended; a record that is there is replayed, or     *)
(* refused for another request.  An IN_PROGRESS record never outlives its    *)
(* transaction, so none is ever read.                                        *)
Claim(t, c, k) ==
  /\ tx[t].pc = "idle"
  /\ k # NoKey => /\ record[k] = NoRun
                  /\ \A u \in Tx : tx[u].pc = "idle" \/ tx[u].key # k
  /\ tx' = [tx EXCEPT ![t] = [pc |-> "claimed", conv |-> c, key |-> k]]
  /\ UNCHANGED <<durable, redis, owed>>

(* Mutant: no unique index on the active run of a conversation. *)
LockOverActive(t) ==
  /\ Locking(tx[t].conv) = {}
  /\ Advance(t, "claimed", "locked")
  /\ UNCHANGED <<durable, redis, owed>>

(* The conversation FOR UPDATE, and the insert of the run, which             *)
(* uq_runs_one_active_per_conversation refuses while another is active.      *)
Lock(t) ==
  /\ Locking(tx[t].conv) = {}
  /\ \A r \in Active : run[r].conv # tx[t].conv
  /\ Advance(t, "claimed", "locked")
  /\ UNCHANGED <<durable, redis, owed>>

(* quota.hold(): the script checks and increments in one go; when Redis is   *)
(* unreachable the run goes on without a hold.                               *)
Hold(t) ==
  /\ Advance(t, "locked", "held")
  /\ \/ counter < Limit /\ counter' = counter + 1
     \/ UNCHANGED counter
  /\ UNCHANGED <<durable, events, seen, owed>>

(* Mutant: open reservations are not counted. *)
CountLedgerOnly(t) ==
  /\ Cardinality(ledger) < Limit
  /\ Advance(t, "held", "counted")
  /\ UNCHANGED <<durable, redis, owed>>

(* reserveQuota: counts what is committed, and inserts the reservation. *)
Count(t) ==
  /\ Cardinality(ledger) + Cardinality(OpenReservations) < Limit
  /\ Advance(t, "held", "counted")
  /\ UNCHANGED <<durable, redis, owed>>

(* quota.release(): clamped at zero, and given up when Redis is unreachable. *)
Unhold ==
  /\ counter' \in {counter, IF counter = 0 THEN 0 ELSE counter - 1}
  /\ UNCHANGED <<events, seen>>

(* The wall refuses: the hold is dropped and the transaction rolled back. *)
RefuseAtWall(t) ==
  /\ tx[t].pc = "held"
  /\ Cardinality(ledger) + Cardinality(OpenReservations) >= Limit
  /\ Unhold
  /\ Leave(t)
  /\ UNCHANGED <<durable, owed>>

(* The run, its reservation and the idempotency record appear together. *)
Commit(t) ==
  /\ tx[t].pc = "counted"
  /\ \E r \in Runs :
       /\ run[r].state = "none"
       /\ run' = [run EXCEPT ![r] = [state |-> "ACTIVE", quota |-> "RESERVED",
                                     conv |-> tx[t].conv, key |-> tx[t].key]]
       /\ record' = IF tx[t].key = NoKey THEN record
                    ELSE [record EXCEPT ![tx[t].key] = r]
  /\ Leave(t)
  /\ UNCHANGED <<ledger, late, redis, owed>>

(* Any later statement may fail and any process may stop; the Redis plane    *)
(* may refuse.  A reserveQuota that fails drops the hold, whatever its       *)
(* error; a rollback after it takes no hold back.                            *)
Fail(t) ==
  /\ tx[t].pc # "idle"
  /\ \/ tx[t].pc = "held" /\ Unhold
     \/ tx[t].pc # "held" /\ UNCHANGED redis
  /\ Leave(t)
  /\ UNCHANGED <<durable, owed>>

-----------------------------------------------------------------------------
(* settleRunQuota: WHERE state = 'RESERVED', lapsed or not. *)
Settle(r, state, outcome) ==
  run' = [run EXCEPT ![r].state = state,
                     ![r].quota = IF @ \in {"RESERVED", "LAPSED"} THEN outcome ELSE @]

(* completeRun; a run that reports no tokens has no ledger entry. *)
Complete(r) ==
  /\ run[r].state = "ACTIVE"
  /\ Settle(r, "COMPLETED", "COMMITTED")
  /\ ledger' \in {ledger, ledger \cup {r}}
  /\ owed' = owed \cup {r}
  /\ UNCHANGED <<tx, record, late, redis>>

(* cancelRun, failRun, failRunForBudget, and an approval denied or expired. *)
End(r) ==
  /\ run[r].state = "ACTIVE"
  /\ Settle(r, "ENDED", "RELEASED")
  /\ owed' = owed \cup {r}
  /\ UNCHANGED <<tx, ledger, record, late, redis>>

(* The service drops the hold after the commit, unless it stopped between.   *)
Drop(r) ==
  /\ r \in owed
  /\ owed' = owed \ {r}
  /\ Unhold
  /\ UNCHANGED <<tx, durable>>

(* The fifteen minutes of a reservation pass; its run goes on. *)
Lapse(r) ==
  /\ run[r].quota = "RESERVED"
  /\ run' = [run EXCEPT ![r].quota = "LAPSED"]
  /\ late' = late \cup {r}
  /\ UNCHANGED <<tx, ledger, record, redis, owed>>

(* The record's day has passed and the sweep deletes it: its key is free,    *)
(* and a request that uses it is a new one.                                  *)
Purge(k) ==
  /\ record[k] # NoRun
  /\ record' = [record EXCEPT ![k] = NoRun]
  /\ run' = [r \in Runs |-> IF run[r].key = k THEN [run[r] EXCEPT !.key = NoKey]
                            ELSE run[r]]
  /\ UNCHANGED <<tx, ledger, late, redis, owed>>

-----------------------------------------------------------------------------
(* A satellite reports a spend event. *)
Report ==
  /\ events < MaxEvents
  /\ events' = events + 1
  /\ UNCHANGED <<tx, durable, counter, seen, owed>>

ExpireLapsed ==
  /\ \E r \in Runs : run[r].quota = "LAPSED"
  /\ run' = [r \in Runs |-> IF run[r].quota = "LAPSED"
                            THEN [run[r] EXCEPT !.quota = "EXPIRED"] ELSE run[r]]
  /\ UNCHANGED <<tx, ledger, record, late, redis, owed>>

(* reconcileMonth reads the month's events, grouped: no event, no row ... *)
ReadEvents ==
  /\ seen = -1 /\ events > 0
  /\ seen' = events
  /\ UNCHANGED <<tx, durable, counter, events, owed>>

(* Mutant: the counter is only ever raised. *)
ResyncUpward ==
  /\ seen # -1
  /\ counter' = IF counter < seen THEN seen ELSE counter
  /\ seen' = -1
  /\ UNCHANGED <<tx, durable, events, owed>>

(* ... and later sets the counter of each row to it. *)
Resync ==
  /\ seen # -1
  /\ counter' = seen
  /\ seen' = -1
  /\ UNCHANGED <<tx, durable, events, owed>>

-----------------------------------------------------------------------------
Step(t) == Lock(t) \/ Hold(t) \/ Count(t) \/ RefuseAtWall(t) \/ Commit(t) \/ Fail(t)

Next ==
  \/ \E t \in Tx : Step(t) \/ \E c \in Conversations, k \in Keys \cup {NoKey} : Claim(t, c, k)
  \/ \E r \in Runs : Complete(r) \/ End(r) \/ Drop(r) \/ Lapse(r)
  \/ \E k \in Keys : Purge(k)
  \/ Report \/ ExpireLapsed \/ ReadEvents \/ Resync

Spec == Init /\ [][Next]_vars

(* Transactions end (statement and lock timeouts), and the hourly pass runs. *)
FairSpec ==
  /\ Spec
  /\ \A t \in Tx : WF_vars(Step(t))
  /\ WF_vars(ReadEvents) /\ WF_vars(Resync)

-----------------------------------------------------------------------------
(* Two sends with one key make one run, whatever fails and is retried, until *)
(* the key's record is purged, and a replay answers with that run.           *)
OneRunPerKey ==
  \A r \in Runs : run[r].state # "none" /\ run[r].key # NoKey => record[run[r].key] = r

(* The count and the reservation are not serialized between conversations,   *)
(* and a lapsed reservation no longer counts: together they let through at   *)
(* most one run more than the limit for every further transaction in flight  *)
(* and every lapsed run.                                                     *)
WallOvershoot ==
  Cardinality(ledger) + Cardinality(Active) + Cardinality(Counted)
    <= Limit + Cardinality(Tx) - 1 + Cardinality(late)

(* Whatever lapses and however many requests race: one active run of a       *)
(* conversation keeps the overshoot below the number of conversations.       *)
WallAtWorst ==
  Cardinality(ledger) + Cardinality(Active) + Cardinality(Counted)
    <= Limit + Cardinality(Conversations) - 1

(* A hold nobody will drop (the transaction failed after it was taken, the   *)
(* process stopped before the release) does not stay: once nothing runs, the *)
(* counter comes back to the events of the month.                            *)
Quiet == owed = {} /\ Active = {} /\ \A t \in Tx : tx[t].pc = "idle"

HoldsReclaimed == Quiet ~> (counter = events \/ ~Quiet)
=============================================================================
