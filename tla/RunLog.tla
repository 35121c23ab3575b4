------------------------------- MODULE RunLog -------------------------------
(* The event log of one run and the lease that fences its writers.  Every    *)
(* method that locks the run's row is one transaction and one action.        *)
(* engine_sequence is a bigserial: an INSERT draws its number at once, and   *)
(* the row becomes visible at commit.  Under the row lock the two are one    *)
(* step; the notices (a resume, a retrieval, an escalation) are inserted     *)
(* without that lock, so they draw in one step and commit in a later one.    *)
(* A refused call changes nothing and is no step; a stale expected version   *)
(* only refuses more, and is left out.                                       *)
EXTENDS Integers, Sequences, FiniteSets

CONSTANTS Workers,     \* agent-studio:<actor>, the callers of the authority RPCs
          NoOwner,     \* a null runs.lease_owner
          EventIds,    \* event_ids chosen by Studio
          Batches,     \* idempotency keys of append requests
          EventsOf,    \* the event_ids of a request, in order
          Notices,     \* events the Engine inserts without the row lock
          MaxEpoch,    \* bound: leases granted
          MaxDraws     \* bound: numbers below which a notice may draw

Locked == EventIds \cup {"dispatched", "end"}
Ids == Locked \cup Notices

(* The events of a batch are distinct: a repeated event_id is the duplicate  *)
(* of its first occurrence.                                                  *)
ASSUME LogAssumption ==
  /\ NoOwner \notin Workers
  /\ EventIds \cap Notices = {}
  /\ {"dispatched", "end"} \cap (EventIds \cup Notices) = {}
  /\ EventsOf \in [Batches -> Seq(EventIds)]
  /\ \A k \in Batches : \A i, j \in DOMAIN EventsOf[k] :
       EventsOf[k][i] = EventsOf[k][j] => i = j
  /\ {MaxEpoch, MaxDraws} \subseteq Nat

Unbound == -1          \* a capability token without a lease_epoch claim

VARIABLES phase,       \* runs.state: "ACCEPTED", "ACTIVE" or "TERMINAL"
          epoch,       \* runs.lease_epoch
          owner,       \* runs.lease_owner
          lapsed,      \* runs.lease_expires_at is past
          next,        \* the last number drawn from the bigserial
          log,         \* engine_sequence of each committed event, 0 if none
          drawn,       \* the number an uncommitted notice holds, 0 if none
          lastSeq,     \* runs.last_event_sequence
          keys,        \* run_idempotency rows: caller and key
          acked,       \* history: the (event, sequence) pairs answered
          under,       \* history: the claim each Studio event was written under
          token        \* the lease_epoch claim of a worker's capability token

lease == <<epoch, owner, lapsed>>
events == <<next, log, drawn, lastSeq>>
requests == <<keys, acked, under>>
vars == <<phase, lease, events, requests, token>>

Init ==
  /\ phase = "ACCEPTED"
  /\ epoch = 0 /\ owner = NoOwner /\ lapsed = FALSE
  /\ next = 0 /\ lastSeq = 0
  /\ log = [id \in Ids |-> 0]
  /\ drawn = [n \in Notices |-> 0]
  /\ keys = {} /\ acked = {}
  /\ under = [id \in EventIds \cup {"end"} |-> Unbound]
  /\ token = [w \in Workers |-> Unbound]

-----------------------------------------------------------------------------
(* The lease. *)

(* acquireOrRenewRunLease: a compare-and-swap on the epoch and owner that    *)
(* the caller presents.                                                      *)
Acquire(w, expectedEpoch, expectedOwner) ==
  /\ phase # "TERMINAL"
  /\ expectedEpoch = epoch
  /\ owner \in {NoOwner, expectedOwner}
  /\ epoch < MaxEpoch
  /\ epoch' = epoch + 1
  /\ owner' = w
  /\ lapsed' = FALSE
  /\ UNCHANGED <<phase, events, requests, token>>

(* releaseRunLease: the epoch must match, the caller need not be the owner,  *)
(* and the run may be terminal.  The epoch stays.                            *)
Release(leaseEpoch) ==
  /\ leaseEpoch = epoch
  /\ owner' = NoOwner
  /\ lapsed' = FALSE
  /\ UNCHANGED <<phase, epoch, events, requests, token>>

(* Time reaches lease_expires_at. *)
Lapse ==
  /\ owner # NoOwner
  /\ lapsed' = TRUE
  /\ UNCHANGED <<phase, epoch, owner, events, requests, token>>

(* mintRunCapability: a token bound to the epoch of now.  The token a worker *)
(* starts with came with the dispatch and carries no claim.                  *)
Mint(w) ==
  /\ token' = [token EXCEPT ![w] = epoch]
  /\ UNCHANGED <<phase, lease, events, requests>>

(* Mutant: the fence compares with an older epoch too. *)
FencedLoosely(w) == token[w] \in {Unbound} \cup 0 .. epoch

(* assertLeaseFencing: only a claim is compared, never the expiry. *)
Fenced(w) == token[w] \in {Unbound, epoch}

-----------------------------------------------------------------------------
(* Writers that hold the run's row lock. *)

Contents(k) == {EventsOf[k][i] : i \in DOMAIN EventsOf[k]}

Fresh(k) == {id \in Contents(k) : log[id] = 0}

Position(k, id) == CHOOSE i \in DOMAIN EventsOf[k] : EventsOf[k][i] = id

(* Mutant: a known event is written again. *)
RenumberedAll(k) ==
  [id \in Ids |-> IF id \in Contents(k) THEN next + Position(k, id) ELSE log[id]]

(* The numbers a batch draws; an INSERT that meets its event_id draws too. *)
Numbered(k) ==
  [id \in Ids |-> IF id \in Fresh(k) THEN next + Position(k, id) ELSE log[id]]

(* Mutant: the first number of a batch is taken for its last. *)
FirstAfter(fresh) ==
  IF fresh = {} THEN UNCHANGED lastSeq
  ELSE /\ lastSeq' \in {log'[id] : id \in fresh}
       /\ \A id \in fresh : lastSeq' <= log'[id]

(* last_event_sequence after a batch; all numbers before are lower. *)
LastAfter(fresh) ==
  IF fresh = {} THEN UNCHANGED lastSeq
  ELSE /\ lastSeq' \in {log'[id] : id \in fresh}
       /\ \A id \in fresh : log'[id] <= lastSeq'

Answer(ids) == acked' = acked \cup {<<id, log'[id]>> : id \in ids}

(* Mutant: the gates forget that a run may have ended. *)
MayAppendLate(w) == Fenced(w)

MayAppend(w) == phase # "TERMINAL" /\ Fenced(w)

(* appendRunEvents, a key seen for the first time. *)
AppendBatch(w, k) ==
  /\ MayAppend(w)
  /\ <<w, k>> \notin keys
  /\ keys' = keys \cup {<<w, k>>}
  /\ log' = Numbered(k)
  /\ next' = next + Len(EventsOf[k])
  /\ LastAfter(Fresh(k))
  /\ under' = [id \in DOMAIN under |-> IF id \in Fresh(k) THEN token[w] ELSE under[id]]
  /\ Answer(Contents(k))
  /\ UNCHANGED <<phase, lease, drawn, token>>

(* appendRunEvents, a retry: the stored rows are answered again. *)
AppendAgain(w, k) ==
  /\ MayAppend(w)
  /\ <<w, k>> \in keys
  /\ UNCHANGED log
  /\ Answer(Contents(k))
  /\ UNCHANGED <<phase, lease, next, drawn, lastSeq, keys, under, token>>

(* One event under the row lock. *)
Write(id) ==
  /\ next' = next + 1
  /\ log' = [log EXCEPT ![id] = next + 1]
  /\ lastSeq' = next + 1
  /\ UNCHANGED drawn

MarkDispatched ==
  /\ phase = "ACCEPTED"
  /\ phase' = "ACTIVE"
  /\ Write("dispatched")
  /\ UNCHANGED <<lease, requests, token>>

(* commitRunResult and failRun, called by Studio. *)
EndRun(w) ==
  /\ phase # "TERMINAL"
  /\ Fenced(w)
  /\ phase' = "TERMINAL"
  /\ Write("end")
  /\ under' = [under EXCEPT !["end"] = token[w]]
  /\ UNCHANGED <<lease, keys, acked, token>>

(* cancelRun and failRunForBudget, called by people and the watchdog. *)
CancelRun ==
  /\ phase # "TERMINAL"
  /\ phase' = "TERMINAL"
  /\ Write("end")
  /\ UNCHANGED <<lease, requests, token>>

(* A denied or expired approval ends the run and writes no run event. *)
EndSilently ==
  /\ phase = "ACTIVE"
  /\ phase' = "TERMINAL"
  /\ UNCHANGED <<lease, events, requests, token>>

-----------------------------------------------------------------------------
(* Notices: no row lock, no look at the state, last_event_sequence untouched. *)

Draw(n) ==
  /\ log[n] = 0 /\ drawn[n] = 0
  /\ next < MaxDraws
  /\ next' = next + 1
  /\ drawn' = [drawn EXCEPT ![n] = next + 1]
  /\ UNCHANGED <<phase, lease, log, lastSeq, requests, token>>

Publish(n) ==
  /\ drawn[n] # 0
  /\ log' = [log EXCEPT ![n] = drawn[n]]
  /\ drawn' = [drawn EXCEPT ![n] = 0]
  /\ UNCHANGED <<phase, lease, next, lastSeq, requests, token>>

(* The notice's transaction rolls back; its number is lost. *)
Withdraw(n) ==
  /\ drawn[n] # 0
  /\ drawn' = [drawn EXCEPT ![n] = 0]
  /\ UNCHANGED <<phase, lease, next, log, lastSeq, requests, token>>

-----------------------------------------------------------------------------
Studio(w) ==
  \/ \E e \in 0 .. MaxEpoch, o \in Workers \cup {NoOwner} : Acquire(w, e, o)
  \/ Mint(w) \/ EndRun(w)
  \/ \E k \in Batches : AppendBatch(w, k) \/ AppendAgain(w, k)

Notice(n) == Draw(n) \/ Publish(n) \/ Withdraw(n)

Engine == MarkDispatched \/ CancelRun \/ EndSilently \/ Lapse

Next ==
  \/ \E w \in Workers : Studio(w)
  \/ \E e \in 0 .. MaxEpoch : Release(e)
  \/ \E n \in Notices : Notice(n)
  \/ Engine

Spec == Init /\ [][Next]_vars

-----------------------------------------------------------------------------
TypeOK ==
  /\ phase \in {"ACCEPTED", "ACTIVE", "TERMINAL"}
  /\ epoch \in 0 .. MaxEpoch
  /\ owner \in Workers \cup {NoOwner}
  /\ lapsed \in BOOLEAN
  /\ next \in Nat /\ lastSeq \in Nat
  /\ log \in [Ids -> Nat]
  /\ drawn \in [Notices -> Nat]
  /\ keys \subseteq Workers \X Batches
  /\ acked \subseteq EventIds \X Nat
  /\ under \in [EventIds \cup {"end"} -> -1 .. MaxEpoch]
  /\ token \in [Workers -> -1 .. MaxEpoch]

(* Fencing, seen from the log: once an event was written under some epoch,   *)
(* no later number is written under an older one.  A worker deposed by a     *)
(* new lease is out, however its calls and those of its successor interleave *)
(* (pg-run-lease.repository.ts:116, pg-run-events.repository.ts:68).         *)
ClaimsNeverRegress ==
  \A a, b \in EventIds \cup {"end"} :
    (0 < log[a] /\ log[a] < log[b] /\ Unbound \notin {under[a], under[b]})
      => under[a] <= under[b]

(* Every sequence ever answered for an event, at the first call or at any    *)
(* retry, by its author or by another caller of the same event_id, is the    *)
(* number the event is stored under for good: no fabricated zero, no second  *)
(* number (pg-run-events.repository.ts:86, :131).                            *)
AckedIsStored == \A a \in acked : a[2] # 0 /\ log[a[1]] = a[2]

(* The terminal event closes what the row lock guards: no event of Studio    *)
(* or of the dispatch stands after it, and it stands only in an ended run    *)
(* (pg-run-events.repository.ts:65).                                         *)
TerminalEventIsLast ==
  log["end"] # 0 => /\ phase = "TERMINAL"
                    /\ \A id \in Locked : log[id] <= log["end"]

(* runs.last_event_sequence, written by five transactions in three files,    *)
(* some with max() and some without, is the highest number among the events  *)
(* written under the row lock (pg-run-events.repository.ts:157,              *)
(* pg-run.repository.ts:887).                                                *)
LastSequence ==
  /\ \A id \in Locked : log[id] <= lastSeq
  /\ lastSeq # 0 => \E id \in Locked : log[id] = lastSeq

(* The inductive invariant: what the log holds was drawn, no claim is ahead  *)
(* of the run's epoch, and a claimed key has its events stored.              *)
Drawn ==
  /\ \A id \in Ids : log[id] <= next
  /\ \A n \in Notices : drawn[n] <= next
  /\ lastSeq <= next

ClaimsGranted ==
  /\ \A w \in Workers : token[w] <= epoch
  /\ \A id \in EventIds \cup {"end"} : under[id] <= epoch
  /\ phase # "TERMINAL" => under["end"] = Unbound

KeysStored == \A r \in keys : \A id \in Contents(r[2]) : log[id] # 0

IInv ==
  /\ TypeOK /\ Drawn /\ ClaimsGranted /\ KeysStored
  /\ ClaimsNeverRegress /\ AckedIsStored /\ TerminalEventIsLast /\ LastSequence

(* "a deposed or expired holder is rejected" (pg-run-lease.repository.ts:105): *)
(* nothing is written under a lease claim once the lease has expired.        *)
ExpiredHolderRejected ==
  [][\A id \in DOMAIN under :
       (log[id] = 0 /\ log'[id] # 0 /\ lapsed) => under'[id] = Unbound]_vars
=============================================================================
