---------------------------- MODULE RunLogProofs ----------------------------
(* What holds of a run's event log, and of the stream that reads it, for     *)
(* every set of workers, requests, notices, clients and polls and for every  *)
(* bound.                                                                    *)
EXTENDS RunStream, FiniteSetTheorems, TLAPS

(* What a batch writes: its unknown events get numbers above all drawn so    *)
(* far, every other event keeps its own.                                     *)
LEMMA BatchNumbers ==
  ASSUME LogAssumption, TypeOK, NEW k \in Batches
  PROVE  /\ Contents(k) \subseteq EventIds
         /\ Fresh(k) \subseteq Contents(k)
         /\ Len(EventsOf[k]) \in Nat
         /\ Numbered(k) \in [Ids -> Nat]
         /\ \A id \in Fresh(k) : /\ next < Numbered(k)[id]
                                 /\ Numbered(k)[id] <= next + Len(EventsOf[k])
         /\ \A id \in Ids \ Fresh(k) : Numbered(k)[id] = log[id]
         /\ \A id \in Contents(k) : Numbered(k)[id] # 0
<1>1. EventsOf[k] \in Seq(EventIds)
  BY DEF LogAssumption
<1>2. /\ Len(EventsOf[k]) \in Nat
      /\ DOMAIN EventsOf[k] = 1 .. Len(EventsOf[k])
      /\ Contents(k) \subseteq EventIds
      /\ Fresh(k) \subseteq Contents(k)
  BY <1>1 DEF Contents, Fresh
<1>3. ASSUME NEW id \in Contents(k)
      PROVE  Position(k, id) \in 1 .. Len(EventsOf[k])
  <2>1. PICK i \in DOMAIN EventsOf[k] : EventsOf[k][i] = id
    BY <1>3 DEF Contents
  <2>2. Position(k, id) \in DOMAIN EventsOf[k]
    BY <2>1 DEF Position
  <2> QED
    BY <1>2, <2>2
<1>4. Contents(k) \subseteq Ids
  BY <1>2 DEF Ids, Locked
<1>5. log \in [Ids -> Nat] /\ next \in Nat
  BY DEF TypeOK
<1>6. ASSUME NEW id \in Ids
      PROVE  Numbered(k)[id] = IF id \in Fresh(k) THEN next + Position(k, id) ELSE log[id]
  BY DEF Numbered
<1>7. ASSUME NEW id \in Fresh(k)
      PROVE  next < Numbered(k)[id] /\ Numbered(k)[id] <= next + Len(EventsOf[k])
  <2>1. id \in Ids /\ Position(k, id) \in 1 .. Len(EventsOf[k])
    BY <1>2, <1>3, <1>4
  <2> QED
    BY <1>2, <1>5, <1>6, <2>1
<1>8. Numbered(k) \in [Ids -> Nat]
  <2>1. ASSUME NEW id \in Ids
        PROVE  (IF id \in Fresh(k) THEN next + Position(k, id) ELSE log[id]) \in Nat
    BY <1>2, <1>3, <1>5
  <2> QED
    BY <2>1 DEF Numbered
<1>9. ASSUME NEW id \in Contents(k)
      PROVE  Numbered(k)[id] # 0
  <2>1. CASE id \in Fresh(k)
    BY <1>5, <1>7, <1>8, <1>4, <2>1
  <2>2. CASE id \notin Fresh(k)
    BY <1>4, <1>6, <2>2 DEF Fresh
  <2> QED
    BY <2>1, <2>2
<1> QED
  BY <1>2, <1>6, <1>7, <1>8, <1>9

(* One event written under the row lock gets the highest number.             *)
LEMMA OneNumber ==
  ASSUME TypeOK, Drawn, NEW id \in {"dispatched", "end"}, Write(id)
  PROVE  /\ log' \in [Ids -> Nat] /\ next' \in Nat /\ lastSeq' \in Nat
         /\ drawn' = drawn
         /\ next' = next + 1 /\ lastSeq' = next + 1 /\ log'[id] = next + 1
         /\ \A other \in Ids \ {id} : log'[other] = log[other]
         /\ \A other \in Ids : log'[other] <= next + 1
<1>1. id \in Ids
  BY DEF Ids, Locked
<1> QED
  BY <1>1 DEF Write, TypeOK, Drawn

-----------------------------------------------------------------------------
(* The initial state satisfies the invariant.                                *)
LEMMA InitIInv ==
  ASSUME LogAssumption, Init
  PROVE  IInv
<1> USE DEF Init
<1>1. TypeOK
  <2>1. 0 \in 0 .. MaxEpoch /\ -1 \in -1 .. MaxEpoch
    BY DEF LogAssumption
  <2>2. under \in [EventIds \cup {"end"} -> -1 .. MaxEpoch] /\ token \in [Workers -> -1 .. MaxEpoch]
    BY <2>1 DEF Unbound
  <2> QED
    BY <2>1, <2>2 DEF TypeOK
<1>2. Drawn /\ ClaimsGranted /\ KeysStored
  BY DEF Drawn, ClaimsGranted, KeysStored, Unbound
<1>3. ClaimsNeverRegress /\ AckedIsStored
  BY DEF ClaimsNeverRegress, AckedIsStored, Ids, Locked
<1>4. TerminalEventIsLast /\ LastSequence
  BY DEF TerminalEventIsLast, LastSequence, Ids, Locked
<1> QED
  BY <1>1, <1>2, <1>3, <1>4 DEF IInv

(* A new batch: its numbers are above all others and below the next ones,    *)
(* its claim is the run's epoch, and no stored event moves.                  *)
LEMMA AppendBatchInv ==
  ASSUME LogAssumption, IInv, NEW w \in Workers, NEW k \in Batches, AppendBatch(w, k)
  PROVE  IInv'
<1> USE DEF AppendBatch
<1> DEFINE new == Fresh(k)
<1>a. TypeOK /\ Drawn /\ ClaimsGranted /\ KeysStored
  BY DEF IInv
<1>b. /\ Contents(k) \subseteq EventIds
      /\ new \subseteq Contents(k)
      /\ Len(EventsOf[k]) \in Nat
      /\ log' \in [Ids -> Nat]
      /\ \A id \in new : next < log'[id] /\ log'[id] <= next'
      /\ \A id \in Ids \ new : log'[id] = log[id]
      /\ \A id \in Contents(k) : log'[id] # 0
  BY <1>a, BatchNumbers
<1>c. EventIds \subseteq Locked /\ Locked \subseteq Ids
  BY DEF Ids, Locked
<1>d. /\ next \in Nat /\ next' \in Nat /\ next <= next'
      /\ log \in [Ids -> Nat] /\ lastSeq \in Nat
      /\ phase # "TERMINAL" /\ phase' = phase /\ epoch' = epoch
      /\ token[w] \in {Unbound, epoch} /\ token' = token
  <2>1. next \in Nat /\ log \in [Ids -> Nat] /\ lastSeq \in Nat
    BY <1>a DEF TypeOK
  <2>2. next' = next + Len(EventsOf[k])
    OBVIOUS
  <2>3. phase # "TERMINAL" /\ token[w] \in {Unbound, epoch}
    BY DEF MayAppend, Fenced
  <2>4. phase' = phase /\ epoch' = epoch /\ token' = token
    BY DEF lease
  <2> QED
    BY <1>b, <2>1, <2>2, <2>3, <2>4
<1>e. \A id \in Ids : log[id] <= next
  BY <1>a DEF Drawn
<1>f. \A id \in EventIds \cup {"end"} :
        under'[id] = IF id \in new THEN token[w] ELSE under[id]
  BY <1>a DEF TypeOK
<1>g. lastSeq' \in Nat /\ lastSeq' <= next' /\ lastSeq <= lastSeq'
  <2>1. CASE new = {}
    BY <1>a, <1>d, <2>1 DEF LastAfter, Drawn
  <2>2. CASE new # {}
    <3>1. PICK id \in new : lastSeq' = log'[id]
      BY <2>2 DEF LastAfter
    <3> QED
      BY <1>a, <1>b, <1>c, <1>d, <3>1 DEF Drawn
  <2> QED
    BY <2>1, <2>2
<1>1. TypeOK'
  <2>1. keys' \subseteq Workers \X Batches /\ UNCHANGED <<lease, drawn, token>>
    BY <1>a DEF TypeOK
  <2>2. acked' \subseteq EventIds \X Nat
    BY <1>a, <1>b, <1>c DEF TypeOK, Answer
  <2>3. under' \in [EventIds \cup {"end"} -> -1 .. MaxEpoch]
    BY <1>a DEF TypeOK
  <2> QED
    BY <1>a, <1>b, <1>d, <1>g, <2>1, <2>2, <2>3 DEF TypeOK, lease
<1>2. Drawn'
  <2>1. \A id \in Ids : log'[id] <= next'
    BY <1>b, <1>d, <1>e
  <2>2. \A n \in Notices : drawn'[n] <= next'
    BY <1>a, <1>d DEF Drawn, TypeOK
  <2> QED
    BY <1>g, <2>1, <2>2 DEF Drawn
<1>3. ClaimsGranted'
  <2>1. "end" \notin new
    BY <1>b DEF LogAssumption
  <2>2. token[w] <= epoch
    BY <1>a DEF ClaimsGranted
  <2> QED
    BY <1>a, <1>d, <1>f, <2>1, <2>2 DEF ClaimsGranted
<1>4. KeysStored'
  <2> SUFFICES ASSUME NEW r \in keys', NEW id \in Contents(r[2])
               PROVE  log'[id] # 0
    BY DEF KeysStored, Contents
  <2>1. CASE r \in keys
    <3>1. log[id] # 0
      BY <1>a, <2>1 DEF KeysStored
    <3>2. r[2] \in Batches
      BY <1>a, <2>1 DEF TypeOK
    <3>3. id \in Ids
      BY <1>a, <1>c, <3>2, BatchNumbers
    <3> QED
      BY <1>b, <3>1, <3>3 DEF Fresh
  <2>2. CASE r = <<w, k>>
    BY <1>b, <2>2
  <2> QED
    BY <2>1, <2>2
<1>5. ClaimsNeverRegress'
  <2> SUFFICES ASSUME NEW a \in EventIds \cup {"end"}, NEW b \in EventIds \cup {"end"},
                      0 < log'[a], log'[a] < log'[b],
                      Unbound \notin {under'[a], under'[b]}
               PROVE  under'[a] <= under'[b]
    BY DEF ClaimsNeverRegress
  <2>1. a \in Ids /\ b \in Ids
    BY <1>c DEF Locked
  <2>2. under[a] \in Int /\ under[b] \in Int /\ under[a] <= epoch /\ epoch \in Int
    BY <1>a DEF TypeOK, ClaimsGranted
  <2>3. CASE b \in new
    <3>1. under'[b] = epoch
      BY <1>d, <1>f, <2>3
    <3>2. under'[a] \in {token[w], under[a]} /\ Unbound # under'[a]
      BY <1>f
    <3>3. under'[a] <= epoch
      BY <1>d, <2>2, <3>2
    <3> QED
      BY <3>1, <3>3
  <2>4. CASE b \notin new
    <3>1. log'[b] = log[b] /\ log'[b] <= next
      BY <1>b, <1>e, <2>1, <2>4
    <3>2. a \notin new
      BY <1>b, <1>d, <2>1, <3>1
    <3> QED
      BY <1>b, <1>f, <2>1, <2>4, <3>1, <3>2 DEF IInv, ClaimsNeverRegress
  <2> QED
    BY <2>3, <2>4
<1>6. AckedIsStored'
  <2> SUFFICES ASSUME NEW a \in acked'
               PROVE  a[2] # 0 /\ log'[a[1]] = a[2]
    BY DEF AckedIsStored
  <2>1. CASE a \in acked
    <3>1. a[1] \in Ids /\ a[2] # 0 /\ log[a[1]] = a[2]
      BY <1>a, <1>c, <2>1 DEF TypeOK, IInv, AckedIsStored
    <3> QED
      BY <1>b, <3>1 DEF Fresh
  <2>2. CASE a \in {<<id, log'[id]>> : id \in Contents(k)}
    BY <1>b, <2>2
  <2> QED
    BY <2>1, <2>2 DEF Answer
<1>7. TerminalEventIsLast'
  <2>1. log["end"] = 0 /\ "end" \notin new /\ "end" \in Ids
    BY <1>b, <1>d DEF IInv, TerminalEventIsLast, LogAssumption, Ids, Locked
  <2> QED
    BY <1>b, <2>1 DEF TerminalEventIsLast
<1>8. LastSequence'
  <2>1. ASSUME NEW id \in Locked
        PROVE  log'[id] <= lastSeq'
    <3>1. CASE id \in new
      BY <3>1 DEF LastAfter
    <3>2. CASE id \notin new
      <4>1. log'[id] = log[id] /\ log[id] <= lastSeq
        BY <1>b, <1>c, <3>2 DEF IInv, LastSequence
      <4> QED
        BY <1>c, <1>d, <1>g, <4>1
    <3> QED
      BY <3>1, <3>2
  <2>2. lastSeq' # 0 => \E id \in Locked : log'[id] = lastSeq'
    <3>1. CASE new = {}
      <4>1. lastSeq' = lastSeq /\ \A id \in Ids : log'[id] = log[id]
        BY <1>b, <3>1 DEF LastAfter
      <4> QED
        BY <1>c, <4>1 DEF IInv, LastSequence
    <3>2. CASE new # {}
      <4>1. PICK id \in new : lastSeq' = log'[id]
        BY <3>2 DEF LastAfter
      <4> QED
        BY <1>b, <1>c, <4>1
    <3> QED
      BY <3>1, <3>2
  <2> QED
    BY <2>1, <2>2 DEF LastSequence
<1> QED
  BY <1>1, <1>2, <1>3, <1>4, <1>5, <1>6, <1>7, <1>8 DEF IInv

(* A retry writes nothing; what it answers is stored already.                *)
LEMMA AppendAgainInv ==
  ASSUME LogAssumption, IInv, NEW w \in Workers, NEW k \in Batches, AppendAgain(w, k)
  PROVE  IInv'
<1> USE DEF AppendAgain
<1>1. TypeOK /\ KeysStored
  BY DEF IInv
<1>2. Contents(k) \subseteq EventIds /\ EventIds \subseteq Ids
  BY <1>1, BatchNumbers DEF Ids, Locked
<1>3. acked' \subseteq EventIds \X Nat
  BY <1>1, <1>2 DEF TypeOK, Answer
<1>4. AckedIsStored'
  <2> SUFFICES ASSUME NEW a \in acked'
               PROVE  a[2] # 0 /\ log'[a[1]] = a[2]
    BY DEF AckedIsStored
  <2>1. CASE a \in acked
    BY <2>1 DEF IInv, AckedIsStored
  <2>2. CASE a \in {<<id, log'[id]>> : id \in Contents(k)}
    BY <1>1, <2>2 DEF KeysStored
  <2> QED
    BY <2>1, <2>2 DEF Answer
<1> QED
  BY <1>3, <1>4 DEF IInv, TypeOK, Drawn, ClaimsGranted, KeysStored, ClaimsNeverRegress,
                    TerminalEventIsLast, LastSequence, lease, Contents

(* The lease, the tokens and the clock: the log stands still and the epoch   *)
(* does not go back.                                                         *)
LEMMA LeaseInv ==
  ASSUME LogAssumption, IInv, UNCHANGED <<phase, events, requests>>,
         \/ \E w \in Workers, e \in 0 .. MaxEpoch, o \in Workers \cup {NoOwner} : Acquire(w, e, o)
         \/ \E e \in 0 .. MaxEpoch : Release(e)
         \/ \E w \in Workers : Mint(w)
         \/ Lapse
  PROVE  IInv'
<1>a. TypeOK /\ ClaimsGranted
  BY DEF IInv
<1>1. /\ epoch' \in 0 .. MaxEpoch /\ epoch <= epoch'
      /\ owner' \in Workers \cup {NoOwner} /\ lapsed' \in BOOLEAN
      /\ token' \in [Workers -> -1 .. MaxEpoch]
      /\ \A w \in Workers : token'[w] <= epoch'
  <2>0. /\ epoch \in 0 .. MaxEpoch /\ MaxEpoch \in Nat /\ epoch <= epoch
        /\ owner \in Workers \cup {NoOwner} /\ lapsed \in BOOLEAN
        /\ token \in [Workers -> -1 .. MaxEpoch]
        /\ \A w \in Workers : token[w] <= epoch
    BY <1>a DEF TypeOK, LogAssumption, ClaimsGranted
  <2>1. CASE \E w \in Workers, e \in 0 .. MaxEpoch, o \in Workers \cup {NoOwner} : Acquire(w, e, o)
    <3>1. PICK w \in Workers : /\ epoch' = epoch + 1 /\ epoch < MaxEpoch
                               /\ owner' = w /\ lapsed' = FALSE /\ token' = token
      BY <2>1 DEF Acquire
    <3>2. epoch' \in 0 .. MaxEpoch /\ epoch <= epoch'
      BY <2>0, <3>1
    <3>3. ASSUME NEW v \in Workers
          PROVE  token'[v] <= epoch'
      BY <2>0, <3>1, <3>3
    <3> QED
      BY <2>0, <3>1, <3>2, <3>3
  <2>2. CASE \E e \in 0 .. MaxEpoch : Release(e)
    <3>1. epoch' = epoch /\ owner' = NoOwner /\ lapsed' = FALSE /\ token' = token
      BY <2>2 DEF Release
    <3> QED
      BY <2>0, <3>1
  <2>3. CASE \E w \in Workers : Mint(w)
    <3>1. PICK w \in Workers : token' = [token EXCEPT ![w] = epoch]
      BY <2>3 DEF Mint
    <3>2. epoch' = epoch /\ owner' = owner /\ lapsed' = lapsed
      BY <2>3 DEF Mint, lease
    <3>3. epoch \in -1 .. MaxEpoch /\ epoch <= epoch
      BY <2>0
    <3>4. token' \in [Workers -> -1 .. MaxEpoch] /\ \A v \in Workers : token'[v] <= epoch
      BY <2>0, <3>1, <3>3
    <3> QED
      BY <2>0, <3>2, <3>4
  <2>4. CASE Lapse
    <3>1. epoch' = epoch /\ owner' = owner /\ lapsed' = TRUE /\ token' = token
      BY <2>4 DEF Lapse
    <3> QED
      BY <2>0, <3>1
  <2> QED
    BY <2>1, <2>2, <2>3, <2>4
<1>2. TypeOK'
  BY <1>a, <1>1 DEF TypeOK, events, requests
<1>3. ClaimsGranted'
  <2>1. \A id \in EventIds \cup {"end"} : under[id] \in Int /\ under[id] <= epoch
    BY <1>a DEF TypeOK, ClaimsGranted
  <2>2. epoch \in Int /\ epoch' \in Int
    BY <1>1, <1>a DEF TypeOK
  <2> QED
    BY <1>1, <1>a, <2>1, <2>2 DEF ClaimsGranted, requests
<1> QED
  BY <1>2, <1>3 DEF IInv, events, requests, Drawn, KeysStored, ClaimsNeverRegress,
                    AckedIsStored, TerminalEventIsLast, LastSequence, Contents

(* Notices draw above, publish and withdraw beside everything the row lock   *)
(* guards.                                                                   *)
LEMMA NoticeInv ==
  ASSUME LogAssumption, IInv, NEW n \in Notices, Notice(n)
  PROVE  IInv'
<1>a. TypeOK /\ Drawn
  BY DEF IInv
<1>b. n \notin Locked /\ n \notin EventIds \cup {"end"} /\ EventIds \cup {"end"} \subseteq Locked
      /\ Locked \subseteq Ids /\ n \in Ids
  BY DEF LogAssumption, Ids, Locked
<1>c. UNCHANGED <<phase, lease, lastSeq, requests, token>>
  BY DEF Notice, Draw, Publish, Withdraw
<1>1. /\ next' \in Nat /\ log' \in [Ids -> Nat] /\ drawn' \in [Notices -> Nat]
      /\ next <= next'
      /\ \A id \in Ids \ {n} : log'[id] = log[id]
  <2>1. CASE Draw(n)
    BY <1>a, <2>1 DEF Draw, TypeOK
  <2>2. CASE Publish(n)
    <3>1. next \in Nat /\ log \in [Ids -> Nat] /\ drawn \in [Notices -> Nat]
      BY <1>a DEF TypeOK
    <3>2. drawn[n] \in Nat /\ next <= next
      BY <3>1
    <3> QED
      BY <2>2, <3>1, <3>2 DEF Publish
  <2>3. CASE Withdraw(n)
    BY <1>a, <2>3 DEF Withdraw, TypeOK
  <2> QED
    BY <2>1, <2>2, <2>3 DEF Notice
<1>2. TypeOK'
  BY <1>a, <1>c, <1>1 DEF TypeOK, lease, requests
<1>3. Drawn'
  <2>1. CASE Draw(n)
    BY <1>a, <2>1 DEF Draw, TypeOK, Drawn
  <2>2. CASE Publish(n)
    BY <1>a, <2>2 DEF Publish, TypeOK, Drawn
  <2>3. CASE Withdraw(n)
    BY <1>a, <2>3 DEF Withdraw, TypeOK, Drawn
  <2> QED
    BY <2>1, <2>2, <2>3 DEF Notice
<1>4. \A id \in Locked : log'[id] = log[id]
  BY <1>b, <1>1
<1>5. ClaimsGranted' /\ ClaimsNeverRegress'
  BY <1>b, <1>c, <1>4 DEF IInv, ClaimsGranted, ClaimsNeverRegress, lease, requests
<1>6. KeysStored'
  <2>1. keys \subseteq Workers \X Batches
    BY <1>a DEF TypeOK
  <2>2. ASSUME NEW r \in keys
        PROVE  Contents(r[2]) \subseteq Locked
    <3>1. r[2] \in Batches
      BY <2>1
    <3>2. Contents(r[2]) \subseteq EventIds
      BY <1>a, <3>1, BatchNumbers
    <3> QED
      BY <1>b, <3>2
  <2> QED
    BY <1>c, <1>4, <2>2 DEF IInv, KeysStored, requests, Contents
<1>7. AckedIsStored'
  <2>1. \A a \in acked : a[1] \in Locked
    BY <1>a, <1>b DEF TypeOK
  <2> QED
    BY <1>c, <1>4, <2>1 DEF IInv, AckedIsStored, requests
<1>8. TerminalEventIsLast' /\ LastSequence'
  <2>1. "end" \in Locked
    BY DEF Locked
  <2> QED
    BY <1>c, <1>4, <2>1 DEF IInv, TerminalEventIsLast, LastSequence
<1> QED
  BY <1>2, <1>3, <1>5, <1>6, <1>7, <1>8 DEF IInv

(* The events the Engine writes under the row lock: the dispatch, and the    *)
(* end with the claim of whoever ended the run.                              *)
LEMMA WriteInv ==
  ASSUME LogAssumption, IInv, NEW id \in {"dispatched", "end"}, Write(id),
         UNCHANGED <<lease, keys, acked, token>>,
         phase # "TERMINAL",
         phase' \in {"ACTIVE", "TERMINAL"},
         id = "end" <=> phase' = "TERMINAL",
         \/ UNCHANGED under
         \/ /\ id = "end"
            /\ \E w \in Workers : Fenced(w) /\ under' = [under EXCEPT !["end"] = token[w]]
  PROVE  IInv'
<1>a. TypeOK /\ Drawn /\ ClaimsGranted
  BY DEF IInv
<1>b. /\ log' \in [Ids -> Nat] /\ next' \in Nat /\ lastSeq' \in Nat /\ drawn' = drawn
      /\ next' = next + 1 /\ lastSeq' = next + 1 /\ log'[id] = next + 1
      /\ \A other \in Ids \ {id} : log'[other] = log[other]
      /\ \A other \in Ids : log'[other] <= next + 1
  BY <1>a, OneNumber
<1>c. /\ EventIds \cup {"end"} \subseteq Locked /\ Locked \subseteq Ids /\ id \in Locked
      /\ id \notin EventIds
  BY DEF LogAssumption, Ids, Locked
<1>d. log["end"] = 0 /\ under["end"] = Unbound /\ next \in Nat /\ epoch' = epoch /\ epoch \in Nat
  BY <1>a DEF IInv, TerminalEventIsLast, ClaimsGranted, TypeOK, lease
<1>e. /\ under' \in [EventIds \cup {"end"} -> -1 .. MaxEpoch]
      /\ \A a \in EventIds : under'[a] = under[a]
      /\ under'["end"] \in {Unbound, epoch}
      /\ id # "end" => under' = under
  <2>1. CASE UNCHANGED under
    BY <1>a, <1>d, <2>1 DEF TypeOK
  <2>2. CASE id = "end" /\ \E w \in Workers : Fenced(w) /\ under' = [under EXCEPT !["end"] = token[w]]
    <3>1. PICK w \in Workers : Fenced(w) /\ under' = [under EXCEPT !["end"] = token[w]]
      BY <2>2
    <3>2. token[w] \in -1 .. MaxEpoch /\ token[w] \in {Unbound, epoch}
      BY <1>a, <3>1 DEF TypeOK, Fenced
    <3>3. "end" \notin EventIds
      BY DEF LogAssumption
    <3>4. under \in [EventIds \cup {"end"} -> -1 .. MaxEpoch]
      BY <1>a DEF TypeOK
    <3> QED
      BY <2>2, <3>1, <3>2, <3>3, <3>4
  <2> QED
    BY <2>1, <2>2
<1>1. TypeOK'
  BY <1>a, <1>b, <1>e DEF TypeOK, lease
<1>2. Drawn'
  <2>1. \A n \in Notices : drawn[n] \in Nat /\ drawn[n] <= next
    BY <1>a DEF Drawn, TypeOK
  <2> QED
    BY <1>b, <1>d, <2>1 DEF Drawn
<1>3. ClaimsGranted'
  <2>1. \A w \in Workers : token'[w] <= epoch'
    BY <1>a, <1>d DEF ClaimsGranted
  <2>2. \A a \in EventIds \cup {"end"} : under'[a] <= epoch'
    BY <1>a, <1>d, <1>e DEF ClaimsGranted, Unbound
  <2>3. phase' # "TERMINAL" => under'["end"] = Unbound
    BY <1>d, <1>e
  <2> QED
    BY <2>1, <2>2, <2>3 DEF ClaimsGranted
<1>4. KeysStored'
  <2>1. \A r \in keys : Contents(r[2]) \subseteq EventIds
    BY <1>a, BatchNumbers DEF TypeOK
  <2>2. \A other \in EventIds : log'[other] = log[other]
    BY <1>b, <1>c
  <2> QED
    BY <2>1, <2>2 DEF IInv, KeysStored, Contents
<1>5. ClaimsNeverRegress'
  <2> SUFFICES ASSUME NEW a \in EventIds \cup {"end"}, NEW b \in EventIds \cup {"end"},
                      0 < log'[a], log'[a] < log'[b],
                      Unbound \notin {under'[a], under'[b]}
               PROVE  under'[a] <= under'[b]
    BY DEF ClaimsNeverRegress
  <2>1. a \in Ids /\ b \in Ids
    BY <1>c
  <2>2. a # id
    BY <1>b, <2>1, <1>d
  <2>3. CASE b = id
    <3>1. under'[b] = epoch
      BY <1>c, <1>e, <2>3
    <3>2. a \in EventIds /\ under'[a] = under[a] /\ under[a] <= epoch
      BY <1>a, <1>c, <1>e, <2>2, <2>3 DEF ClaimsGranted
    <3> QED
      BY <3>1, <3>2
  <2>4. CASE b # id
    <3>1. log'[a] = log[a] /\ log'[b] = log[b]
      BY <1>b, <2>1, <2>2, <2>4
    <3>2. a # "end" /\ b # "end"
      <4>1. log'[a] \in Nat /\ log'[b] \in Nat
        BY <1>b, <2>1
      <4>2. log[a] # 0 /\ log[b] # 0
        BY <3>1, <4>1
      <4> QED
        BY <1>d, <4>2
    <3> QED
      BY <1>e, <3>1, <3>2 DEF IInv, ClaimsNeverRegress
  <2> QED
    BY <2>3, <2>4
<1>6. AckedIsStored'
  <2>1. \A a \in acked : a[1] \in EventIds
    BY <1>a DEF TypeOK
  <2> QED
    BY <1>b, <1>c, <2>1 DEF IInv, AckedIsStored
<1>7. TerminalEventIsLast'
  <2>1. CASE id = "end"
    BY <1>b, <1>c, <2>1 DEF TerminalEventIsLast
  <2>2. CASE id # "end"
    <3>1. log'["end"] = 0
      BY <1>b, <1>c, <1>d, <2>2
    <3> QED
      BY <3>1 DEF TerminalEventIsLast
  <2> QED
    BY <2>1, <2>2
<1>8. LastSequence'
  BY <1>b, <1>c DEF LastSequence
<1> QED
  BY <1>1, <1>2, <1>3, <1>4, <1>5, <1>6, <1>7, <1>8 DEF IInv

(* Every step keeps the invariant.                                           *)
LEMMA StepIInv ==
  ASSUME LogAssumption, IInv, [Next]_vars
  PROVE  IInv'
<1>1. ASSUME NEW w \in Workers, Studio(w)
      PROVE  IInv'
  <2>1. CASE \E e \in 0 .. MaxEpoch, o \in Workers \cup {NoOwner} : Acquire(w, e, o)
    <3>1. UNCHANGED <<phase, events, requests>>
      BY <2>1 DEF Acquire
    <3> QED
      BY <2>1, <3>1, LeaseInv
  <2>2. CASE Mint(w)
    <3>1. UNCHANGED <<phase, events, requests>>
      BY <2>2 DEF Mint
    <3> QED
      BY <2>2, <3>1, LeaseInv
  <2>3. CASE EndRun(w)
    BY <2>3, WriteInv DEF EndRun
  <2>4. ASSUME NEW k \in Batches, AppendBatch(w, k) \/ AppendAgain(w, k)
        PROVE  IInv'
    BY <2>4, AppendBatchInv, AppendAgainInv
  <2> QED
    BY <1>1, <2>1, <2>2, <2>3, <2>4 DEF Studio
<1>2. CASE \E e \in 0 .. MaxEpoch : Release(e)
  <2>1. UNCHANGED <<phase, events, requests>>
    BY <1>2 DEF Release
  <2> QED
    BY <1>2, <2>1, LeaseInv
<1>3. ASSUME NEW n \in Notices, Notice(n)
      PROVE  IInv'
  BY <1>3, NoticeInv
<1>4. CASE MarkDispatched
  BY <1>4, WriteInv DEF MarkDispatched, requests
<1>5. CASE CancelRun
  BY <1>5, WriteInv DEF CancelRun, requests
<1>6. CASE EndSilently
  BY <1>6 DEF EndSilently, IInv, TypeOK, Drawn, ClaimsGranted, KeysStored, ClaimsNeverRegress,
              AckedIsStored, TerminalEventIsLast, LastSequence, lease, events, requests, Contents
<1>7. CASE Lapse
  <2>1. UNCHANGED <<phase, events, requests>>
    BY <1>7 DEF Lapse
  <2> QED
    BY <1>7, <2>1, LeaseInv
<1>8. CASE UNCHANGED vars
  BY <1>8 DEF vars, IInv, TypeOK, Drawn, ClaimsGranted, KeysStored, ClaimsNeverRegress,
              AckedIsStored, TerminalEventIsLast, LastSequence, lease, events, requests, Contents
<1> QED
  BY <1>1, <1>2, <1>3, <1>4, <1>5, <1>6, <1>7, <1>8 DEF Next, Engine

-----------------------------------------------------------------------------
(* The invariant holds of every behaviour of the log.                        *)
THEOREM LogInvariant ==
  ASSUME LogAssumption
  PROVE  Spec => []IInv
<1>1. Init => IInv
  BY InitIInv
<1>2. IInv /\ [Next]_vars => IInv'
  BY StepIInv
<1> QED
  BY <1>1, <1>2, PTL DEF Spec

(* The log's variables keep their types.                                     *)
THEOREM TypeCorrect ==
  ASSUME LogAssumption
  PROVE  Spec => []TypeOK
<1>1. IInv => TypeOK
  BY DEF IInv
<1> QED
  BY <1>1, LogInvariant, PTL

(* A worker deposed by a later lease writes nothing more under its claim     *)
(* (pg-run-lease.repository.ts:116).                                         *)
THEOREM Fencing ==
  ASSUME LogAssumption
  PROVE  Spec => []ClaimsNeverRegress
<1>1. IInv => ClaimsNeverRegress
  BY DEF IInv
<1> QED
  BY <1>1, LogInvariant, PTL

(* Every sequence answered for an event is the one it is stored under        *)
(* (pg-run-events.repository.ts:86, :131).                                   *)
THEOREM AnswersStand ==
  ASSUME LogAssumption
  PROVE  Spec => []AckedIsStored
<1>1. IInv => AckedIsStored
  BY DEF IInv
<1> QED
  BY <1>1, LogInvariant, PTL

(* The terminal event is the last one written under the row lock             *)
(* (pg-run-events.repository.ts:65).                                         *)
THEOREM NothingAfterTheEnd ==
  ASSUME LogAssumption
  PROVE  Spec => []TerminalEventIsLast
<1>1. IInv => TerminalEventIsLast
  BY DEF IInv
<1> QED
  BY <1>1, LogInvariant, PTL

(* runs.last_event_sequence is the highest number written under the row lock *)
(* (pg-run.repository.ts:887).                                               *)
THEOREM SequenceIsLast ==
  ASSUME LogAssumption
  PROVE  Spec => []LastSequence
<1>1. IInv => LastSequence
  BY DEF IInv
<1> QED
  BY <1>1, LogInvariant, PTL
-----------------------------------------------------------------------------
(* The stream.  First the order it reads in.                                 *)

(* The published numbers, finite as all of them were drawn.                  *)
LEMMA PublishedFinite ==
  ASSUME TypeOK, Drawn, NEW S \in SUBSET Published
  PROVE  IsFiniteSet(S) /\ S \subseteq 1 .. next /\ next \in Nat
<1>1. S \subseteq 1 .. next /\ next \in Nat
  BY DEF Published, TypeOK, Drawn
<1>2. IsFiniteSet(1 .. next)
  BY <1>1, FS_Interval
<1> QED
  BY <1>1, <1>2, FS_Subset

(* A rank counts the lower members: it grows with the member.                *)
LEMMA Ranks ==
  ASSUME NEW S \in SUBSET Nat, IsFiniteSet(S)
  PROVE  /\ Cardinality(S) \in Nat
         /\ \A x \in S : Rank(S, x) \in 0 .. Cardinality(S) - 1
         /\ \A x, y \in S : x < y => Rank(S, x) < Rank(S, y)
<1>1. Cardinality(S) \in Nat
  BY FS_CardinalityType
<1>2. ASSUME NEW x \in S
      PROVE  /\ IsFiniteSet({z \in S : z < x})
             /\ Rank(S, x) \in Nat
             /\ Rank(S, x) < Cardinality(S)
  <2> DEFINE L == {z \in S : z < x}
  <2>1. L \subseteq S /\ L # S
    BY <1>2
  <2>2. IsFiniteSet(L) /\ Cardinality(L) <= Cardinality(S) /\ Cardinality(L) # Cardinality(S)
    BY <2>1, FS_Subset
  <2>3. Cardinality(L) \in Nat
    BY <2>2, FS_CardinalityType
  <2> QED
    BY <1>1, <2>2, <2>3 DEF Rank
<1>3. ASSUME NEW x \in S, NEW y \in S, x < y
      PROVE  Rank(S, x) < Rank(S, y)
  <2> DEFINE L == {z \in S : z < x}
             H == {z \in S : z < y}
  <2>1. L \subseteq H /\ x \in H /\ x \notin L
    <3>1. x \in Nat /\ y \in Nat /\ ~(x < x)
      OBVIOUS
    <3>2. \A z \in S : z \in Nat /\ (z < x => z < y)
      BY <1>3, <3>1
    <3> QED
      BY <1>3, <3>1, <3>2
  <2>2. IsFiniteSet(H) /\ IsFiniteSet(L)
    BY <1>2
  <2>3. Cardinality(L) <= Cardinality(H) /\ Cardinality(L) # Cardinality(H)
    <3> HIDE DEF L, H
    <3> QED
      BY <2>1, <2>2, FS_Subset
  <2>4. Cardinality(L) \in Nat /\ Cardinality(H) \in Nat
    BY <2>2, FS_CardinalityType
  <2> QED
    BY <2>3, <2>4 DEF Rank
<1>4. ASSUME NEW x \in S
      PROVE  Rank(S, x) \in 0 .. Cardinality(S) - 1
  <2>1. Rank(S, x) \in Nat /\ Rank(S, x) < Cardinality(S)
    BY <1>2
  <2> QED
    BY <1>1, <2>1
<1> QED
  BY <1>1, <1>3, <1>4

(* Every place below the size of a set is the rank of one member.            *)
LEMMA RanksOnto ==
  ASSUME NEW S \in SUBSET Nat, IsFiniteSet(S), NEW i \in 1 .. Cardinality(S)
  PROVE  \E x \in S : Rank(S, x) = i - 1
<1> DEFINE T == 1 .. Cardinality(S)
           f == [x \in S |-> Rank(S, x) + 1]
<1>1. f \in Injection(S, T)
  <2>1. f \in [S -> T]
    BY Ranks
  <2>2. ASSUME NEW x \in S, NEW y \in S, f[x] = f[y]
        PROVE  x = y
    <3>1. Rank(S, x) \in Nat /\ Rank(S, y) \in Nat /\ Rank(S, x) = Rank(S, y)
      BY <2>2, Ranks
    <3>2. ~(x < y) /\ ~(y < x)
      BY <3>1, Ranks
    <3> QED
      BY <3>2
  <2> QED
    BY <2>1, <2>2 DEF Injection, IsInjective
<1>2. IsFiniteSet(T) /\ Cardinality(T) = Cardinality(S)
  <2>1. Cardinality(S) \in Nat
    BY Ranks
  <2> QED
    BY <2>1, FS_Interval
<1>3. f \in Surjection(S, T)
  <2> HIDE DEF f, T
  <2> QED
    BY <1>1, <1>2, FS_Injection
<1>4. PICK x \in S : f[x] = i
  BY <1>3 DEF Surjection
<1> QED
  BY <1>4, Ranks

(* Ordered lists a finite set of numbers in increasing order.                *)
LEMMA OrderedLists ==
  ASSUME NEW S \in SUBSET Nat, IsFiniteSet(S)
  PROVE  /\ Ordered(S) \in Seq(S)
         /\ Len(Ordered(S)) = Cardinality(S)
         /\ \A i \in 1 .. Cardinality(S) : Ordered(S)[i] \in S /\ Rank(S, Ordered(S)[i]) = i - 1
         /\ \A x \in S : Rank(S, x) + 1 \in 1 .. Cardinality(S) /\ Ordered(S)[Rank(S, x) + 1] = x
         /\ \A i, j \in 1 .. Cardinality(S) : i < j <=> Ordered(S)[i] < Ordered(S)[j]
<1>1. Cardinality(S) \in Nat
  BY Ranks
<1>2. ASSUME NEW i \in 1 .. Cardinality(S)
      PROVE  Ordered(S)[i] \in S /\ Rank(S, Ordered(S)[i]) = i - 1
  BY RanksOnto DEF Ordered
<1>3. Ordered(S) \in [1 .. Cardinality(S) -> S]
  BY <1>2 DEF Ordered
<1>4. Ordered(S) \in Seq(S) /\ Len(Ordered(S)) = Cardinality(S)
  BY <1>1, <1>3
<1>5. ASSUME NEW x \in S
      PROVE  Rank(S, x) + 1 \in 1 .. Cardinality(S) /\ Ordered(S)[Rank(S, x) + 1] = x
  <2> DEFINE i == Rank(S, x) + 1
             y == Ordered(S)[i]
  <2>1. i \in 1 .. Cardinality(S) /\ Rank(S, x) \in Nat
    BY <1>1, Ranks
  <2>2. y \in S /\ Rank(S, y) = Rank(S, x)
    BY <1>2, <2>1
  <2> HIDE DEF y
  <2>3. x < y => Rank(S, x) < Rank(S, y)
    BY <2>2, Ranks
  <2>4. y < x => Rank(S, y) < Rank(S, x)
    BY <2>2, Ranks
  <2>5. x \in Nat /\ y \in Nat /\ ~(x < y) /\ ~(y < x)
    BY <2>1, <2>2, <2>3, <2>4
  <2>6. x = y
    BY <2>5
  <2> QED
    BY <2>1, <2>6 DEF y
<1>6. ASSUME NEW i \in 1 .. Cardinality(S), NEW j \in 1 .. Cardinality(S)
      PROVE  i < j <=> Ordered(S)[i] < Ordered(S)[j]
  <2> DEFINE x == Ordered(S)[i]
             y == Ordered(S)[j]
  <2>1. x \in S /\ y \in S /\ Rank(S, x) = i - 1 /\ Rank(S, y) = j - 1
    BY <1>2
  <2> HIDE DEF x, y
  <2>2. (x < y => i < j) /\ (y < x => j < i)
    <3>1. (x < y => i - 1 < j - 1) /\ (y < x => j - 1 < i - 1)
      BY <2>1, Ranks
    <3> QED
      BY <1>1, <3>1
  <2>3. x = y => i = j
    BY <1>1, <2>1
  <2>4. x \in Nat /\ y \in Nat
    BY <2>1
  <2> QED
    BY <1>1, <2>2, <2>3, <2>4 DEF x, y
<1> QED
  BY <1>2, <1>4, <1>5, <1>6
(* What a poll reads: the oldest published numbers above its cursor, without *)
(* a gap, and all of them unless the batch is full.                          *)
LEMMA BatchRead ==
  ASSUME StreamAssumption, TypeOK, Drawn, NEW from \in Nat
  PROVE  /\ After(from) \in Seq(Nat)
         /\ \A i \in 1 .. Len(After(from)) : After(from)[i] \in 1 .. next
         /\ \A m \in Published : \A i \in 1 .. Len(After(from)) :
              (from < m /\ m <= After(from)[i]) => \E j \in 1 .. i : After(from)[j] = m
         /\ Len(After(from)) < BatchLimit =>
              \A m \in Published : from < m => \E j \in 1 .. Len(After(from)) : After(from)[j] = m
<1> DEFINE S == {s \in Published : s > from}
<1>1. IsFiniteSet(S) /\ S \subseteq 1 .. next /\ S \in SUBSET Nat
  BY PublishedFinite
<1>2. PICK all : all = Ordered(S)
  OBVIOUS
<1>3. PICK size : size = Cardinality(S)
  OBVIOUS
<1>4. /\ all \in Seq(S) /\ Len(all) = size /\ size \in Nat
      /\ \A i \in 1 .. size : all[i] \in S
      /\ \A m \in S : \E i \in 1 .. size : all[i] = m
      /\ \A i, j \in 1 .. size : i < j <=> all[i] < all[j]
  BY <1>1, <1>2, <1>3, OrderedLists, FS_CardinalityType
<1>5. PICK n : n = IF size < BatchLimit THEN size ELSE BatchLimit
  OBVIOUS
<1>6. After(from) = SubSeq(all, 1, n)
  BY <1>2, <1>4, <1>5 DEF After
<1>7. n \in 0 .. size /\ (n < BatchLimit => n = size)
  BY <1>4, <1>5 DEF StreamAssumption
<1> HIDE DEF S
<1>8. /\ After(from) \in Seq(S) /\ Len(After(from)) = n
      /\ \A i \in 1 .. n : After(from)[i] = all[i]
  BY <1>4, <1>6, <1>7
<1>9. ASSUME NEW m \in Published, NEW i \in 1 .. n, from < m, m <= After(from)[i]
      PROVE  \E j \in 1 .. i : After(from)[j] = m
  <2>1. m \in S
    BY <1>9 DEF S
  <2>2. PICK j \in 1 .. size : all[j] = m
    BY <1>4, <2>1
  <2>3. ~(i < j)
    <3>1. i \in 1 .. size /\ all[i] \in Nat /\ m \in Nat /\ m <= all[i]
      <4>1. i \in 1 .. size /\ After(from)[i] = all[i]
        BY <1>4, <1>7, <1>8
      <4>2. all[i] \in S
        BY <1>4, <4>1
      <4> QED
        BY <1>1, <1>9, <2>1, <4>1, <4>2
    <3> QED
      BY <1>4, <2>2, <3>1
  <2>4. j \in 1 .. i /\ j \in 1 .. n
    BY <1>7, <2>3
  <2> QED
    BY <1>8, <2>2, <2>4
<1>10. ASSUME n < BatchLimit, NEW m \in Published, from < m
       PROVE  \E j \in 1 .. n : After(from)[j] = m
  <2>1. m \in S
    BY <1>10 DEF S
  <2> QED
    BY <1>4, <1>7, <1>8, <1>10, <2>1
<1>11. After(from) \in Seq(Nat) /\ \A i \in 1 .. n : After(from)[i] \in 1 .. next
  <2>1. PICK rows \in Seq(S) : rows = After(from)
    BY <1>8
  <2>2. rows \in Seq(Nat) /\ Len(rows) = n
    <3>1. Len(rows) = n /\ n \in Nat
      BY <1>4, <1>7, <1>8, <2>1
    <3>2. rows \in [1 .. n -> S] /\ DOMAIN rows = 1 .. n
      BY <2>1, <3>1
    <3>3. rows \in [1 .. n -> Nat]
      BY <1>1, <3>2
    <3> QED
      BY <3>1, <3>3
  <2>3. \A i \in 1 .. n : rows[i] \in S
    BY <2>1, <2>2
  <2> QED
    BY <1>1, <2>1, <2>2, <2>3
<1> QED
  BY <1>8, <1>9, <1>10, <1>11
-----------------------------------------------------------------------------
(* The log under the stream: a new locked event gets a number above all      *)
(* drawn before, and an ended run gets none.                                 *)
LEMMA LogMoves ==
  ASSUME LogAssumption, IInv, [Next]_vars
  PROVE  /\ next \in Nat /\ next' \in Nat /\ next <= next'
         /\ \A m \in LockedNumbers' : m \in LockedNumbers \/ next < m
         /\ phase = "TERMINAL" => phase' = "TERMINAL" /\ LockedNumbers' \subseteq LockedNumbers
<1>a. TypeOK /\ Drawn
  BY DEF IInv
<1>b. IInv'
  BY StepIInv
<1>c. next \in Nat /\ next' \in Nat /\ next <= next /\ Locked \subseteq Ids
      /\ log \in [Ids -> Nat]
  BY <1>a, <1>b DEF IInv, TypeOK, Ids
<1> DEFINE Moves == /\ next <= next'
                    /\ \A id \in Locked : log'[id] = log[id] \/ next < log'[id]
                    /\ phase = "TERMINAL" => /\ phase' = "TERMINAL"
                                              /\ \A id \in Locked : log'[id] = log[id]
<1>1. ASSUME UNCHANGED <<phase, events>>
      PROVE  Moves
  BY <1>1, <1>c DEF events
<1>2. ASSUME NEW w \in Workers, NEW k \in Batches, AppendBatch(w, k)
      PROVE  Moves
  <2>1. /\ Len(EventsOf[k]) \in Nat
        /\ \A id \in Fresh(k) : next < Numbered(k)[id]
        /\ \A id \in Ids \ Fresh(k) : Numbered(k)[id] = log[id]
    BY <1>a, BatchNumbers
  <2>2. phase # "TERMINAL" /\ log' = Numbered(k) /\ next' = next + Len(EventsOf[k])
    BY <1>2 DEF AppendBatch, MayAppend
  <2> QED
    BY <1>c, <2>1, <2>2
<1>3. ASSUME NEW w \in Workers, NEW k \in Batches, AppendAgain(w, k)
      PROVE  Moves
  BY <1>c, <1>3 DEF AppendAgain
<1>4. ASSUME phase # "TERMINAL", NEW id \in {"dispatched", "end"}, Write(id)
      PROVE  Moves
  <2>1. /\ next' = next + 1 /\ log'[id] = next + 1
        /\ \A other \in Ids \ {id} : log'[other] = log[other]
    BY <1>4, <1>a, OneNumber
  <2>2. next < next + 1
    BY <1>c
  <2> QED
    BY <1>4, <1>c, <2>1, <2>2
<1>5. ASSUME NEW n \in Notices, Notice(n)
      PROVE  Moves
  <2>1. n \notin Locked /\ n \in Ids
    BY DEF LogAssumption, Ids, Locked
  <2>2. phase' = phase /\ next <= next'
    BY <1>c, <1>5 DEF Notice, Draw, Publish, Withdraw
  <2>3. \A id \in Locked : log'[id] = log[id]
    BY <1>c, <1>5, <2>1 DEF Notice, Draw, Publish, Withdraw
  <2> QED
    BY <2>2, <2>3
<1>6. Moves
  <2>1. ASSUME NEW w \in Workers, Studio(w)
        PROVE  Moves
    <3>1. CASE \E e \in 0 .. MaxEpoch, o \in Workers \cup {NoOwner} : Acquire(w, e, o)
      BY <1>1, <3>1 DEF Acquire
    <3>2. CASE Mint(w)
      BY <1>1, <3>2 DEF Mint
    <3>3. CASE EndRun(w)
      BY <1>4, <3>3 DEF EndRun
    <3> QED
      BY <1>2, <1>3, <2>1, <3>1, <3>2, <3>3 DEF Studio
  <2>2. CASE \E e \in 0 .. MaxEpoch : Release(e)
    BY <1>1, <2>2 DEF Release
  <2>3. CASE MarkDispatched
    BY <1>4, <2>3 DEF MarkDispatched
  <2>4. CASE CancelRun
    BY <1>4, <2>4 DEF CancelRun
  <2>5. CASE EndSilently
    BY <1>c, <2>5 DEF EndSilently, events
  <2>6. CASE Lapse
    BY <1>1, <2>6 DEF Lapse
  <2>7. CASE UNCHANGED vars
    BY <1>1, <2>7 DEF vars
  <2> QED
    BY <1>5, <2>1, <2>2, <2>3, <2>4, <2>5, <2>6, <2>7 DEF Next, Engine
<1> QED
  BY <1>6, <1>c DEF LockedNumbers

-----------------------------------------------------------------------------
(* The types of the stream.                                                  *)
LEMMA StreamTypes ==
  ASSUME LogAssumption, StreamAssumption, IInv, StreamTypeOK, [StreamNext]_svars
  PROVE  StreamTypeOK'
<1>a. TypeOK /\ Drawn
  BY DEF IInv
<1>b. Idle \in PollStates
  BY DEF Idle, PollStates
<1> USE DEF StreamTypeOK
<1>1. CASE UNCHANGED stream
  BY <1>1 DEF stream
<1>2. ASSUME NEW c \in Clients, Connect(c)
      PROVE  StreamTypeOK'
  <2>1. LastReceived(c) \in Nat
    BY DEF LastReceived
  <2> QED
    BY <1>2, <2>1 DEF Connect, ResumeAt
<1>3. ASSUME NEW c \in Clients, Break(c) \/ Cap(c)
      PROVE  StreamTypeOK'
  <2>1. poll' \in [Clients -> [Polls -> PollStates]]
    <3>1. [r \in Polls |-> Idle] \in [Polls -> PollStates]
      BY <1>b
    <3> QED
      BY <1>3, <3>1 DEF Break, Cap, Close
  <2>2. conn' \in [Clients -> {"closed", "open", "done"}] /\ cursor' = cursor
    BY <1>3 DEF Break, Cap
  <2>3. faults' \in 0 .. MaxFaults
    BY <1>3 DEF Break, Cap, Fault, StreamAssumption
  <2>4. recv' \in [Clients -> Seq(Nat)]
    <3>1. CASE UNCHANGED recv
      BY <3>1
    <3>2. ASSUME NEW p \in Polls, NEW n \in 1 .. Len(poll[c][p].rows),
                 recv' = [recv EXCEPT ![c] = @ \o SubSeq(poll[c][p].rows, 1, n)]
          PROVE  recv' \in [Clients -> Seq(Nat)]
      <4>1. poll[c][p].rows \in Seq(Nat)
        BY DEF PollStates
      <4>2. SubSeq(poll[c][p].rows, 1, n) \in Seq(Nat) /\ recv[c] \in Seq(Nat)
        BY <4>1
      <4> QED
        BY <3>2, <4>2
    <3> QED
      BY <1>3, <3>1, <3>2 DEF Break, Cap
  <2> QED
    BY <2>1, <2>2, <2>3, <2>4
<1>4. ASSUME NEW c \in Clients, NEW p \in Polls,
             Tick(c, p) \/ ReadRun(c, p) \/ ReadEvents(c, p) \/ FailPoll(c, p)
      PROVE  StreamTypeOK'
  <2>1. PICK q : q = poll[c][p]
    OBVIOUS
  <2>2. q \in PollStates /\ cursor[c] \in Nat
    BY <2>1
  <2>3. After(q.from) \in Seq(Nat)
    BY <1>a, <2>2, BatchRead DEF PollStates
  <2>4. PICK r \in PollStates : poll' = [poll EXCEPT ![c][p] = r]
    <3>1. CASE Tick(c, p)
      <4>1. [Idle EXCEPT !.at = "run", !.from = cursor[c]] \in PollStates
        BY <1>b, <2>2 DEF Idle, PollStates
      <4> QED
        BY <3>1, <4>1 DEF Tick
    <3>2. CASE ReadRun(c, p)
      <4>1. [q EXCEPT !.at = "events", !.ended = phase = "TERMINAL"] \in PollStates
        BY <2>2 DEF PollStates
      <4> QED
        BY <2>1, <3>2, <4>1 DEF ReadRun
    <3>3. CASE ReadEvents(c, p)
      <4>1. [q EXCEPT !.at = "emit", !.rows = After(q.from)] \in PollStates
        BY <2>2, <2>3 DEF PollStates
      <4> QED
        BY <2>1, <3>3, <4>1 DEF ReadEvents
    <3>4. CASE FailPoll(c, p)
      BY <1>b, <3>4 DEF FailPoll
    <3> QED
      BY <1>4, <3>1, <3>2, <3>3, <3>4
  <2>5. faults' \in 0 .. MaxFaults
    BY <1>4 DEF Tick, ReadRun, ReadEvents, FailPoll, Fault, StreamAssumption
  <2>6. UNCHANGED <<conn, cursor, recv>>
    BY <1>4 DEF Tick, ReadRun, ReadEvents, FailPoll
  <2> QED
    BY <2>4, <2>5, <2>6
<1>5. ASSUME NEW c \in Clients, NEW p \in Polls, Emit(c, p)
      PROVE  StreamTypeOK'
  <2>1. PICK rows : rows = poll[c][p].rows
    OBVIOUS
  <2>2. rows \in Seq(Nat) /\ recv[c] \in Seq(Nat)
    BY <2>1 DEF PollStates
  <2>3. recv' = [recv EXCEPT ![c] = @ \o rows]
        /\ cursor' = [cursor EXCEPT ![c] = IF rows = <<>> THEN @ ELSE rows[Len(rows)]]
        /\ faults' = faults
    BY <1>5, <2>1 DEF Emit
  <2>4. recv' \in [Clients -> Seq(Nat)]
    BY <2>2, <2>3
  <2>5. rows # <<>> => rows[Len(rows)] \in Nat
    BY <2>2
  <2>6. cursor' \in [Clients -> Nat]
    BY <2>3, <2>5
  <2>7. conn' \in [Clients -> {"closed", "open", "done"}]
    BY <1>5 DEF Emit
  <2>8. poll' \in [Clients -> [Polls -> PollStates]]
    <3>1. [r \in Polls |-> Idle] \in [Polls -> PollStates]
      BY <1>b
    <3>2. CASE Flushed(c, p)
      BY <1>5, <3>1, <3>2 DEF Emit, Close
    <3>3. CASE ~Flushed(c, p)
      <4>1. poll' = [poll EXCEPT ![c][p] = Idle]
        BY <1>5, <3>3 DEF Emit
      <4> QED
        BY <1>b, <4>1
    <3> QED
      BY <3>2, <3>3
  <2> QED
    BY <2>3, <2>4, <2>6, <2>7, <2>8
<1> QED
  BY <1>1, <1>2, <1>3, <1>4, <1>5 DEF StreamNext, Client, svars
-----------------------------------------------------------------------------
(* A step of the log leaves every client sound: it writes no locked event    *)
(* below what a client or a poll holds, and none at all behind an end.       *)
LEMMA LogStepSound ==
  ASSUME LogAssumption, IInv, [Next]_vars, UNCHANGED stream,
         NEW c \in Clients, ClientSound(c)
  PROVE  ClientSound(c)'
<1>1. /\ next \in Nat /\ next' \in Nat /\ next <= next'
      /\ \A m \in LockedNumbers' : m \in LockedNumbers \/ next < m
      /\ phase = "TERMINAL" => phase' = "TERMINAL" /\ LockedNumbers' \subseteq LockedNumbers
  BY LogMoves
<1>a. \A x \in 1 .. next : /\ x \in 1 .. next'
                         /\ \A m \in LockedNumbers' : next < m => ~(m <= x)
  <2>1. IInv'
    BY StepIInv
  <2>2. \A m \in LockedNumbers' : m \in Nat
    BY <2>1 DEF IInv, TypeOK, LockedNumbers, Ids
  <2> QED
    BY <1>1, <2>2
<1>2. Received(c)' = Received(c) /\ conn' = conn /\ cursor' = cursor /\ poll' = poll
  BY DEF Received, stream
<1>3. Received(c) \subseteq 1 .. next
  BY DEF ClientSound
<1>4. \A s \in Received(c), m \in LockedNumbers' : m <= s => m \in Received(c)
  BY <1>1, <1>a, <1>3 DEF ClientSound
<1>5. ASSUME NEW p \in Polls
      PROVE  PollSound(c, p)'
  <2>1. PICK q : q = poll[c][p]
    OBVIOUS
  <2>2. /\ q.at # "idle" => conn[c] = "open"
        /\ q.from \in {0} \cup Received(c)
        /\ q.at # "emit" => q.rows = <<>>
        /\ q.ended => phase = "TERMINAL"
        /\ RowsCover(q) /\ TailCovered(q)
    BY <2>1 DEF ClientSound, PollSound
  <2>3. RowsCover(q)'
    BY <1>1, <1>a, <2>2 DEF RowsCover
  <2>4. TailCovered(q)'
    BY <1>1, <2>2 DEF TailCovered, Fetched
  <2> QED
    BY <1>1, <1>2, <2>1, <2>2, <2>3, <2>4 DEF PollSound
<1> QED
  BY <1>1, <1>2, <1>3, <1>4, <1>5, <1>a DEF ClientSound

(* While the log stands still, a client whose connection, cursor, polls and  *)
(* received events stand still stays sound.                                  *)
LEMMA StillSound ==
  ASSUME UNCHANGED vars, NEW c \in Clients, ClientSound(c),
         conn'[c] = conn[c], cursor'[c] = cursor[c], poll'[c] = poll[c], recv'[c] = recv[c]
  PROVE  ClientSound(c)'
BY DEF ClientSound, PollSound, RowsCover, TailCovered, Fetched, LockedNumbers, Received,
       vars, events

(* The rows of one poll change, soundly; the other polls of the client and   *)
(* its connection stand still.                                               *)
LEMMA PollStepSound ==
  ASSUME UNCHANGED <<vars, conn, cursor, recv>>, StreamTypeOK,
         NEW c \in Clients, ClientSound(c), NEW p \in Polls,
         NEW r, poll' = [poll EXCEPT ![c][p] = r],
         r.at # "idle" => conn[c] = "open",
         r.from \in {0} \cup Received(c),
         r.at # "emit" => r.rows = <<>>,
         r.ended => phase = "TERMINAL",
         RowsCover(r), TailCovered(r)
  PROVE  ClientSound(c)'
<1>1. /\ Received(c)' = Received(c) /\ LockedNumbers' = LockedNumbers
      /\ next' = next /\ phase' = phase
  BY DEF Received, LockedNumbers, vars, events
<1>2. ASSUME NEW q, RowsCover(q), TailCovered(q)
      PROVE  RowsCover(q)' /\ TailCovered(q)'
  BY <1>1, <1>2 DEF RowsCover, TailCovered, Fetched
<1>3. ASSUME NEW u \in Polls
      PROVE  PollSound(c, u)'
  <2>1. poll'[c][u] = IF u = p THEN r ELSE poll[c][u]
    BY DEF StreamTypeOK
  <2>2. PICK q : q = poll[c][u]
    OBVIOUS
  <2>3. /\ q.at # "idle" => conn[c] = "open"
        /\ q.from \in {0} \cup Received(c)
        /\ q.at # "emit" => q.rows = <<>>
        /\ q.ended => phase = "TERMINAL"
        /\ RowsCover(q) /\ TailCovered(q)
    BY <2>2 DEF ClientSound, PollSound
  <2>4. PICK new : new = poll'[c][u]
    OBVIOUS
  <2>5. new = r \/ new = q
    BY <2>1, <2>2, <2>4
  <2>6. RowsCover(new)' /\ TailCovered(new)'
    BY <1>2, <2>3, <2>5
  <2> QED
    BY <1>1, <2>3, <2>4, <2>5, <2>6 DEF PollSound
<1> QED
  BY <1>1, <1>3 DEF ClientSound

(* What a client holds once a list arrived.                                  *)
LEMMA ToSetOfAppend ==
  ASSUME NEW s \in Seq(Nat), NEW t \in Seq(Nat)
  PROVE  ToSet(s \o t) = ToSet(s) \cup {t[i] : i \in 1 .. Len(t)}
<1> DEFINE T == {t[i] : i \in 1 .. Len(t)}
<1>1. PICK st : st = s \o t
  OBVIOUS
<1>2. /\ Len(s) \in Nat /\ Len(t) \in Nat
      /\ DOMAIN s = 1 .. Len(s) /\ DOMAIN st = 1 .. Len(s) + Len(t)
      /\ \A i \in 1 .. Len(s) : st[i] = s[i]
      /\ \A i \in 1 .. Len(t) : st[Len(s) + i] = t[i]
  BY <1>1
<1>3. ASSUME NEW i \in DOMAIN st
      PROVE  st[i] \in ToSet(s) \cup T
  <2>1. CASE i \in 1 .. Len(s)
    BY <1>2, <2>1 DEF ToSet
  <2>2. CASE i \notin 1 .. Len(s)
    <3>1. PICK j \in 1 .. Len(t) : i = Len(s) + j
      <4>1. i - Len(s) \in 1 .. Len(t) /\ i = Len(s) + (i - Len(s))
        BY <1>2, <2>2
      <4> QED
        BY <4>1
    <3> QED
      BY <1>2, <3>1
  <2> QED
    BY <2>1, <2>2
<1>4. ASSUME NEW i \in DOMAIN s
      PROVE  s[i] \in ToSet(st)
  <2>1. i \in DOMAIN st
    BY <1>2
  <2> QED
    BY <1>2, <2>1 DEF ToSet
<1>5. ASSUME NEW i \in 1 .. Len(t)
      PROVE  t[i] \in ToSet(st)
  <2>1. Len(s) + i \in DOMAIN st
    BY <1>2
  <2> QED
    BY <1>2, <2>1 DEF ToSet
<1>6. ToSet(st) \subseteq ToSet(s) \cup T
  BY <1>3 DEF ToSet
<1>7. ToSet(s) \subseteq ToSet(st) /\ T \subseteq ToSet(st)
  BY <1>4, <1>5 DEF ToSet
<1> QED
  BY <1>1, <1>6, <1>7

(* Rows of a poll arrive, all or the first of them: the client still misses  *)
(* no locked event below what it holds.                                      *)
LEMMA Arrival ==
  ASSUME IInv, StreamTypeOK, UNCHANGED vars,
         NEW c \in Clients, ClientSound(c), NEW p \in Polls,
         NEW part \in Seq(Nat), Len(part) <= Len(poll[c][p].rows),
         \A i \in 1 .. Len(part) : part[i] = poll[c][p].rows[i],
         recv'[c] = recv[c] \o part
  PROVE  /\ Received(c)' = Received(c) \cup {part[i] : i \in 1 .. Len(part)}
         /\ Received(c)' \subseteq 1 .. next
         /\ \A s \in Received(c)', m \in LockedNumbers : m <= s => m \in Received(c)'
<1>1. PICK q : q = poll[c][p]
  OBVIOUS
<1>2. q.rows \in Seq(Nat) /\ q.from \in Nat /\ recv[c] \in Seq(Nat)
  BY <1>1 DEF StreamTypeOK, PollStates
<1>3. q.from \in {0} \cup Received(c) /\ RowsCover(q)
  BY <1>1 DEF ClientSound, PollSound
<1>4. \A i \in 1 .. Len(part) : part[i] = q.rows[i] /\ i \in DOMAIN q.rows
  BY <1>1, <1>2
<1>5. Received(c)' = Received(c) \cup {part[i] : i \in 1 .. Len(part)}
  <2>1. ToSet(recv[c] \o part) = ToSet(recv[c]) \cup {part[i] : i \in 1 .. Len(part)}
    BY <1>2, ToSetOfAppend
  <2> QED
    BY <2>1 DEF Received
<1>6. \A i \in 1 .. Len(part) : part[i] \in 1 .. next
  BY <1>3, <1>4 DEF RowsCover
<1>7. ASSUME NEW i \in 1 .. Len(part), NEW m \in LockedNumbers, m <= part[i]
      PROVE  m \in Received(c)'
  <2>1. m \in Nat /\ m # 0
    BY DEF IInv, TypeOK, LockedNumbers, Ids
  <2>2. CASE m <= q.from
    <3>1. q.from \in Received(c)
      BY <1>2, <1>3, <2>1, <2>2
    <3> QED
      BY <1>5, <2>2, <3>1 DEF ClientSound
  <2>3. CASE q.from < m
    <3>1. PICK j \in 1 .. i : q.rows[j] = m
      BY <1>3, <1>4, <1>7, <2>3 DEF RowsCover
    <3>2. j \in 1 .. Len(part)
      BY <3>1
    <3> QED
      BY <1>4, <1>5, <3>1, <3>2
  <2> QED
    BY <1>2, <2>1, <2>2, <2>3
<1> QED
  BY <1>5, <1>6, <1>7 DEF ClientSound
(* A poll that is idle asks for nothing and holds nothing.                   *)
LEMMA IdleSound ==
  /\ Idle.at = "idle" /\ Idle.from = 0 /\ Idle.ended = FALSE /\ Idle.rows = <<>>
  /\ RowsCover(Idle) /\ TailCovered(Idle)
BY DEF Idle, RowsCover, TailCovered

(* The polls of a client against what it holds after an arrival.             *)
LEMMA PollsAfter ==
  ASSUME UNCHANGED vars, NEW c \in Clients, ClientSound(c),
         Received(c) \subseteq Received(c)',
         \A p \in Polls : \/ poll'[c][p] = Idle
                          \/ poll'[c][p] = poll[c][p] /\ conn'[c] = conn[c]
  PROVE  \A p \in Polls : PollSound(c, p)'
<1> SUFFICES ASSUME NEW p \in Polls
             PROVE  PollSound(c, p)'
  OBVIOUS
<1>1. next' = next /\ phase' = phase /\ LockedNumbers' = LockedNumbers
  BY DEF vars, events, LockedNumbers
<1>2. ASSUME NEW q, RowsCover(q), TailCovered(q)
      PROVE  RowsCover(q)' /\ TailCovered(q)'
  BY <1>1, <1>2 DEF RowsCover, TailCovered, Fetched
<1>3. CASE poll'[c][p] = Idle
  <2>1. PICK q : q = Idle
    OBVIOUS
  <2>2. q.at = "idle" /\ q.from = 0 /\ q.ended = FALSE /\ q.rows = <<>>
        /\ RowsCover(q) /\ TailCovered(q)
    BY <2>1, IdleSound
  <2>3. poll'[c][p] = q
    BY <1>3, <2>1
  <2> QED
    BY <1>2, <2>2, <2>3 DEF PollSound
<1>4. CASE poll'[c][p] = poll[c][p] /\ conn'[c] = conn[c]
  <2>1. PICK q : q = poll[c][p]
    OBVIOUS
  <2>2. /\ q.at # "idle" => conn[c] = "open"
        /\ q.from \in {0} \cup Received(c)
        /\ q.at # "emit" => q.rows = <<>>
        /\ q.ended => phase = "TERMINAL"
        /\ RowsCover(q) /\ TailCovered(q)
    BY <2>1 DEF ClientSound, PollSound
  <2>3. poll'[c][p] = q
    BY <1>4, <2>1
  <2> QED
    BY <1>1, <1>2, <1>4, <2>2, <2>3 DEF PollSound
<1> QED
  BY <1>3, <1>4

(* A poll hands its rows over.                                               *)
LEMMA EmitSound ==
  ASSUME IInv, StreamTypeOK, NEW c \in Clients, ClientSound(c), NEW p \in Polls, Emit(c, p)
  PROVE  ClientSound(c)'
<1>1. PICK q : q = poll[c][p]
  OBVIOUS
<1>2. q.rows \in Seq(Nat) /\ q.from \in Nat /\ q.at = "emit" /\ recv[c] \in Seq(Nat)
  BY <1>1 DEF StreamTypeOK, PollStates, Emit
<1>3. /\ conn[c] = "open" /\ q.from \in {0} \cup Received(c)
      /\ q.ended => phase = "TERMINAL"
      /\ TailCovered(q)
  BY <1>1, <1>2 DEF ClientSound, PollSound
<1>4. /\ recv'[c] = recv[c] \o q.rows
      /\ cursor'[c] = IF q.rows = <<>> THEN cursor[c] ELSE q.rows[Len(q.rows)]
      /\ UNCHANGED vars
  BY <1>1 DEF Emit, StreamTypeOK
<1>5. /\ Received(c)' = Received(c) \cup {q.rows[i] : i \in 1 .. Len(q.rows)}
      /\ Received(c)' \subseteq 1 .. next
      /\ \A s \in Received(c)', m \in LockedNumbers : m <= s => m \in Received(c)'
  <2>1. PICK part : part = q.rows
    OBVIOUS
  <2>2. /\ part \in Seq(Nat) /\ Len(part) <= Len(poll[c][p].rows)
        /\ \A i \in 1 .. Len(part) : part[i] = poll[c][p].rows[i]
        /\ recv'[c] = recv[c] \o part
    BY <1>1, <1>2, <1>4, <2>1
  <2>3. UNCHANGED vars
    BY <1>4
  <2>4. /\ Received(c)' = Received(c) \cup {part[i] : i \in 1 .. Len(part)}
        /\ Received(c)' \subseteq 1 .. next
        /\ \A s \in Received(c)', m \in LockedNumbers : m <= s => m \in Received(c)'
    BY <2>2, <2>3, Arrival
  <2> QED
    BY <2>1, <2>4
<1>6. next' = next /\ phase' = phase /\ LockedNumbers' = LockedNumbers
  BY <1>4 DEF vars, events, LockedNumbers
<1>7. cursor'[c] \in {0} \cup Received(c)'
  <2>1. CASE q.rows = <<>>
    BY <1>4, <1>5, <2>1 DEF ClientSound
  <2>2. CASE q.rows # <<>>
    <3>1. Len(q.rows) \in 1 .. Len(q.rows)
      BY <1>2, <2>2
    <3> QED
      BY <1>4, <1>5, <2>2, <3>1
  <2> QED
    BY <2>1, <2>2
<1>8. conn'[c] = "done" => phase = "TERMINAL" /\ LockedNumbers \subseteq Received(c)'
  <2> SUFFICES ASSUME conn'[c] = "done"
               PROVE  phase = "TERMINAL" /\ LockedNumbers \subseteq Received(c)'
    OBVIOUS
  <2>1. q.ended /\ Len(q.rows) < BatchLimit
    BY <1>1, <1>3 DEF Emit, Flushed
  <2>2. ASSUME NEW m \in LockedNumbers
        PROVE  m \in Received(c)'
    <3>1. m \in Nat /\ m # 0
      BY DEF IInv, TypeOK, LockedNumbers, Ids
    <3>2. CASE q.from < m
      <4>1. m \in Fetched(q)
        BY <1>2, <1>3, <2>1, <3>2 DEF TailCovered
      <4> QED
        <5>1. DOMAIN q.rows = 1 .. Len(q.rows)
          BY <1>2
        <5> QED
          BY <1>5, <4>1, <5>1 DEF Fetched
    <3>3. CASE m <= q.from
      <4>1. q.from \in Received(c)'
        BY <1>2, <1>3, <1>5, <3>1, <3>3
      <4> QED
        BY <1>5, <3>3, <4>1
    <3> QED
      BY <1>2, <3>1, <3>2, <3>3
  <2> QED
    BY <1>3, <2>1, <2>2
<1>9. \A u \in Polls : PollSound(c, u)'
  <2>1. \A u \in Polls : \/ poll'[c][u] = Idle
                         \/ poll'[c][u] = poll[c][u] /\ conn'[c] = conn[c]
    BY DEF Emit, Close, StreamTypeOK
  <2> QED
    BY <1>4, <1>5, <2>1, PollsAfter
<1> QED
  BY <1>5, <1>6, <1>7, <1>8, <1>9 DEF ClientSound

(* The connection ends, by a fault or by the cap.                            *)
LEMMA EndSound ==
  ASSUME IInv, StreamTypeOK, NEW c \in Clients, ClientSound(c), Break(c) \/ Cap(c)
  PROVE  ClientSound(c)'
<1>1. UNCHANGED vars /\ conn'[c] = "closed" /\ cursor' = cursor
      /\ \A u \in Polls : poll'[c][u] = Idle
  BY DEF Break, Cap, Close, StreamTypeOK
<1>2. next' = next /\ phase' = phase /\ LockedNumbers' = LockedNumbers
  BY <1>1 DEF vars, events, LockedNumbers
<1> DEFINE Grown ==
      /\ Received(c) \subseteq Received(c)'
      /\ Received(c)' \subseteq 1 .. next
      /\ \A s \in Received(c)', m \in LockedNumbers : m <= s => m \in Received(c)'
<1>3. Grown
  <2>1. CASE UNCHANGED recv
    BY <2>1 DEF ClientSound, Received
  <2>2. ASSUME NEW p \in Polls, NEW n \in 1 .. Len(poll[c][p].rows),
               recv' = [recv EXCEPT ![c] = @ \o SubSeq(poll[c][p].rows, 1, n)]
        PROVE  Grown
    <3>1. PICK rows : rows = poll[c][p].rows
      OBVIOUS
    <3>2. PICK part : part = SubSeq(rows, 1, n)
      OBVIOUS
    <3>3. rows \in Seq(Nat)
      BY <3>1 DEF StreamTypeOK, PollStates
    <3>4. part \in Seq(Nat) /\ Len(part) <= Len(rows)
          /\ \A i \in 1 .. Len(part) : part[i] = rows[i]
      BY <3>1, <3>2, <3>3, SMTT(30)
    <3>5. recv'[c] = recv[c] \o part
      BY <2>2, <3>1, <3>2 DEF StreamTypeOK
    <3> QED
      BY <1>1, <3>1, <3>4, <3>5, Arrival
  <2> QED
    BY <2>1, <2>2 DEF Break, Cap
<1>4. \A u \in Polls : PollSound(c, u)'
  BY <1>1, <1>3, PollsAfter
<1> QED
  BY <1>1, <1>2, <1>3, <1>4 DEF ClientSound
(* A connection opens at what the client received last.                      *)
LEMMA ConnectSound ==
  ASSUME IInv, StreamTypeOK, NEW c \in Clients, ClientSound(c), Connect(c)
  PROVE  ClientSound(c)'
<1>1. UNCHANGED <<vars, poll, recv>> /\ conn[c] = "closed" /\ conn'[c] = "open"
      /\ cursor'[c] = LastReceived(c)
  BY DEF Connect, ResumeAt, StreamTypeOK
<1>2. next' = next /\ phase' = phase /\ LockedNumbers' = LockedNumbers /\ Received(c)' = Received(c)
  BY <1>1 DEF vars, events, LockedNumbers, Received
<1>3. LastReceived(c) \in {0} \cup Received(c)
  <2>1. CASE recv[c] = <<>>
    BY <2>1 DEF LastReceived
  <2>2. CASE recv[c] # <<>>
    <3>1. recv[c] \in Seq(Nat)
      BY DEF StreamTypeOK
    <3>2. Len(recv[c]) \in DOMAIN recv[c]
      BY <2>2, <3>1
    <3> QED
      BY <2>2, <3>2 DEF LastReceived, Received, ToSet
  <2> QED
    BY <2>1, <2>2
<1>4. ASSUME NEW p \in Polls
      PROVE  PollSound(c, p)'
  <2>1. PICK q : q = poll[c][p]
    OBVIOUS
  <2>2. /\ q.at = "idle"
        /\ q.from \in {0} \cup Received(c)
        /\ q.rows = <<>>
        /\ q.ended => phase = "TERMINAL"
        /\ RowsCover(q) /\ TailCovered(q)
    BY <1>1, <2>1 DEF ClientSound, PollSound
  <2>3. RowsCover(q)' /\ TailCovered(q)'
    BY <1>2, <2>2 DEF RowsCover, TailCovered, Fetched
  <2> QED
    BY <1>1, <1>2, <2>1, <2>2, <2>3 DEF PollSound
<1> QED
  BY <1>1, <1>2, <1>3, <1>4 DEF ClientSound

(* A poll starts, reads or fails.  The end is read before the events: a      *)
(* batch read after it that is not full holds the whole tail.                *)
LEMMA PollSteps ==
  ASSUME StreamAssumption, IInv, StreamTypeOK,
         NEW c \in Clients, ClientSound(c), NEW p \in Polls,
         Tick(c, p) \/ ReadRun(c, p) \/ ReadEvents(c, p) \/ FailPoll(c, p)
  PROVE  ClientSound(c)'
<1>1. PICK q : q = poll[c][p]
  OBVIOUS
<1>2. q \in PollStates
  BY <1>1 DEF StreamTypeOK
<1>3. /\ q.at # "idle" => conn[c] = "open"
      /\ q.from \in {0} \cup Received(c)
      /\ q.at # "emit" => q.rows = <<>>
      /\ q.ended => phase = "TERMINAL"
  BY <1>1 DEF ClientSound, PollSound
<1>4. UNCHANGED <<vars, conn, cursor, recv>>
  BY DEF Tick, ReadRun, ReadEvents, FailPoll
<1>5. CASE Tick(c, p)
  <2>1. PICK r : r = [Idle EXCEPT !.at = "run", !.from = cursor[c]]
    OBVIOUS
  <2>2. /\ r.at = "run" /\ r.from = cursor[c] /\ r.ended = FALSE /\ r.rows = <<>>
        /\ poll' = [poll EXCEPT ![c][p] = r] /\ conn[c] = "open"
    BY <1>5, <2>1 DEF Tick, Idle
  <2>3. RowsCover(r) /\ TailCovered(r) /\ r.from \in {0} \cup Received(c)
    BY <2>2 DEF RowsCover, TailCovered, ClientSound
  <2> QED
    BY <1>4, <2>2, <2>3, PollStepSound
<1>6. CASE ReadRun(c, p)
  <2>1. PICK r : r = [q EXCEPT !.at = "events", !.ended = phase = "TERMINAL"]
    OBVIOUS
  <2>2. /\ r.at = "events" /\ r.from = q.from /\ r.rows = q.rows
        /\ r.ended <=> phase = "TERMINAL"
        /\ poll' = [poll EXCEPT ![c][p] = r] /\ q.at = "run"
    BY <1>1, <1>2, <1>6, <2>1 DEF ReadRun, PollStates
  <2>3. RowsCover(r) /\ TailCovered(r) /\ r.rows = <<>>
    BY <1>3, <2>2 DEF RowsCover, TailCovered
  <2> QED
    BY <1>3, <1>4, <2>2, <2>3, PollStepSound
<1>7. CASE ReadEvents(c, p)
  <2>0. PICK rows : rows = After(q.from)
    OBVIOUS
  <2>1. PICK r : r = [q EXCEPT !.at = "emit", !.rows = rows]
    OBVIOUS
  <2>2. /\ r.at = "emit" /\ r.from = q.from /\ r.rows = rows /\ r.ended = q.ended
        /\ poll' = [poll EXCEPT ![c][p] = r] /\ q.at = "events"
    BY <1>1, <1>2, <1>7, <2>0, <2>1 DEF ReadEvents, PollStates
  <2>3. /\ rows \in Seq(Nat)
        /\ \A i \in 1 .. Len(rows) : rows[i] \in 1 .. next
        /\ \A m \in Published : \A i \in 1 .. Len(rows) :
             (q.from < m /\ m <= rows[i]) => \E j \in 1 .. i : rows[j] = m
        /\ Len(rows) < BatchLimit =>
             \A m \in Published : q.from < m => \E j \in 1 .. Len(rows) : rows[j] = m
    <3>1. TypeOK /\ Drawn
      BY DEF IInv
    <3>2. PICK from \in Nat : from = q.from
      BY <1>2 DEF PollStates
    <3>3. rows = After(from)
      BY <2>0, <3>2
    <3>4. /\ After(from) \in Seq(Nat)
          /\ \A i \in 1 .. Len(After(from)) : After(from)[i] \in 1 .. next
          /\ \A m \in Published : \A i \in 1 .. Len(After(from)) :
               (from < m /\ m <= After(from)[i]) => \E j \in 1 .. i : After(from)[j] = m
          /\ Len(After(from)) < BatchLimit =>
               \A m \in Published : from < m => \E j \in 1 .. Len(After(from)) : After(from)[j] = m
      BY <3>1, BatchRead
    <3> QED
      BY <3>2, <3>3, <3>4
  <2>4. LockedNumbers \subseteq Published /\ DOMAIN rows = 1 .. Len(rows)
    BY <2>3 DEF LockedNumbers, Published, Ids
  <2>5. RowsCover(r) /\ TailCovered(r)
    BY <2>2, <2>3, <2>4 DEF RowsCover, TailCovered, Fetched
  <2> QED
    BY <1>3, <1>4, <2>2, <2>5, PollStepSound
<1>8. CASE FailPoll(c, p)
  <2>1. PICK r : r = Idle
    OBVIOUS
  <2>2. /\ r.at = "idle" /\ r.from = 0 /\ r.ended = FALSE /\ r.rows = <<>>
        /\ RowsCover(r) /\ TailCovered(r)
    BY <2>1, IdleSound
  <2>3. poll' = [poll EXCEPT ![c][p] = r]
    BY <1>8, <2>1 DEF FailPoll
  <2> QED
    BY <1>4, <2>2, <2>3, PollStepSound
<1> QED
  BY <1>5, <1>6, <1>7, <1>8

(* A step of one client is no step of another.                               *)
LEMMA OtherClients ==
  ASSUME StreamTypeOK, NEW c \in Clients, Client(c), NEW d \in Clients, d # c
  PROVE  /\ conn'[d] = conn[d] /\ cursor'[d] = cursor[d]
         /\ poll'[d] = poll[d] /\ recv'[d] = recv[d]
<1> DEFINE Still == /\ conn'[d] = conn[d] /\ cursor'[d] = cursor[d]
                    /\ poll'[d] = poll[d] /\ recv'[d] = recv[d]
<1>1. CASE Connect(c)
  BY <1>1 DEF Connect, StreamTypeOK
<1>2. CASE Break(c) \/ Cap(c)
  BY <1>2 DEF Break, Cap, Close, StreamTypeOK
<1>3. ASSUME NEW p \in Polls, Tick(c, p) \/ ReadRun(c, p) \/ ReadEvents(c, p) \/ FailPoll(c, p)
      PROVE  Still
  BY <1>3 DEF Tick, ReadRun, ReadEvents, FailPoll, StreamTypeOK
<1>4. ASSUME NEW p \in Polls, Emit(c, p)
      PROVE  Still
  BY <1>4 DEF Emit, Close, StreamTypeOK
<1> QED
  BY <1>1, <1>2, <1>3, <1>4 DEF Client

(* Every step of the log or of a client keeps the stream's invariant.        *)
LEMMA StreamStep ==
  ASSUME LogAssumption, StreamAssumption, StreamInv, [StreamNext]_svars
  PROVE  StreamInv'
<1>a. IInv /\ StreamTypeOK /\ \A c \in Clients : ClientSound(c)
  BY DEF StreamInv
<1>b. StreamTypeOK'
  BY <1>a, StreamTypes
<1>1. ASSUME [Next]_vars, UNCHANGED stream
      PROVE  StreamInv'
  BY <1>1, <1>a, <1>b, LogStepSound, StepIInv DEF StreamInv
<1>2. ASSUME NEW c \in Clients, Client(c)
      PROVE  StreamInv'
  <2>1. UNCHANGED vars
    BY <1>2 DEF Client, Connect, Break, Cap, Tick, ReadRun, ReadEvents, Emit, FailPoll
  <2>2. IInv'
    BY <1>a, <2>1, StepIInv
  <2>3. ClientSound(c)'
    BY <1>2, <1>a, ConnectSound, EndSound, PollSteps, EmitSound DEF Client
  <2>4. ASSUME NEW d \in Clients, d # c
        PROVE  ClientSound(d)'
    <3>1. conn'[d] = conn[d] /\ cursor'[d] = cursor[d] /\ poll'[d] = poll[d] /\ recv'[d] = recv[d]
      BY <1>2, <1>a, <2>4, OtherClients
    <3> QED
      BY <1>a, <2>1, <3>1, StillSound
  <2> QED
    BY <1>b, <2>2, <2>3, <2>4 DEF StreamInv
<1> QED
  BY <1>1, <1>2 DEF StreamNext, svars

(* A client starts with nothing received and nothing asked for.              *)
LEMMA StreamStart ==
  ASSUME LogAssumption, StreamAssumption, StreamInit
  PROVE  StreamInv
<1>1. IInv
  BY InitIInv DEF StreamInit
<1>2. Idle \in PollStates
  BY DEF Idle, PollStates
<1>3. StreamTypeOK
  BY <1>2 DEF StreamInit, StreamTypeOK, StreamAssumption
<1>4. ASSUME NEW c \in Clients
      PROVE  ClientSound(c)
  <2>1. Received(c) = {}
    BY DEF StreamInit, Received, ToSet
  <2>2. \A p \in Polls : PollSound(c, p)
    BY IdleSound DEF StreamInit, PollSound
  <2> QED
    BY <2>1, <2>2 DEF StreamInit, ClientSound
<1> QED
  BY <1>1, <1>3, <1>4 DEF StreamInv

(* The invariant holds of every behaviour of the stream.                     *)
THEOREM StreamInvariant ==
  ASSUME LogAssumption, StreamAssumption
  PROVE  StreamSpec => []StreamInv
<1>1. StreamInit => StreamInv
  BY StreamStart
<1>2. StreamInv /\ [StreamNext]_svars => StreamInv'
  BY StreamStep
<1> QED
  BY <1>1, <1>2, PTL DEF StreamSpec

(* The stream's variables keep their types.                                  *)
THEOREM StreamTypeCorrect ==
  ASSUME LogAssumption, StreamAssumption
  PROVE  StreamSpec => []StreamTypeOK
<1>1. StreamInv => StreamTypeOK
  BY DEF StreamInv
<1> QED
  BY <1>1, StreamInvariant, PTL

(* Whatever a client has received, it received every event written under the *)
(* row lock before it, for any number of clients and of overlapping polls    *)
(* (conversations.service.ts:883).                                           *)
THEOREM StreamSkipsNothingLocked ==
  ASSUME LogAssumption, StreamAssumption
  PROVE  StreamSpec => []LockedNeverSkipped
<1>1. StreamInv => LockedNeverSkipped
  <2> SUFFICES ASSUME StreamInv, NEW c \in Clients, NEW id \in Locked,
                      log[id] \notin Received(c) \cup {0},
                      NEW s \in Received(c), log[id] < s
               PROVE  FALSE
    BY DEF LockedNeverSkipped, Skipped
  <2>1. log[id] \in LockedNumbers
    BY DEF LockedNumbers
  <2>2. log[id] \in Nat /\ s \in Nat
    BY DEF StreamInv, IInv, TypeOK, Ids, ClientSound
  <2> QED
    BY <2>1, <2>2 DEF StreamInv, ClientSound
<1> QED
  BY <1>1, StreamInvariant, PTL

(* A stream that completed left no event written under the row lock behind,  *)
(* for any batch limit and any faults (conversations.service.ts:909).        *)
THEOREM StreamFlushesTheTail ==
  ASSUME LogAssumption, StreamAssumption
  PROVE  StreamSpec => []TailFlushed
<1>1. StreamInv => TailFlushed
  BY DEF StreamInv, ClientSound, TailFlushed, LockedNumbers
<1> QED
  BY <1>1, StreamInvariant, PTL
-----------------------------------------------------------------------------
(* Numbers above all of a set leave its order alone: it becomes the front of *)
(* the larger one.                                                           *)
LEMMA OrderGrows ==
  ASSUME NEW T \in SUBSET Nat, IsFiniteSet(T), NEW S \in SUBSET T,
         \A x \in S, y \in T \ S : x < y
  PROVE  /\ Len(Ordered(S)) <= Len(Ordered(T))
         /\ \A i \in 1 .. Len(Ordered(S)) : Ordered(T)[i] = Ordered(S)[i]
         /\ S # T => Len(Ordered(S)) < Len(Ordered(T))
<1>1. /\ IsFiniteSet(S) /\ S \in SUBSET Nat
      /\ Cardinality(S) <= Cardinality(T) /\ (Cardinality(S) = Cardinality(T) => S = T)
      /\ Cardinality(S) \in Nat /\ Cardinality(T) \in Nat
  BY FS_Subset, FS_CardinalityType
<1>2. Len(Ordered(S)) = Cardinality(S) /\ Len(Ordered(T)) = Cardinality(T)
  BY <1>1, OrderedLists
<1>3. ASSUME NEW i \in 1 .. Cardinality(S)
      PROVE  Ordered(T)[i] = Ordered(S)[i]
  <2>1. PICK x \in S : x = Ordered(S)[i] /\ Rank(S, x) = i - 1
    BY <1>1, OrderedLists
  <2>2. {y \in T : y < x} = {y \in S : y < x}
    <3>1. ASSUME NEW y \in T, y < x, y \notin S
          PROVE  FALSE
      <4>1. x < y /\ x \in Nat /\ y \in Nat
        BY <3>1
      <4> QED
        BY <3>1, <4>1
    <3> QED
      BY <3>1
  <2>3. Rank(T, x) = i - 1
    BY <2>1, <2>2 DEF Rank
  <2>4. x \in T /\ Ordered(T)[Rank(T, x) + 1] = x
    BY <2>1, OrderedLists
  <2> QED
    BY <2>1, <2>3, <2>4
<1> QED
  BY <1>1, <1>2, <1>3

(* What is above the k-th of a set, listed, is the list after its first k.   *)
LEMMA OrderSplits ==
  ASSUME NEW S \in SUBSET (Nat \ {0}), IsFiniteSet(S),
         NEW k \in 0 .. Cardinality(S), NEW from \in Nat,
         from = IF k = 0 THEN 0 ELSE Ordered(S)[k]
  PROVE  LET U == {s \in S : s > from}
         IN  /\ k + Len(Ordered(U)) = Len(Ordered(S))
             /\ \A i \in 1 .. Len(Ordered(U)) : Ordered(U)[i] = Ordered(S)[k + i]
<1> DEFINE A == {s \in S : s <= from}
<1>0. PICK U : U = {s \in S : s > from}
  OBVIOUS
<1>1. /\ IsFiniteSet(A) /\ IsFiniteSet(U) /\ Cardinality(S) \in Nat
      /\ Cardinality(A) \in Nat /\ Cardinality(U) \in Nat
      /\ S \in SUBSET Nat /\ U \in SUBSET Nat /\ U \subseteq S
  <2>1. A \subseteq S /\ U \subseteq S
    BY <1>0
  <2> QED
    BY <2>1, FS_Subset, FS_CardinalityType
<1>2. Cardinality(A) = k
  <2>1. CASE k = 0
    <3>1. from = 0 /\ \A s \in S : s \in Nat /\ s # 0 /\ ~(s <= 0)
      <4>1. \A s \in S : s \in Nat /\ s # 0
        OBVIOUS
      <4>2. from = 0
        BY <2>1
      <4>3. \A s \in Nat : s # 0 => ~(s <= 0)
        OBVIOUS
      <4> QED
        BY <4>1, <4>2, <4>3
    <3>2. A = {}
      BY <3>1
    <3> QED
      BY <2>1, <3>2, FS_EmptySet
  <2>2. CASE k # 0
    <3>1. from \in S /\ Rank(S, from) = k - 1
      <4>1. k \in 1 .. Cardinality(S) /\ from = Ordered(S)[k]
        BY <1>1, <2>2
      <4> QED
        BY <1>1, <4>1, OrderedLists
    <3> DEFINE L == {s \in S : s < from}
    <3>2. IsFiniteSet(L) /\ Cardinality(L) = k - 1
      <4>1. L \subseteq S
        OBVIOUS
      <4> QED
        BY <3>1, <4>1, FS_Subset DEF Rank
    <3>3. A = L \cup {from} /\ from \notin L
      <4>1. \A s \in S : s \in Nat /\ (s <= from <=> s < from \/ s = from)
        BY <1>1
      <4> QED
        <5>1. ~(from < from)
          OBVIOUS
        <5>2. ASSUME NEW s
              PROVE  s \in A <=> s \in L \cup {from}
          BY <3>1, <4>1
        <5> QED
          BY <5>1, <5>2
    <3>4. IsFiniteSet(L) => Cardinality(L \cup {from})
                              = IF from \in L THEN Cardinality(L) ELSE Cardinality(L) + 1
      BY FS_AddElement
    <3> HIDE DEF L, A
    <3>5. Cardinality(A) = Cardinality(L) + 1
      BY <3>2, <3>3, <3>4, Zenon
    <3> QED
      BY <2>2, <3>2, <3>5
  <2> QED
    BY <2>1, <2>2
<1>3. Cardinality(S) = k + Cardinality(U)
  <2>1. S = A \cup U /\ A \cap U = {}
    <3>1. \A s \in S : s \in Nat /\ ~(s <= from /\ s > from) /\ (s <= from \/ s > from)
      BY <1>1
    <3> QED
      BY <1>0, <3>1
  <2> HIDE DEF A
  <2>2. Cardinality(A \cup U) = Cardinality(A) + Cardinality(U) - Cardinality(A \cap U)
    BY <1>1, FS_Union
  <2>3. Cardinality(A \cap U) = 0 /\ Cardinality(A \cup U) = Cardinality(S)
    BY <2>1, FS_EmptySet
  <2> QED
    BY <1>1, <1>2, <2>2, <2>3
<1>4. ASSUME NEW x \in U
      PROVE  Rank(S, x) = k + Rank(U, x)
  <2> DEFINE B == {s \in U : s < x}
             C == {s \in S : s < x}
  <2>1. C = A \cup B /\ A \cap B = {}
    <3>1. x \in Nat /\ from < x /\ \A s \in S : s \in Nat
      BY <1>0, <1>1
    <3>2. \A s \in S : /\ ~(s <= from /\ s > from) /\ (s <= from \/ s > from)
                       /\ (s <= from => s < x)
      BY <1>0, <3>1
    <3> QED
      BY <1>0, <3>2
  <2>2. IsFiniteSet(B) /\ Cardinality(B) \in Nat
    <3>1. B \subseteq U
      BY <1>0
    <3> HIDE DEF B
    <3> QED
      BY <1>1, <3>1, FS_Subset, FS_CardinalityType
  <2>3. Rank(S, x) = Cardinality(C) /\ Rank(U, x) = Cardinality(B)
    BY DEF Rank
  <2> HIDE DEF A, B, C
  <2>4. Cardinality(A \cup B) = Cardinality(A) + Cardinality(B) - Cardinality(A \cap B)
    BY <1>1, <2>2, FS_Union
  <2> QED
    BY <1>1, <1>2, <2>1, <2>2, <2>3, <2>4, FS_EmptySet
<1>5. Len(Ordered(U)) = Cardinality(U) /\ Len(Ordered(S)) = Cardinality(S)
  BY <1>1, OrderedLists
<1>6. ASSUME NEW i \in 1 .. Cardinality(U)
      PROVE  Ordered(U)[i] = Ordered(S)[k + i]
  <2>1. PICK x \in U : x = Ordered(U)[i] /\ Rank(U, x) = i - 1
    BY <1>1, OrderedLists
  <2>2. Rank(S, x) = k + (i - 1) /\ x \in S
    BY <1>1, <1>4, <2>1
  <2>3. Ordered(S)[Rank(S, x) + 1] = x
    BY <1>1, <2>2, OrderedLists
  <2>4. Rank(S, x) + 1 = k + i
    BY <1>1, <2>2
  <2> QED
    BY <2>1, <2>3, <2>4
<1> QED
  BY <1>0, <1>1, <1>3, <1>5, <1>6
(* Without notices, a step of the log publishes only numbers above all that  *)
(* are published.                                                            *)
LEMMA PublishedGrows ==
  ASSUME LogAssumption, Notices = {}, IInv, DispatchedOnce, [Next]_vars
  PROVE  /\ DispatchedOnce'
         /\ Published \subseteq Published'
         /\ \A x \in Published, y \in Published' \ Published : x < y
<1>a. TypeOK /\ Drawn
  BY DEF IInv
<1>b. /\ next \in Nat /\ log \in [Ids -> Nat] /\ log' \in [Ids -> Nat]
      /\ {"dispatched", "end"} \subseteq Ids
      /\ \A id \in Ids : log[id] <= next
  <2>1. IInv'
    BY StepIInv
  <2> QED
    BY <1>a, <2>1 DEF IInv, TypeOK, Drawn, Ids, Locked
<1> DEFINE Adds == /\ \A id \in Ids : log'[id] = log[id] \/ (log[id] = 0 /\ next < log'[id])
                   /\ DispatchedOnce'
<1>1. ASSUME UNCHANGED <<phase, events>>
      PROVE  Adds
  BY <1>1 DEF events, DispatchedOnce
<1>2. ASSUME NEW w \in Workers, NEW k \in Batches, AppendBatch(w, k)
      PROVE  Adds
  <2>1. /\ Contents(k) \subseteq EventIds /\ Fresh(k) \subseteq Contents(k)
        /\ \A id \in Fresh(k) : next < Numbered(k)[id]
        /\ \A id \in Ids \ Fresh(k) : Numbered(k)[id] = log[id]
    BY <1>a, BatchNumbers
  <2>2. phase' = phase /\ log' = Numbered(k)
    BY <1>2 DEF AppendBatch
  <2>3. "dispatched" \in Ids \ Fresh(k)
    BY <1>b, <2>1 DEF LogAssumption
  <2> QED
    BY <2>1, <2>2, <2>3 DEF Fresh, DispatchedOnce
<1>3. ASSUME NEW w \in Workers, NEW k \in Batches, AppendAgain(w, k)
      PROVE  Adds
  BY <1>3 DEF AppendAgain, DispatchedOnce
<1>4. ASSUME NEW id \in {"dispatched", "end"}, log[id] = 0, Write(id), phase' # "ACCEPTED"
      PROVE  Adds
  <2>1. /\ log'[id] = next + 1
        /\ \A other \in Ids \ {id} : log'[other] = log[other]
    BY <1>4, <1>a, OneNumber
  <2>2. next < next + 1
    BY <1>b
  <2> QED
    BY <1>4, <2>1, <2>2 DEF DispatchedOnce
<1>5. phase # "TERMINAL" => log["end"] = 0
  BY DEF IInv, TerminalEventIsLast
<1>6. Adds
  <2>1. ASSUME NEW w \in Workers, Studio(w)
        PROVE  Adds
    <3>1. CASE \E e \in 0 .. MaxEpoch, o \in Workers \cup {NoOwner} : Acquire(w, e, o)
      BY <1>1, <3>1 DEF Acquire
    <3>2. CASE Mint(w)
      BY <1>1, <3>2 DEF Mint
    <3>3. CASE EndRun(w)
      BY <1>4, <1>5, <3>3 DEF EndRun
    <3> QED
      BY <1>2, <1>3, <2>1, <3>1, <3>2, <3>3 DEF Studio
  <2>2. CASE \E e \in 0 .. MaxEpoch : Release(e)
    BY <1>1, <2>2 DEF Release
  <2>3. CASE MarkDispatched
    BY <1>4, <2>3 DEF MarkDispatched, DispatchedOnce
  <2>4. CASE CancelRun
    BY <1>4, <1>5, <2>4 DEF CancelRun
  <2>5. CASE EndSilently
    BY <2>5 DEF EndSilently, events, DispatchedOnce
  <2>6. CASE Lapse
    BY <1>1, <2>6 DEF Lapse
  <2>7. CASE UNCHANGED vars
    BY <1>1, <2>7 DEF vars
  <2> QED
    BY <2>1, <2>2, <2>3, <2>4, <2>5, <2>6, <2>7 DEF Next, Engine
<1>7. Published \subseteq Published'
  BY <1>b, <1>6 DEF Published
<1>8. ASSUME NEW x \in Published, NEW y \in Published' \ Published
      PROVE  x < y
  <2>1. x \in Nat /\ x <= next
    BY <1>b DEF Published
  <2>2. PICK id \in Ids : y = log'[id]
    BY DEF Published
  <2>3. log'[id] # log[id]
    BY <2>2 DEF Published
  <2>4. next < y /\ y \in Nat
    BY <1>b, <1>6, <2>2, <2>3
  <2> QED
    BY <1>b, <2>1, <2>4
<1> QED
  BY <1>6, <1>7, <1>8

(* A list of members of a set of numbers is a list of numbers.               *)
LEMMA NumbersAreNumbers ==
  ASSUME NEW V \in SUBSET Nat, NEW s \in Seq(V)
  PROVE  s \in Seq(Nat)
<1>1. Len(s) \in Nat /\ s \in [1 .. Len(s) -> V]
  OBVIOUS
<1>2. PICK n \in Nat : n = Len(s)
  BY <1>1
<1>3. s \in [1 .. n -> Nat]
  BY <1>1, <1>2
<1> QED
  BY <1>2, <1>3

(* The feed grows at its end only.                                           *)
LEMMA FeedGrows ==
  ASSUME LogAssumption, Notices = {}, IInv, DispatchedOnce, [Next]_vars
  PROVE  /\ Ordered(Published) \in Seq(Nat) /\ Ordered(Published)' \in Seq(Nat)
         /\ Len(Ordered(Published)) <= Len(Ordered(Published)')
         /\ \A i \in 1 .. Len(Ordered(Published)) : Ordered(Published)'[i] = Ordered(Published)[i]
         /\ \/ Ordered(Published)' = Ordered(Published)
            \/ Len(Ordered(Published)) < Len(Ordered(Published)')
<1>1. IInv'
  BY StepIInv
<1>2. PICK S : S = Published
  OBVIOUS
<1>3. PICK T : T = Published'
  OBVIOUS
<1>4. IsFiniteSet(S) /\ S \subseteq Nat
  <2>1. IsFiniteSet(Published) /\ Published \subseteq 1 .. next /\ next \in Nat
    BY PublishedFinite DEF IInv
  <2> QED
    BY <1>2, <2>1
<1>5. IsFiniteSet(T) /\ T \subseteq Nat
  <2>1. T = {log'[id] : id \in Ids} \ {0} /\ next' \in Nat
    BY <1>1, <1>3 DEF Published, IInv, TypeOK
  <2>2. T \subseteq 1 .. next'
    BY <1>1, <2>1 DEF IInv, TypeOK, Drawn
  <2>3. IsFiniteSet(1 .. next')
    BY <2>1, FS_Interval
  <2> QED
    <3>1. IsFiniteSet(T)
      BY <2>2, <2>3, FS_Subset
    <3>2. \A x \in 1 .. next' : x \in Nat
      BY <2>1
    <3> QED
      BY <2>2, <3>1, <3>2
<1>6. S \subseteq T /\ \A x \in S, y \in T \ S : x < y
  BY <1>2, <1>3, PublishedGrows
<1>7. Ordered(Published) = Ordered(S) /\ Ordered(Published)' = Ordered(T)
  BY <1>2, <1>3 DEF Ordered, Rank
<1>8. /\ Len(Ordered(S)) <= Len(Ordered(T))
      /\ \A i \in 1 .. Len(Ordered(S)) : Ordered(T)[i] = Ordered(S)[i]
      /\ S # T => Len(Ordered(S)) < Len(Ordered(T))
  BY <1>4, <1>5, <1>6, OrderGrows
<1>9. Ordered(S) \in Seq(S) /\ Ordered(T) \in Seq(T)
  BY <1>4, <1>5, OrderedLists
<1>10. Ordered(S) \in Seq(Nat) /\ Ordered(T) \in Seq(Nat)
  BY <1>4, <1>5, <1>9, NumbersAreNumbers
<1> QED
  BY <1>6, <1>7, <1>8, <1>10
(* A front of the feed, and what comes next, are a longer front.             *)
LEMMA Fronts ==
  ASSUME NEW F \in Seq(Nat), NEW s \in Seq(Nat), NEW t \in Seq(Nat),
         Len(s) + Len(t) <= Len(F),
         \A i \in 1 .. Len(s) : s[i] = F[i],
         \A i \in 1 .. Len(t) : t[i] = F[Len(s) + i]
  PROVE  /\ s \o t \in Seq(Nat) /\ Len(s \o t) = Len(s) + Len(t)
         /\ \A i \in 1 .. Len(s \o t) : (s \o t)[i] = F[i]
         /\ s \o t = SubSeq(F, 1, Len(s) + Len(t))
         /\ t # <<>> => (s \o t)[Len(s \o t)] = t[Len(t)]
<1>1. Len(s) \in Nat /\ Len(t) \in Nat /\ Len(F) \in Nat
  OBVIOUS
<1>2. PICK st : st = s \o t
  OBVIOUS
<1>3. PICK n : n = Len(s) + Len(t)
  OBVIOUS
<1>4. /\ st \in Seq(Nat) /\ Len(st) = n /\ n \in 0 .. Len(F) /\ DOMAIN st = 1 .. n
      /\ \A i \in 1 .. Len(s) : st[i] = s[i]
      /\ \A i \in 1 .. Len(t) : st[Len(s) + i] = t[i]
  <2>1. st \in Seq(Nat) /\ Len(st) = n
    BY <1>2, <1>3
  <2>2. n \in 0 .. Len(F)
    BY <1>1, <1>3
  <2>3. \A i \in 1 .. Len(s) : st[i] = s[i]
    BY <1>2
  <2>4. \A i \in 1 .. Len(t) : st[Len(s) + i] = t[i]
    BY <1>2
  <2> QED
    BY <2>1, <2>2, <2>3, <2>4
<1>5. ASSUME NEW i \in 1 .. n
      PROVE  st[i] = F[i]
  <2>1. CASE i \in 1 .. Len(s)
    BY <1>4, <2>1
  <2>2. CASE i \notin 1 .. Len(s)
    <3>1. PICK j \in 1 .. Len(t) : i = Len(s) + j
      <4>1. i - Len(s) \in 1 .. Len(t) /\ i = Len(s) + (i - Len(s))
        BY <1>1, <1>3, <2>2
      <4> QED
        BY <4>1
    <3> QED
      BY <1>4, <3>1
  <2> QED
    BY <2>1, <2>2
<1>6. st = SubSeq(F, 1, n)
  <2>1. PICK f : f = SubSeq(F, 1, n)
    OBVIOUS
  <2>2. f \in Seq(Nat) /\ Len(f) = n /\ \A i \in 1 .. n : f[i] = F[i]
    BY <1>1, <1>4, <2>1
  <2>3. st = f
    <3>1. n \in Nat /\ DOMAIN f = 1 .. n /\ DOMAIN st = 1 .. n
      BY <1>1, <1>4, <2>2
    <3>2. f \in [1 .. n -> Nat] /\ st \in [1 .. n -> Nat]
      BY <1>4, <2>2, <3>1
    <3>3. \A i \in 1 .. n : st[i] = f[i]
      BY <1>5, <2>2
    <3>4. st = [i \in 1 .. n |-> st[i]] /\ f = [i \in 1 .. n |-> f[i]]
      BY <3>2
    <3>5. [i \in 1 .. n |-> st[i]] = [i \in 1 .. n |-> f[i]]
      BY <3>3
    <3> QED
      BY <3>4, <3>5
  <2> QED
    BY <2>1, <2>3
<1>7. t # <<>> => st[n] = t[Len(t)]
  <2> SUFFICES ASSUME t # <<>>
               PROVE  st[n] = t[Len(t)]
    OBVIOUS
  <2>1. Len(t) \in 1 .. Len(t)
    BY <1>1
  <2> QED
    BY <1>3, <1>4, <2>1
<1> QED
  BY <1>2, <1>3, <1>4, <1>5, <1>6, <1>7

(* A poll that asks for what follows the last event received reads the next  *)
(* of the feed.                                                              *)
LEMMA ReadsOn ==
  ASSUME StreamAssumption, TypeOK, Drawn, NEW c \in Clients,
         recv[c] \in Seq(Nat), Follows(recv[c], 0)
  PROVE  Follows(After(LastReceived(c)), Len(recv[c]))
<1>1. PICK S : S = Published
  OBVIOUS
<1>2. PICK k : k = Len(recv[c])
  OBVIOUS
<1>3. PICK F : F = Ordered(S)
  OBVIOUS
<1>4. PICK from : from = LastReceived(c)
  OBVIOUS
<1>5. PICK U : U = {s \in S : s > from}
  OBVIOUS
<1>6. IsFiniteSet(S) /\ S \in SUBSET (Nat \ {0}) /\ S \in SUBSET Nat
      /\ IsFiniteSet(U) /\ U \in SUBSET Nat
  <2>1. IsFiniteSet(Published) /\ Published \subseteq 1 .. next /\ next \in Nat
    BY PublishedFinite
  <2>2. IsFiniteSet(S) /\ S \subseteq 1 .. next /\ next \in Nat /\ U \subseteq S
    BY <1>1, <1>5, <2>1
  <2> QED
    <3>1. \A x \in S : x \in Nat \ {0}
      BY <2>2
    <3>2. IsFiniteSet(U)
      BY <2>2, FS_Subset
    <3> QED
      BY <2>2, <3>1, <3>2
<1>7. F \in Seq(S) /\ Len(F) = Cardinality(S) /\ Cardinality(S) \in Nat
      /\ \A i \in 1 .. Cardinality(S) : F[i] \in S
  BY <1>3, <1>6, OrderedLists, FS_CardinalityType
<1>8. k \in 0 .. Len(F) /\ \A i \in 1 .. k : recv[c][i] = F[i]
  BY <1>1, <1>2, <1>3, <1>7 DEF Follows
<1>9. from = (IF k = 0 THEN 0 ELSE F[k]) /\ from \in Nat
  <2>1. recv[c] = <<>> <=> k = 0
    BY <1>2
  <2>2. CASE k = 0
    BY <1>4, <2>1, <2>2 DEF LastReceived
  <2>3. CASE k # 0
    <3>1. k \in 1 .. k /\ k \in 1 .. Cardinality(S)
      BY <1>7, <1>8, <2>3
    <3> QED
      BY <1>2, <1>4, <1>6, <1>7, <1>8, <2>1, <2>3, <3>1 DEF LastReceived
  <2> QED
    BY <2>2, <2>3
<1>10. PICK all : all = Ordered(U)
  OBVIOUS
<1>11. k + Len(all) = Len(F) /\ \A i \in 1 .. Len(all) : all[i] = F[k + i]
  <2>1. k \in 0 .. Cardinality(S) /\ from = (IF k = 0 THEN 0 ELSE Ordered(S)[k])
    BY <1>3, <1>7, <1>8, <1>9
  <2>2. /\ k + Len(Ordered(U)) = Len(Ordered(S))
        /\ \A i \in 1 .. Len(Ordered(U)) : Ordered(U)[i] = Ordered(S)[k + i]
    BY <1>5, <1>6, <1>9, <2>1, OrderSplits
  <2> QED
    BY <1>3, <1>10, <2>2
<1>12. all \in Seq(U)
  BY <1>6, <1>10, OrderedLists
<1>13. PICK n : n = IF Len(all) < BatchLimit THEN Len(all) ELSE BatchLimit
  OBVIOUS
<1>14. n \in 0 .. Len(all) /\ Len(all) \in Nat
  BY <1>12, <1>13 DEF StreamAssumption
<1>15. PICK rows : rows = After(from)
  OBVIOUS
<1>16. rows = SubSeq(all, 1, n)
  BY <1>1, <1>5, <1>10, <1>13, <1>15 DEF After
<1>17. Len(rows) = n /\ \A i \in 1 .. n : rows[i] = all[i]
  BY <1>12, <1>14, <1>16
<1>18. k + Len(rows) <= Len(F) /\ \A i \in 1 .. Len(rows) : rows[i] = F[k + i]
  BY <1>8, <1>11, <1>14, <1>17
<1> QED
  BY <1>1, <1>2, <1>3, <1>4, <1>15, <1>18 DEF Follows
-----------------------------------------------------------------------------
(* The log publishes at the end of the feed; what clients and polls hold     *)
(* stays where it was in it.                                                 *)
LEMMA FeedLogStep ==
  ASSUME LogAssumption, Notices = {}, FeedInv, [Next]_vars, UNCHANGED stream
  PROVE  /\ DispatchedOnce' /\ \A c \in Clients : InFeed(c)'
         /\ [Feed!Next]_<<Ordered(Published), recv>>
<1>a. IInv /\ DispatchedOnce
  BY DEF FeedInv, StreamInv
<1>1. PICK F \in Seq(Nat) : F = Ordered(Published)
  BY <1>a, FeedGrows
<1>2. PICK G \in Seq(Nat) : G = Ordered(Published)'
  BY <1>a, FeedGrows
<1>3. /\ Len(F) <= Len(G)
      /\ \A i \in 1 .. Len(F) : G[i] = F[i]
      /\ G = F \/ Len(F) < Len(G)
  BY <1>a, <1>1, <1>2, FeedGrows
<1>4. UNCHANGED <<conn, cursor, poll, recv>>
  BY DEF stream
<1>5. ASSUME NEW k \in Nat, NEW s, Len(s) \in Nat, Follows(s, k)
      PROVE  Follows(s, k)'
  <2>1. k + Len(s) <= Len(F) /\ \A i \in 1 .. Len(s) : s[i] = F[k + i]
    BY <1>1, <1>5 DEF Follows
  <2>2. \A i \in 1 .. Len(s) : k + i \in 1 .. Len(F)
    BY <1>5, <2>1
  <2>3. k + Len(s) <= Len(G) /\ \A i \in 1 .. Len(s) : s[i] = G[k + i]
    BY <1>3, <1>5, <2>1, <2>2
  <2> QED
    BY <1>2, <2>3 DEF Follows
<1>6. ASSUME NEW c \in Clients
      PROVE  InFeed(c)'
  <2>1. recv[c] \in Seq(Nat) /\ \A p \in Polls : poll[c][p].rows \in Seq(Nat)
    BY DEF FeedInv, StreamInv, StreamTypeOK, PollStates
  <2>2. Follows(recv[c], 0)'
    <3>1. PICK s \in Seq(Nat) : s = recv[c] /\ s = recv'[c]
      BY <1>4, <2>1
    <3>2. Follows(s, 0) /\ Len(s) \in Nat
      <4>1. Follows(recv[c], 0)
        BY DEF FeedInv, InFeed
      <4> QED
        BY <3>1, <4>1
    <3>3. Follows(s, 0)'
      BY <1>5, <3>2
    <3> QED
      BY <3>1, <3>3 DEF Follows
  <2>3. ASSUME NEW p \in Polls
        PROVE  Follows(poll[c][p].rows, Len(recv[c]))'
    <3>1. PICK s \in Seq(Nat) : s = poll[c][p].rows /\ s = poll'[c][p].rows
      BY <1>4, <2>1
    <3>2. Len(recv[c]) \in Nat /\ Len(s) \in Nat
      BY <2>1, <3>1
    <3>3. PICK k \in Nat : k = Len(recv[c])
      BY <3>2
    <3>4. Follows(s, k)
      BY <3>1, <3>3 DEF FeedInv, InFeed
    <3>5. Follows(s, k)'
      BY <1>5, <3>2, <3>4
    <3>6. Len(recv'[c]) = k /\ poll'[c][p].rows = s
      BY <1>4, <3>1, <3>3
    <3> QED
      BY <3>5, <3>6 DEF Follows
  <2>4. LastReceived(c)' = LastReceived(c)
    BY <1>4 DEF LastReceived
  <2> QED
    BY <1>4, <2>2, <2>3, <2>4 DEF InFeed, FeedInv
<1>7. [Feed!Next]_<<Ordered(Published), recv>>
  <2>1. CASE G = F
    BY <1>1, <1>2, <1>4, <2>1
  <2>2. CASE Len(F) < Len(G)
    <3>1. SubSeq(G, 1, Len(F)) = F
      <4>1. PICK f : f = SubSeq(G, 1, Len(F))
        OBVIOUS
      <4>2. f \in Seq(Nat) /\ Len(f) = Len(F) /\ \A i \in 1 .. Len(F) : f[i] = F[i]
        BY <1>3, <4>1
      <4>3. f = [i \in 1 .. Len(F) |-> f[i]] /\ F = [i \in 1 .. Len(F) |-> F[i]]
        BY <4>2
      <4>4. [i \in 1 .. Len(F) |-> f[i]] = [i \in 1 .. Len(F) |-> F[i]]
        BY <4>2
      <4> QED
        BY <4>1, <4>3, <4>4
    <3>2. Feed!Publish
      BY <1>1, <1>2, <1>4, <2>2, <3>1 DEF Feed!Publish
    <3> QED
      BY <3>2 DEF Feed!Next
  <2> QED
    BY <1>3, <2>1, <2>2
<1> QED
  BY <1>a, <1>6, <1>7, PublishedGrows

(* With one poll at a time, a client is given the next of the feed or        *)
(* nothing, and asks again from where it stands.                             *)
LEMMA FeedDelivery ==
  ASSUME FeedInv, UNCHANGED vars, NEW c \in Clients, NEW p \in Polls,
         NEW part \in Seq(Nat), Len(part) <= Len(poll[c][p].rows),
         \A i \in 1 .. Len(part) : part[i] = poll[c][p].rows[i],
         recv' = [recv EXCEPT ![c] = @ \o part]
  PROVE  /\ Follows(recv[c], 0)'
         /\ recv'[c] \in Seq(Nat)
         /\ part # <<>> => LastReceived(c)' = part[Len(part)]
         /\ part = <<>> => recv'[c] = recv[c]
         /\ [Feed!Next]_<<Ordered(Published), recv>>
<1>1. PICK F \in Seq(Nat) : F = Ordered(Published)
  <2>1. IsFiniteSet(Published) /\ Published \subseteq 1 .. next /\ next \in Nat
    BY PublishedFinite DEF FeedInv, StreamInv, IInv
  <2>2. Published \in SUBSET Nat
    BY <2>1
  <2>3. Ordered(Published) \in Seq(Published)
    BY <2>1, <2>2, OrderedLists
  <2> QED
    BY <2>2, <2>3, NumbersAreNumbers
<1>2. Ordered(Published)' = Ordered(Published)
  BY DEF vars, events, Ordered, Rank, Published
<1>3. recv[c] \in Seq(Nat) /\ poll[c][p].rows \in Seq(Nat) /\ recv \in [Clients -> Seq(Nat)]
  BY DEF FeedInv, StreamInv, StreamTypeOK, PollStates
<1>4. Follows(recv[c], 0) /\ Follows(poll[c][p].rows, Len(recv[c]))
  BY DEF FeedInv, InFeed
<1>5. PICK s \in Seq(Nat) : s = recv[c]
  BY <1>3
<1>6. /\ Len(s) + Len(part) <= Len(F)
      /\ \A i \in 1 .. Len(s) : s[i] = F[i]
      /\ \A i \in 1 .. Len(part) : part[i] = F[Len(s) + i]
  <2>1. Len(s) + Len(poll[c][p].rows) <= Len(F)
        /\ \A i \in 1 .. Len(poll[c][p].rows) : poll[c][p].rows[i] = F[Len(s) + i]
    BY <1>1, <1>4, <1>5 DEF Follows
  <2>2. \A i \in 1 .. Len(s) : s[i] = F[0 + i]
    BY <1>1, <1>4, <1>5 DEF Follows
  <2>3. Len(poll[c][p].rows) \in Nat /\ Len(s) \in Nat /\ Len(part) \in Nat /\ Len(F) \in Nat
    BY <1>3
  <2>4. \A i \in 1 .. Len(part) : i \in 1 .. Len(poll[c][p].rows)
    BY <2>3
  <2>5. \A i \in 1 .. Len(s) : 0 + i = i
    BY <2>3
  <2>6. Len(s) + Len(part) <= Len(F)
    BY <2>1, <2>3
  <2>7. \A i \in 1 .. Len(s) : s[i] = F[i]
    BY <2>2, <2>5
  <2>8. \A i \in 1 .. Len(part) : part[i] = F[Len(s) + i]
    BY <2>1, <2>4
  <2> QED
    BY <2>6, <2>7, <2>8
<1>7. /\ s \o part \in Seq(Nat) /\ Len(s \o part) = Len(s) + Len(part)
      /\ \A i \in 1 .. Len(s \o part) : (s \o part)[i] = F[i]
      /\ s \o part = SubSeq(F, 1, Len(s) + Len(part))
      /\ part # <<>> => (s \o part)[Len(s \o part)] = part[Len(part)]
  BY <1>6, Fronts
<1>8. PICK new \in Seq(Nat) : new = s \o part
  BY <1>7
<1>9. recv'[c] = new /\ recv' = [recv EXCEPT ![c] = new]
  BY <1>3, <1>5, <1>8
<1>10. Follows(recv[c], 0)'
  <2>1. 0 + Len(new) <= Len(F) /\ \A i \in 1 .. Len(new) : new[i] = F[0 + i]
    <3>1. \A i \in 1 .. Len(new) : 0 + i = i
      BY <1>8
    <3>2. \A i \in 1 .. Len(new) : new[i] = F[i]
      BY <1>7, <1>8
    <3>3. 0 + Len(new) <= Len(F)
      BY <1>6, <1>7, <1>8
    <3> QED
      BY <3>1, <3>2, <3>3
  <2> QED
    BY <1>1, <1>2, <1>9, <2>1 DEF Follows
<1>11. part # <<>> => LastReceived(c)' = part[Len(part)]
  <2> SUFFICES ASSUME part # <<>>
               PROVE  LastReceived(c)' = part[Len(part)]
    OBVIOUS
  <2>1. Len(part) # 0 /\ Len(part) \in Nat /\ Len(s) \in Nat
    OBVIOUS
  <2>2. Len(new) # 0
    BY <1>7, <1>8, <2>1
  <2>3. new # <<>>
    BY <2>2
  <2> QED
    BY <1>7, <1>8, <1>9, <2>3 DEF LastReceived
<1>12. part = <<>> => new = s
  BY <1>8
<1>13. [Feed!Next]_<<Ordered(Published), recv>>
  <2>1. CASE part = <<>>
    <3>1. recv' = recv
      BY <1>3, <1>5, <1>9, <1>12, <2>1
    <3> QED
      BY <1>2, <3>1
  <2>2. CASE part # <<>>
    <3>1. Len(s) + Len(part) \in Len(s) + 1 .. Len(F)
      <4>1. Len(part) # 0 /\ Len(part) \in Nat /\ Len(s) \in Nat /\ Len(F) \in Nat
        BY <2>2
      <4> QED
        BY <1>6, <4>1
    <3>2. Feed!Receive(c)
      BY <1>1, <1>2, <1>5, <1>7, <1>8, <1>9, <3>1 DEF Feed!Receive
    <3> QED
      BY <3>2 DEF Feed!Next
  <2> QED
    BY <2>1, <2>2
<1> QED
  BY <1>5, <1>9, <1>10, <1>11, <1>12, <1>13
(* A step of a client: what it is given comes next in the feed, and its one  *)
(* poll goes on from there.                                                  *)
LEMMA FeedClientStep ==
  ASSUME StreamAssumption, \A p, q \in Polls : p = q,
         FeedInv, NEW c \in Clients, Client(c)
  PROVE  /\ InFeed(c)'
         /\ [Feed!Next]_<<Ordered(Published), recv>>
<1>a. UNCHANGED vars
  BY DEF Client, Connect, Break, Cap, Tick, ReadRun, ReadEvents, Emit, FailPoll
<1>b. Ordered(Published)' = Ordered(Published)
  BY <1>a DEF vars, events, Ordered, Rank, Published
<1>c. /\ recv \in [Clients -> Seq(Nat)] /\ recv[c] \in Seq(Nat)
      /\ conn \in [Clients -> {"closed", "open", "done"}]
      /\ cursor \in [Clients -> Nat]
      /\ poll \in [Clients -> [Polls -> PollStates]]
      /\ \A p \in Polls : poll[c][p] \in PollStates /\ poll[c][p].rows \in Seq(Nat)
  BY DEF FeedInv, StreamInv, StreamTypeOK, PollStates
<1>d. /\ Follows(recv[c], 0)
      /\ conn[c] = "open" => cursor[c] = LastReceived(c)
      /\ \A p \in Polls : /\ poll[c][p].at # "idle" => /\ poll[c][p].from = LastReceived(c)
                                                      /\ conn[c] = "open"
                          /\ Follows(poll[c][p].rows, Len(recv[c]))
  BY DEF FeedInv, InFeed, StreamInv, ClientSound, PollSound
<1>e. ASSUME NEW s, NEW k, Follows(s, k)
      PROVE  Follows(s, k)'
  BY <1>b, <1>e DEF Follows
<1>f. ASSUME Follows(recv[c], 0)', recv'[c] \in Seq(Nat)
      PROVE  \A p \in Polls : poll'[c][p].rows = <<>> => Follows(poll[c][p].rows, Len(recv[c]))'
  <2>1. PICK F \in Seq(Nat) : F = Ordered(Published)'
    <3>1. IsFiniteSet(Published) /\ Published \subseteq 1 .. next /\ next \in Nat
      BY PublishedFinite DEF FeedInv, StreamInv, IInv
    <3>2. Published \in SUBSET Nat
      BY <3>1
    <3>3. Ordered(Published) \in Seq(Published)
      BY <3>1, <3>2, OrderedLists
    <3> QED
      BY <1>b, <3>2, <3>3, NumbersAreNumbers
  <2>2. 0 + Len(recv'[c]) <= Len(F)
    BY <1>f, <2>1 DEF Follows
  <2>3. Len(recv'[c]) + 0 <= Len(F)
    BY <1>f, <2>2
  <2>4. Len(<<>>) = 0 /\ 1 .. 0 = {}
    OBVIOUS
  <2> QED
    BY <2>1, <2>3, <2>4 DEF Follows
<1>1. CASE Connect(c)
  <2>1. UNCHANGED <<poll, recv>> /\ cursor'[c] = LastReceived(c) /\ LastReceived(c)' = LastReceived(c)
    BY <1>c, <1>1 DEF Connect, ResumeAt, LastReceived
  <2> QED
    BY <1>b, <1>d, <1>e, <2>1, ZenonT(40) DEF InFeed, Follows
<1>2. CASE Break(c) \/ Cap(c)
  <2>1. conn'[c] = "closed" /\ \A p \in Polls : poll'[c][p] = Idle
    BY <1>2, <1>c DEF Break, Cap, Close
  <2> DEFINE Given == /\ Follows(recv[c], 0)' /\ recv'[c] \in Seq(Nat)
                      /\ [Feed!Next]_<<Ordered(Published), recv>>
  <2>2. Given
    <3>1. CASE UNCHANGED recv
      BY <1>b, <1>c, <1>d, <3>1 DEF Follows
    <3>2. ASSUME NEW p \in Polls, NEW n \in 1 .. Len(poll[c][p].rows),
                 recv' = [recv EXCEPT ![c] = @ \o SubSeq(poll[c][p].rows, 1, n)]
          PROVE  Given
      <4>1. PICK rows \in Seq(Nat) : rows = poll[c][p].rows
        BY <1>c
      <4>2. PICK part : part = SubSeq(rows, 1, n)
        OBVIOUS
      <4>3. part \in Seq(Nat) /\ Len(part) <= Len(rows)
            /\ \A i \in 1 .. Len(part) : part[i] = rows[i]
        BY <4>1, <4>2
      <4>4. recv' = [recv EXCEPT ![c] = @ \o part]
        BY <3>2, <4>1, <4>2
      <4> QED
        BY <1>a, <4>1, <4>3, <4>4, FeedDelivery
    <3> QED
      BY <1>2, <3>1, <3>2 DEF Break, Cap
  <2>3. ASSUME NEW p \in Polls
        PROVE  /\ poll'[c][p].at = "idle"
               /\ Follows(poll[c][p].rows, Len(recv[c]))'
    BY <1>f, <2>1, <2>2, IdleSound
  <2> QED
    BY <2>1, <2>2, <2>3 DEF InFeed
<1>3. ASSUME NEW p \in Polls,
             Tick(c, p) \/ ReadRun(c, p) \/ ReadEvents(c, p) \/ FailPoll(c, p)
      PROVE  InFeed(c)' /\ [Feed!Next]_<<Ordered(Published), recv>>
  <2>1. UNCHANGED <<conn, cursor, recv>> /\ LastReceived(c)' = LastReceived(c)
    BY <1>3 DEF Tick, ReadRun, ReadEvents, FailPoll, LastReceived
  <2>2. Follows(recv[c], 0)'
    BY <1>b, <1>d, <2>1 DEF Follows
  <2>3. /\ poll'[c][p].at # "idle" => poll'[c][p].from = LastReceived(c)
        /\ Follows(poll[c][p].rows, Len(recv[c]))'
    <3>1. PICK q \in PollStates : q = poll[c][p]
      BY <1>c
    <3>2. /\ q.at # "idle" => q.from = LastReceived(c)
          /\ Follows(q.rows, Len(recv[c]))
      BY <1>d, <3>1
    <3>3. CASE Tick(c, p)
      <4>1. poll'[c][p] = [Idle EXCEPT !.at = "run", !.from = cursor[c]] /\ conn[c] = "open"
        BY <1>c, <3>3 DEF Tick
      <4>2. poll'[c][p].from = cursor[c] /\ poll'[c][p].rows = <<>>
        BY <4>1 DEF Idle
      <4> QED
        BY <1>c, <1>d, <1>f, <2>1, <2>2, <4>1, <4>2
    <3>4. CASE ReadRun(c, p)
      <4>1. poll'[c][p] = [q EXCEPT !.at = "events", !.ended = phase = "TERMINAL"] /\ q.at = "run"
        BY <1>c, <3>1, <3>4 DEF ReadRun
      <4>2. poll'[c][p].from = q.from /\ poll'[c][p].rows = q.rows
        BY <4>1 DEF PollStates
      <4> QED
        BY <1>b, <2>1, <3>2, <4>1, <4>2 DEF Follows
    <3>5. CASE ReadEvents(c, p)
      <4>1. poll'[c][p] = [q EXCEPT !.at = "emit", !.rows = After(q.from)] /\ q.at = "events"
        BY <1>c, <3>1, <3>5 DEF ReadEvents
      <4>2. poll'[c][p].from = q.from /\ poll'[c][p].rows = After(q.from)
        BY <4>1 DEF PollStates
      <4>3. Follows(After(LastReceived(c)), Len(recv[c]))
        BY <1>c, <1>d, ReadsOn DEF FeedInv, StreamInv, IInv
      <4>4. q.from = LastReceived(c)
        BY <3>2, <4>1
      <4>5. PICK rows : rows = After(q.from)
        OBVIOUS
      <4>6. Follows(rows, Len(recv[c])) /\ poll'[c][p].rows = rows
        BY <4>2, <4>3, <4>4, <4>5
      <4> QED
        BY <1>b, <2>1, <4>2, <4>4, <4>6 DEF Follows
    <3>6. CASE FailPoll(c, p)
      <4>1. poll'[c][p] = Idle
        BY <1>c, <3>6 DEF FailPoll
      <4> QED
        BY <1>c, <1>f, <2>1, <2>2, <4>1, IdleSound
    <3> QED
      BY <1>3, <3>3, <3>4, <3>5, <3>6
  <2>4. conn'[c] = "open" => cursor'[c] = LastReceived(c)'
    BY <1>d, <2>1
  <2> QED
    BY <1>b, <2>1, <2>2, <2>3, <2>4 DEF InFeed
<1>4. ASSUME NEW p \in Polls, Emit(c, p)
      PROVE  InFeed(c)' /\ [Feed!Next]_<<Ordered(Published), recv>>
  <2>1. PICK rows \in Seq(Nat) : rows = poll[c][p].rows
    BY <1>c
  <2>2. /\ recv' = [recv EXCEPT ![c] = @ \o rows]
        /\ cursor'[c] = IF rows = <<>> THEN cursor[c] ELSE rows[Len(rows)]
        /\ poll[c][p].at = "emit" /\ poll'[c][p] = Idle
    BY <1>c, <1>4, <2>1 DEF Emit, Close
  <2>3. Len(rows) <= Len(poll[c][p].rows) /\ \A i \in 1 .. Len(rows) : rows[i] = poll[c][p].rows[i]
    BY <2>1
  <2>4. /\ Follows(recv[c], 0)'
        /\ recv'[c] \in Seq(Nat)
        /\ rows # <<>> => LastReceived(c)' = rows[Len(rows)]
        /\ rows = <<>> => recv'[c] = recv[c]
        /\ [Feed!Next]_<<Ordered(Published), recv>>
    BY <1>a, <2>2, <2>3, FeedDelivery
  <2>5. cursor'[c] = LastReceived(c)'
    <3>1. cursor[c] = LastReceived(c)
      BY <1>d, <2>2
    <3> QED
      BY <2>2, <2>4, <3>1 DEF LastReceived
  <2>6. ASSUME NEW u \in Polls
        PROVE  /\ poll'[c][u].at = "idle"
               /\ Follows(poll[c][u].rows, Len(recv[c]))'
    <3>1. u = p
      OBVIOUS
    <3> QED
      BY <1>f, <2>2, <2>4, <3>1, IdleSound
  <2> QED
    BY <2>4, <2>5, <2>6 DEF InFeed
<1> QED
  BY <1>1, <1>2, <1>3, <1>4 DEF Client
(* Every step keeps the invariant of the refinement and is a step of the     *)
(* feed or none.                                                             *)
LEMMA FeedStep ==
  ASSUME LogAssumption, StreamAssumption, Notices = {}, \A p, q \in Polls : p = q,
         FeedInv, [StreamNext]_svars
  PROVE  FeedInv' /\ [Feed!Next]_<<Ordered(Published), recv>>
<1>1. StreamInv'
  BY StreamStep DEF FeedInv
<1>2. CASE [Next]_vars /\ UNCHANGED stream
  BY <1>1, <1>2, FeedLogStep DEF FeedInv
<1>3. ASSUME NEW c \in Clients, Client(c)
      PROVE  FeedInv' /\ [Feed!Next]_<<Ordered(Published), recv>>
  <2>1. InFeed(c)' /\ [Feed!Next]_<<Ordered(Published), recv>>
    BY <1>3, FeedClientStep
  <2>2. UNCHANGED vars
    BY <1>3 DEF Client, Connect, Break, Cap, Tick, ReadRun, ReadEvents, Emit, FailPoll
  <2>3. DispatchedOnce' /\ Ordered(Published)' = Ordered(Published)
    BY <2>2 DEF FeedInv, DispatchedOnce, vars, events, Ordered, Rank, Published
  <2>4. ASSUME NEW d \in Clients, d # c
        PROVE  InFeed(d)'
    <3>1. conn'[d] = conn[d] /\ cursor'[d] = cursor[d] /\ poll'[d] = poll[d] /\ recv'[d] = recv[d]
      BY <1>3, <2>4, OtherClients DEF FeedInv, StreamInv
    <3>2. LastReceived(d)' = LastReceived(d)
      BY <3>1 DEF LastReceived
    <3>3. InFeed(d)
      BY DEF FeedInv
    <3>4. Follows(recv[d], 0)'
      BY <2>3, <3>1, <3>3 DEF InFeed, Follows
    <3>5. \A p \in Polls : Follows(poll[d][p].rows, Len(recv[d]))'
      BY <2>3, <3>1, <3>3, ZenonT(40) DEF InFeed, Follows
    <3> QED
      BY <3>1, <3>2, <3>3, <3>4, <3>5 DEF InFeed
  <2> QED
    BY <1>1, <2>1, <2>3, <2>4 DEF FeedInv
<1> QED
  BY <1>2, <1>3 DEF StreamNext, svars

(* The feed starts empty.                                                    *)
LEMMA FeedStart ==
  ASSUME LogAssumption, StreamAssumption, StreamInit
  PROVE  FeedInv /\ Feed!Init
<1>1. StreamInv
  BY StreamStart
<1>2. Published = {}
  BY DEF StreamInit, Init, Published
<1>3. /\ Cardinality(Published) = 0 /\ 1 .. 0 = {}
  BY <1>2, FS_EmptySet
<1>4. Ordered(Published) = <<>>
  BY <1>3 DEF Ordered
<1>5. "dispatched" \in Ids
  BY DEF Ids, Locked
<1>6. DispatchedOnce
  BY <1>5 DEF DispatchedOnce, StreamInit, Init
<1>7. ASSUME NEW c \in Clients
      PROVE  InFeed(c)
  <2>1. recv[c] = <<>> /\ conn[c] = "closed" /\ \A p \in Polls : poll[c][p] = Idle
    BY DEF StreamInit
  <2>2. Follows(<<>>, 0)
    BY <1>4 DEF Follows
  <2>3. Len(recv[c]) = 0
    BY <2>1
  <2> QED
    BY <2>1, <2>2, <2>3, IdleSound DEF InFeed
<1> QED
  BY <1>1, <1>4, <1>6, <1>7 DEF FeedInv, Feed!Init, StreamInit

(* The stream implements the feed: with no notices and no two polls of a     *)
(* connection at once, each client is given the events in their one order,   *)
(* none skipped and none twice, over any number of broken connections        *)
(* (conversations.service.ts:846).                                           *)
THEOREM StreamIsFeed ==
  ASSUME LogAssumption, StreamAssumption, Notices = {}, \A p, q \in Polls : p = q
  PROVE  StreamSpec => IsFeed
<1>1. StreamInit => FeedInv /\ Feed!Init
  BY FeedStart
<1>2. FeedInv /\ [StreamNext]_svars => FeedInv' /\ [Feed!Next]_<<Ordered(Published), recv>>
  BY FeedStep
<1> QED
  BY <1>1, <1>2, PTL DEF StreamSpec, IsFeed, Feed!Spec
=============================================================================
