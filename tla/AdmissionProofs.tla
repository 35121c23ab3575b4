--------------------------- MODULE AdmissionProofs ---------------------------
(* How far the quota wall can be overshot, and that a key makes one run.     *)
EXTENDS Admission, FiniteSetTheorems, TLAPS

Past(t) == tx[t].pc \in {"locked", "held", "counted"}

(* The idempotency keys in flight are distinct and not yet recorded. *)
KeysInv ==
  /\ \A t, u \in Tx : t # u /\ tx[t].pc # "idle" /\ tx[u].pc # "idle" /\ tx[t].key # NoKey
       => tx[t].key # tx[u].key
  /\ \A t \in Tx : tx[t].pc # "idle" /\ tx[t].key # NoKey => record[tx[t].key] = NoRun
  /\ OneRunPerKey

(* A conversation has one active run, or one transaction about to make one. *)
ConversationsInv ==
  /\ \A t \in Tx : tx[t].pc # "idle" => tx[t].conv \in Conversations
  /\ \A r \in Active : run[r].conv \in Conversations
  /\ \A t, u \in Tx : t # u /\ Past(t) /\ Past(u) => tx[t].conv # tx[u].conv
  /\ \A t \in Tx, r \in Active : Past(t) => tx[t].conv # run[r].conv
  /\ \A r, q \in Active : r # q => run[r].conv # run[q].conv

(* An active run is counted by the wall unless its reservation lapsed. *)
LateInv == \A r \in Active : r \in OpenReservations \cup late

Inv == TypeOK /\ KeysInv /\ ConversationsInv /\ LateInv /\ WallOvershoot /\ WallAtWorst

-----------------------------------------------------------------------------
(* Counting. *)

LEMMA Sizes ==
  ASSUME TypeOK
  PROVE  /\ IsFiniteSet(ledger) /\ IsFiniteSet(late) /\ IsFiniteSet(Active)
         /\ IsFiniteSet(OpenReservations) /\ IsFiniteSet(Counted)
         /\ Cardinality(ledger) \in Nat /\ Cardinality(late) \in Nat
         /\ Cardinality(Active) \in Nat /\ Cardinality(OpenReservations) \in Nat
         /\ Cardinality(Counted) \in Nat /\ Cardinality(Counted) <= Cardinality(Tx)
         /\ Cardinality(Tx) \in Nat /\ Cardinality(Tx) > 0
         /\ Cardinality(Conversations) \in Nat /\ Cardinality(Conversations) > 0
         /\ Limit \in Nat
<1>1. /\ ledger \in SUBSET Runs /\ late \in SUBSET Runs /\ Active \in SUBSET Runs
      /\ OpenReservations \in SUBSET Runs /\ Counted \in SUBSET Tx
  BY DEF TypeOK, Active, OpenReservations, Counted
<1>2. /\ IsFiniteSet(ledger) /\ IsFiniteSet(late) /\ IsFiniteSet(Active)
      /\ IsFiniteSet(OpenReservations) /\ IsFiniteSet(Counted)
      /\ Cardinality(Counted) <= Cardinality(Tx)
  BY <1>1, FS_Subset, AdmissionAssumption
<1>3. /\ Cardinality(Tx) \in Nat /\ Cardinality(Tx) # 0
      /\ Cardinality(Conversations) \in Nat /\ Cardinality(Conversations) # 0
  BY FS_CardinalityType, FS_EmptySet, AdmissionAssumption
<1> QED
  BY <1>2, <1>3, FS_CardinalityType, AdmissionAssumption

(* Active runs and counted requests are of different conversations. *)
LEMMA OnePerConversation ==
  ASSUME TypeOK, ConversationsInv
  PROVE  Cardinality(Active) + Cardinality(Counted) <= Cardinality(Conversations)
<1> DEFINE f == [r \in Active |-> run[r].conv]
           g == [t \in Counted |-> tx[t].conv]
           A == {run[r].conv : r \in Active}
           B == {tx[t].conv : t \in Counted}
<1>1. A \in SUBSET Conversations /\ B \in SUBSET Conversations
  BY DEF ConversationsInv, Counted
<1>2. A \cap B = {}
  BY DEF ConversationsInv, Counted, Past
<1>3. f \in Injection(Active, A)
  BY DEF ConversationsInv, Injection, IsInjective
<1>4. g \in Injection(Counted, B)
  BY DEF ConversationsInv, Counted, Past, Injection, IsInjective
<1> HIDE DEF f, g, A, B
<1>5. IsFiniteSet(A) /\ IsFiniteSet(B) /\ IsFiniteSet(A \cup B)
      /\ A \cup B \in SUBSET Conversations
  BY <1>1, FS_Subset, AdmissionAssumption
<1>6. Cardinality(Active) <= Cardinality(A) /\ Cardinality(Counted) <= Cardinality(B)
  BY <1>3, <1>4, <1>5, FS_Injection
<1>7. Cardinality(A \cup B) = Cardinality(A) + Cardinality(B)
  <2>1. Cardinality(A \cup B) = Cardinality(A) + Cardinality(B) - Cardinality(A \cap B)
    BY <1>5, FS_Union
  <2>2. Cardinality(A \cap B) = 0
    BY <1>2, FS_EmptySet
  <2>3. Cardinality(A) \in Nat /\ Cardinality(B) \in Nat
    BY <1>5, FS_CardinalityType
  <2> QED
    BY <2>1, <2>2, <2>3
<1>8. Cardinality(A \cup B) <= Cardinality(Conversations)
  BY <1>5, FS_Subset, AdmissionAssumption
<1> QED
  BY <1>5, <1>6, <1>7, <1>8, FS_CardinalityType, Sizes

(* The wall sees every active run but the late ones. *)
LEMMA WallSees ==
  ASSUME TypeOK, LateInv
  PROVE  Cardinality(Active) <= Cardinality(OpenReservations) + Cardinality(late)
<1>1. IsFiniteSet(OpenReservations \cup late)
      /\ Cardinality(OpenReservations \cup late)
           = Cardinality(OpenReservations) + Cardinality(late)
               - Cardinality(OpenReservations \cap late)
  BY Sizes, FS_Union
<1>2. Cardinality(OpenReservations \cap late) \in Nat
  BY Sizes, FS_Intersection, FS_CardinalityType
<1>3. Cardinality(Active) <= Cardinality(OpenReservations \cup late)
  BY <1>1, FS_Subset DEF LateInv
<1> QED
  BY <1>1, <1>2, <1>3, Sizes, FS_CardinalityType

-----------------------------------------------------------------------------
(* Initially. *)

LEMMA InitInv == Init => Inv
<1> SUFFICES ASSUME Init PROVE Inv
  OBVIOUS
<1>1. TypeOK
  BY AdmissionAssumption DEF Init, TypeOK, NoRequest, NoRow, Quota
<1>2. Active = {} /\ Counted = {} /\ ledger = {} /\ late = {}
  BY DEF Init, Active, Counted, NoRow, NoRequest
<1>3. KeysInv /\ ConversationsInv /\ LateInv
  BY <1>2 DEF Init, KeysInv, ConversationsInv, LateInv, OneRunPerKey, Past, NoRow, NoRequest
<1>4. Cardinality(Active) = 0 /\ Cardinality(Counted) = 0 /\ Cardinality(ledger) = 0
      /\ Cardinality(late) = 0
  BY <1>2, FS_EmptySet
<1>5. WallOvershoot /\ WallAtWorst
  BY <1>1, <1>4, Sizes DEF WallOvershoot, WallAtWorst
<1> QED
  BY <1>1, <1>3, <1>5 DEF Inv

-----------------------------------------------------------------------------
(* The invariants but the wall, which each step keeps. *)

LEMMA Settled ==
  ASSUME TypeOK, NEW r \in Runs, NEW s \in {"COMPLETED", "ENDED"},
         NEW o \in {"COMMITTED", "RELEASED"}, Settle(r, s, o)
  PROVE  /\ run' \in [Runs -> [state : {"none", "ACTIVE", "COMPLETED", "ENDED"}, quota : Quota,
                               conv : Conversations \cup {NoConversation},
                               key : Keys \cup {NoKey}]]
         /\ run'[r].state = s /\ run'[r].key = run[r].key
         /\ \A q \in Runs : q # r => run'[q] = run[q]
<1> DEFINE x == [[run[r] EXCEPT !.state = s]
                   EXCEPT !.quota = IF @ \in {"RESERVED", "LAPSED"} THEN o ELSE @]
<1>1. run' = [run EXCEPT ![r] = x]
  BY ZenonT(40) DEF Settle, TypeOK
<1>2. /\ x \in [state : {"none", "ACTIVE", "COMPLETED", "ENDED"}, quota : Quota,
               conv : Conversations \cup {NoConversation}, key : Keys \cup {NoKey}]
      /\ x.state = s /\ x.key = run[r].key
  BY DEF TypeOK, Quota
<1> HIDE DEF x
<1> QED
  BY <1>1, <1>2 DEF TypeOK

LEMMA TypeStep == TypeOK /\ [Next]_vars => TypeOK'
<1> SUFFICES ASSUME TypeOK, [Next]_vars PROVE TypeOK'
  OBVIOUS
<1> USE DEF TypeOK, durable, redis
<1>1. ASSUME NEW t \in Tx, NEW c \in Conversations, NEW k \in Keys \cup {NoKey}, Claim(t, c, k)
      PROVE TypeOK'
  BY <1>1 DEF Claim
<1>2. ASSUME NEW t \in Tx, Lock(t) PROVE TypeOK'
  BY <1>2 DEF Lock, Advance
<1>3. ASSUME NEW t \in Tx, Hold(t) PROVE TypeOK'
  BY <1>3 DEF Hold, Advance
<1>4. ASSUME NEW t \in Tx, Count(t) PROVE TypeOK'
  BY <1>4 DEF Count, Advance
<1>5. Unhold => counter' \in Nat /\ events' = events /\ seen' = seen
  BY DEF Unhold
<1>6. NoRequest \in [pc : {"idle", "claimed", "locked", "held", "counted"},
                     conv : Conversations \cup {NoConversation}, key : Keys \cup {NoKey}]
  BY DEF NoRequest
<1>7. ASSUME NEW t \in Tx, Leave(t) PROVE
        tx' \in [Tx -> [pc : {"idle", "claimed", "locked", "held", "counted"},
                        conv : Conversations \cup {NoConversation}, key : Keys \cup {NoKey}]]
  BY <1>6, <1>7 DEF Leave
<1>8. ASSUME NEW t \in Tx, RefuseAtWall(t) PROVE TypeOK'
  BY <1>5, <1>7, <1>8 DEF RefuseAtWall
<1>9. ASSUME NEW t \in Tx, Commit(t) PROVE TypeOK'
  BY <1>7, <1>9 DEF Commit, Quota
<1>10. ASSUME NEW t \in Tx, Fail(t) PROVE TypeOK'
  <2>1. counter' \in Nat /\ events' = events /\ seen' = seen
    BY <1>5, <1>10 DEF Fail
  <2> QED
    BY <1>7, <1>10, <2>1 DEF Fail
<1>11. ASSUME NEW r \in Runs, Complete(r) PROVE TypeOK'
  BY <1>11, Settled DEF Complete
<1>12. ASSUME NEW r \in Runs, End(r) PROVE TypeOK'
  BY <1>12, Settled DEF End
<1>13. ASSUME NEW r \in Runs, Drop(r) PROVE TypeOK'
  BY <1>5, <1>13 DEF Drop
<1>14. ASSUME NEW r \in Runs, Lapse(r) PROVE TypeOK'
  BY <1>14, SMTT(30) DEF Lapse, Quota
<1>15. ASSUME NEW k \in Keys, Purge(k) PROVE TypeOK'
  BY <1>15 DEF Purge
<1>16. CASE Report
  BY <1>16 DEF Report
<1>17. CASE ExpireLapsed
  BY <1>17, SMTT(30) DEF ExpireLapsed, Quota
<1>18. CASE ReadEvents
  BY <1>18 DEF ReadEvents
<1>19. CASE Resync
  BY <1>19 DEF Resync
<1>20. CASE UNCHANGED vars
  BY <1>20 DEF vars
<1> QED
  BY <1>1, <1>2, <1>3, <1>4, <1>8, <1>9, <1>10, <1>11, <1>12, <1>13, <1>14, <1>15, <1>16,
     <1>17, <1>18, <1>19, <1>20 DEF Next, Step

(* What the steps do to the rows and the requests, in the words of the       *)
(* invariants; every other step leaves them alone.                           *)
LEMMA Frames ==
  ASSUME TypeOK, [Next]_vars
  PROVE  \/ \E t \in Tx, c \in Conversations, k \in Keys \cup {NoKey} : Claim(t, c, k)
         \/ \E t \in Tx : Lock(t) \/ Count(t) \/ Commit(t)
         \/ \E t \in Tx : tx[t].pc = "locked" /\ Advance(t, "locked", "held")
                          /\ UNCHANGED <<run, ledger, record, late>>
         \/ \E t \in Tx : Leave(t) /\ UNCHANGED <<run, ledger, record, late>>
         \/ \E r \in Runs : Complete(r) \/ End(r) \/ Lapse(r)
         \/ \E k \in Keys : Purge(k)
         \/ ExpireLapsed
         \/ UNCHANGED <<tx, run, ledger, record, late>>
<1> USE DEF durable, redis
<1>1. CASE UNCHANGED vars
  BY <1>1 DEF vars
<1>2. ASSUME NEW t \in Tx, Hold(t)
      PROVE tx[t].pc = "locked" /\ Advance(t, "locked", "held")
            /\ UNCHANGED <<run, ledger, record, late>>
  BY <1>2 DEF Hold, Advance
<1>3. ASSUME NEW t \in Tx, RefuseAtWall(t) \/ Fail(t)
      PROVE Leave(t) /\ UNCHANGED <<run, ledger, record, late>>
  BY <1>3 DEF RefuseAtWall, Fail
<1>4. ASSUME NEW r \in Runs, Drop(r) PROVE UNCHANGED <<tx, run, ledger, record, late>>
  BY <1>4 DEF Drop
<1>5. CASE Report \/ ReadEvents \/ Resync
  BY <1>5 DEF Report, ReadEvents, Resync
<1> QED
  BY <1>1, <1>2, <1>3, <1>4, <1>5 DEF Next, Step

LEMMA KeysStep == TypeOK /\ KeysInv /\ [Next]_vars => KeysInv'
<1> SUFFICES ASSUME TypeOK, KeysInv, [Next]_vars PROVE KeysInv'
  OBVIOUS
<1> USE DEF durable
<1>1. ASSUME NEW t \in Tx, NEW c \in Conversations, NEW k \in Keys \cup {NoKey}, Claim(t, c, k)
      PROVE KeysInv'
  BY <1>1 DEF Claim, KeysInv, OneRunPerKey, TypeOK
<1>2. ASSUME NEW t \in Tx, NEW p, NEW q \in {"locked", "held", "counted"}, p # "idle",
             Advance(t, p, q), UNCHANGED <<run, record>>
      PROVE KeysInv'
  BY <1>2 DEF Advance, KeysInv, OneRunPerKey, TypeOK
<1>3. ASSUME NEW t \in Tx, Leave(t), UNCHANGED <<run, record>> PROVE KeysInv'
  BY <1>3 DEF Leave, NoRequest, KeysInv, OneRunPerKey, TypeOK
<1>4. ASSUME NEW t \in Tx, Commit(t) PROVE KeysInv'
  <2> DEFINE k == tx[t].key
  <2>1. PICK r \in Runs :
          /\ run[r].state = "none"
          /\ run' = [run EXCEPT ![r] = [state |-> "ACTIVE", quota |-> "RESERVED",
                                        conv |-> tx[t].conv, key |-> k]]
          /\ record' = IF k = NoKey THEN record ELSE [record EXCEPT ![k] = r]
    BY <1>4 DEF Commit
  <2>2. tx' = [tx EXCEPT ![t] = NoRequest] /\ tx[t].pc = "counted"
    BY <1>4 DEF Commit, Leave
  <2>3. k \in Keys \cup {NoKey}
    BY DEF TypeOK
  <2>4. k # NoKey => record[k] = NoRun /\ record'[k] = r
    BY <2>1, <2>2, <2>3 DEF KeysInv, TypeOK
  <2>5. \A j \in Keys : j # k => record'[j] = record[j]
    BY <2>1, <2>3 DEF TypeOK
  <2>6. OneRunPerKey'
    <3> SUFFICES ASSUME NEW q \in Runs, run'[q].state # "none", run'[q].key # NoKey
                 PROVE  record'[run'[q].key] = q
      BY DEF OneRunPerKey
    <3>1. CASE q = r
      BY <2>1, <2>4, <3>1 DEF TypeOK
    <3>2. CASE q # r
      <4>1. run'[q] = run[q] /\ run[q].key \in Keys
        BY <2>1, <3>2 DEF TypeOK
      <4>2. record[run[q].key] = q
        BY <4>1 DEF KeysInv, OneRunPerKey
      <4>3. run[q].key # k
        BY <2>4, <4>1, <4>2, AdmissionAssumption
      <4> QED
        BY <2>5, <4>1, <4>2, <4>3
    <3> QED
      BY <3>1, <3>2
  <2>7. /\ tx'[t].pc = "idle"
        /\ \A u \in Tx : u # t => tx'[u] = tx[u]
    BY <2>2 DEF TypeOK, NoRequest
  <2>8. \A u, w \in Tx : u # w /\ tx'[u].pc # "idle" /\ tx'[w].pc # "idle" /\ tx'[u].key # NoKey
                           => tx'[u].key # tx'[w].key
    BY <2>7 DEF KeysInv
  <2>9. ASSUME NEW u \in Tx, tx'[u].pc # "idle", tx'[u].key # NoKey
        PROVE record'[tx'[u].key] = NoRun
    <3>1. u # t /\ tx'[u] = tx[u] /\ tx[u].key \in Keys
      BY <2>7, <2>9 DEF TypeOK
    <3>2. tx[u].key # k
      BY <2>2, <2>9, <3>1 DEF KeysInv
    <3> QED
      BY <2>5, <2>9, <3>1, <3>2 DEF KeysInv
  <2> QED
    BY <2>6, <2>8, <2>9 DEF KeysInv
<1>5. ASSUME NEW r \in Runs, Complete(r) \/ End(r) PROVE KeysInv'
  <2>1. UNCHANGED <<tx, record>>
    BY <1>5 DEF Complete, End
  <2>2. run[r].state = "ACTIVE" /\ run'[r].key = run[r].key
        /\ \A q \in Runs : q # r => run'[q] = run[q]
    BY <1>5, Settled DEF Complete, End
  <2> QED
    BY <2>1, <2>2 DEF KeysInv, OneRunPerKey
<1>6. ASSUME NEW r \in Runs, Lapse(r) PROVE KeysInv'
  BY <1>6 DEF Lapse, KeysInv, OneRunPerKey, TypeOK
<1>7. ASSUME NEW k \in Keys, Purge(k) PROVE KeysInv'
  BY <1>7 DEF Purge, KeysInv, OneRunPerKey, TypeOK
<1>8. CASE ExpireLapsed
  BY <1>8 DEF ExpireLapsed, KeysInv, OneRunPerKey, TypeOK
<1>9. CASE UNCHANGED <<tx, run, record>>
  BY <1>9 DEF KeysInv, OneRunPerKey
<1>10. ASSUME NEW t \in Tx, Lock(t) \/ Count(t) PROVE KeysInv'
  BY <1>2, <1>10 DEF Lock, Count
<1> QED
  BY <1>1, <1>2, <1>3, <1>4, <1>5, <1>6, <1>7, <1>8, <1>9, <1>10, Frames

LEMMA ConversationsStep == TypeOK /\ ConversationsInv /\ [Next]_vars => ConversationsInv'
<1> SUFFICES ASSUME TypeOK, ConversationsInv, [Next]_vars PROVE ConversationsInv'
  OBVIOUS
<1> USE DEF durable
<1>1. ASSUME NEW t \in Tx, NEW c \in Conversations, NEW k \in Keys \cup {NoKey}, Claim(t, c, k)
      PROVE ConversationsInv'
  BY <1>1 DEF Claim, ConversationsInv, Active, Past, TypeOK
<1>2. ASSUME NEW t \in Tx, Lock(t) PROVE ConversationsInv'
  BY <1>2 DEF Lock, Advance, Locking, ConversationsInv, Active, Past, TypeOK
<1>3. ASSUME NEW t \in Tx, NEW p \in {"locked", "held"}, NEW q \in {"held", "counted"},
             Advance(t, p, q), UNCHANGED run
      PROVE ConversationsInv'
  BY <1>3 DEF Advance, ConversationsInv, Active, Past, TypeOK
<1>4. ASSUME NEW t \in Tx, Leave(t), UNCHANGED run PROVE ConversationsInv'
  BY <1>4 DEF Leave, NoRequest, ConversationsInv, Active, Past, TypeOK
<1>5. ASSUME NEW t \in Tx, Commit(t) PROVE ConversationsInv'
  <2>1. PICK r \in Runs :
          /\ run[r].state = "none"
          /\ run' = [run EXCEPT ![r] = [state |-> "ACTIVE", quota |-> "RESERVED",
                                        conv |-> tx[t].conv, key |-> tx[t].key]]
    BY <1>5 DEF Commit
  <2>2. tx' = [tx EXCEPT ![t] = NoRequest] /\ tx[t].pc = "counted"
    BY <1>5 DEF Commit, Leave
  <2>3. /\ tx'[t].pc = "idle"
        /\ \A u \in Tx : u # t => tx'[u] = tx[u]
    BY <2>2 DEF TypeOK, NoRequest
  <2>4. /\ run'[r].conv = tx[t].conv /\ tx[t].conv \in Conversations /\ Past(t)
        /\ \A q \in Runs : q # r => run'[q] = run[q]
    BY <2>1, <2>2 DEF TypeOK, ConversationsInv, Past
  <2>5. Active' \subseteq Active \cup {r} /\ r \notin Active
    BY <2>1, <2>4 DEF Active
  <2> QED
    BY <2>3, <2>4, <2>5 DEF ConversationsInv, Past, Active
<1>6. ASSUME UNCHANGED tx, Active' \subseteq Active,
             \A q \in Runs : q \in Active' => run'[q].conv = run[q].conv
      PROVE ConversationsInv'
  BY <1>6 DEF ConversationsInv, Past, Active
<1>7. ASSUME NEW r \in Runs, Complete(r) \/ End(r) PROVE ConversationsInv'
  <2>1. UNCHANGED tx /\ run'[r].state # "ACTIVE"
        /\ \A q \in Runs : q # r => run'[q] = run[q]
    BY <1>7, Settled DEF Complete, End
  <2> QED
    BY <2>1, <1>6 DEF Active
<1>8. ASSUME NEW r \in Runs, Lapse(r) PROVE ConversationsInv'
  BY <1>6, <1>8 DEF Lapse, Active, TypeOK
<1>9. ASSUME NEW k \in Keys, Purge(k) PROVE ConversationsInv'
  BY <1>6, <1>9 DEF Purge, Active, TypeOK
<1>10. CASE ExpireLapsed
  BY <1>6, <1>10 DEF ExpireLapsed, Active, TypeOK
<1>11. CASE UNCHANGED <<tx, run>>
  BY <1>6, <1>11 DEF Active
<1>12. ASSUME NEW t \in Tx, Count(t) PROVE ConversationsInv'
  BY <1>3, <1>12 DEF Count
<1> QED
  BY <1>1, <1>2, <1>3, <1>4, <1>5, <1>7, <1>8, <1>9, <1>10, <1>11, <1>12, Frames

LEMMA LateStep == TypeOK /\ LateInv /\ [Next]_vars => LateInv'
<1> SUFFICES ASSUME TypeOK, LateInv, [Next]_vars PROVE LateInv'
  OBVIOUS
<1> USE DEF durable
<1>1. ASSUME UNCHANGED <<run, late>> PROVE LateInv'
  BY <1>1 DEF LateInv, Active, OpenReservations
<1>2. ASSUME NEW t \in Tx, Commit(t) PROVE LateInv'
  BY <1>2 DEF Commit, LateInv, Active, OpenReservations, TypeOK
<1>3. ASSUME NEW r \in Runs, Complete(r) \/ End(r) PROVE LateInv'
  <2>1. UNCHANGED late /\ run'[r].state # "ACTIVE"
        /\ \A q \in Runs : q # r => run'[q] = run[q]
    BY <1>3, Settled DEF Complete, End
  <2> QED
    BY <2>1 DEF LateInv, Active, OpenReservations
<1>4. ASSUME NEW r \in Runs, Lapse(r) PROVE LateInv'
  BY <1>4 DEF Lapse, LateInv, Active, OpenReservations, TypeOK
<1>5. ASSUME NEW k \in Keys, Purge(k) PROVE LateInv'
  BY <1>5 DEF Purge, LateInv, Active, OpenReservations, TypeOK
<1>6. CASE ExpireLapsed
  BY <1>6 DEF ExpireLapsed, LateInv, Active, OpenReservations, TypeOK
<1> QED
  BY <1>1, <1>2, <1>3, <1>4, <1>5, <1>6, Frames DEF Claim, Lock, Count

-----------------------------------------------------------------------------
(* The wall. *)

LEMMA CountedSmaller ==
  ASSUME TypeOK, TypeOK', NEW t \in Tx, Leave(t)
  PROVE  Counted' \subseteq Counted /\ Cardinality(Counted') <= Cardinality(Counted)
<1>1. Counted' \subseteq Counted
  BY DEF Leave, NoRequest, Counted, TypeOK
<1> QED
  BY <1>1, Sizes, FS_Subset

LEMMA CommitCounts ==
  ASSUME TypeOK, NEW t \in Tx, Commit(t)
  PROVE  /\ Cardinality(Active') = Cardinality(Active) + 1
         /\ Cardinality(Counted') = Cardinality(Counted) - 1
         /\ ledger' = ledger /\ late' = late
<1> USE DEF durable
<1>1. PICK r \in Runs :
        /\ run[r].state = "none"
        /\ run' = [run EXCEPT ![r] = [state |-> "ACTIVE", quota |-> "RESERVED",
                                      conv |-> tx[t].conv, key |-> tx[t].key]]
  BY DEF Commit
<1>2. Active' = Active \cup {r} /\ r \notin Active
  BY <1>1 DEF Active, TypeOK
<1>3. Counted' = Counted \ {t} /\ t \in Counted
  BY DEF Commit, Leave, NoRequest, Counted, TypeOK
<1>4. Cardinality(Active \cup {r}) = Cardinality(Active) + 1
  BY <1>2, Sizes, FS_AddElement
<1>5. Cardinality(Counted \ {t}) = Cardinality(Counted) - 1
  BY <1>3, Sizes, FS_RemoveElement
<1> QED
  BY <1>2, <1>3, <1>4, <1>5 DEF Commit

LEMMA EndCounts ==
  ASSUME TypeOK, NEW r \in Runs, run[r].state = "ACTIVE", run'[r].state # "ACTIVE",
         \A q \in Runs : q # r => run'[q] = run[q]
  PROVE  Cardinality(Active') = Cardinality(Active) - 1
<1>1. Active' = Active \ {r} /\ r \in Active
  BY DEF Active
<1>2. Cardinality(Active \ {r}) = Cardinality(Active) - 1
  BY <1>1, Sizes, FS_RemoveElement
<1> QED
  BY <1>1, <1>2

(* The counts of the next state. *)
LEMMA NextCounts ==
  TypeOK' /\ ConversationsInv' =>
    (/\ IsFiniteSet(ledger) /\ IsFiniteSet(late)
     /\ Cardinality(ledger) \in Nat /\ Cardinality(late) \in Nat
     /\ Cardinality(Active) \in Nat /\ Cardinality(Counted) \in Nat
     /\ Cardinality(Counted) <= Cardinality(Tx)
     /\ Cardinality(Active) + Cardinality(Counted) <= Cardinality(Conversations))'
<1>1. TypeOK /\ ConversationsInv =>
        /\ IsFiniteSet(ledger) /\ IsFiniteSet(late)
        /\ Cardinality(ledger) \in Nat /\ Cardinality(late) \in Nat
        /\ Cardinality(Active) \in Nat /\ Cardinality(Counted) \in Nat
        /\ Cardinality(Counted) <= Cardinality(Tx)
        /\ Cardinality(Active) + Cardinality(Counted) <= Cardinality(Conversations)
  BY Sizes, OnePerConversation
<1> QED
  BY <1>1, PTL

LEMMA WallStep ==
  ASSUME TypeOK, ConversationsInv, LateInv, WallOvershoot, WallAtWorst, [Next]_vars,
         TypeOK', ConversationsInv'
  PROVE  WallOvershoot' /\ WallAtWorst'
<1> USE DEF durable
<1>a. /\ Cardinality(ledger) \in Nat /\ Cardinality(late) \in Nat
      /\ Cardinality(Active) \in Nat /\ Cardinality(Counted) \in Nat
      /\ Cardinality(OpenReservations) \in Nat
  BY Sizes
<1>b. /\ Cardinality(ledger') \in Nat /\ Cardinality(late') \in Nat
      /\ Cardinality(Active') \in Nat /\ Cardinality(Counted') \in Nat
      /\ Cardinality(Counted') <= Cardinality(Tx)
      /\ IsFiniteSet(ledger') /\ IsFiniteSet(late')
  BY NextCounts
<1>c. Limit \in Nat /\ Cardinality(Tx) \in Nat /\ Cardinality(Conversations) \in Nat
  BY AdmissionAssumption, FS_CardinalityType
<1>d. ASSUME Cardinality(ledger') + Cardinality(Active') + Cardinality(Counted')
               <= Cardinality(ledger) + Cardinality(Active) + Cardinality(Counted),
             Cardinality(late) <= Cardinality(late')
      PROVE  WallOvershoot' /\ WallAtWorst'
  BY <1>a, <1>b, <1>c, <1>d DEF WallOvershoot, WallAtWorst
<1>1. CASE UNCHANGED <<tx, run, ledger, late>>
  BY <1>1 DEF Active, Counted, WallOvershoot, WallAtWorst
<1>2. ASSUME NEW t \in Tx, NEW p, NEW q \in {"locked", "held"}, p \in {"claimed", "locked"},
             Advance(t, p, q), UNCHANGED <<run, ledger, late>>
      PROVE  WallOvershoot' /\ WallAtWorst'
  <2>1. Counted' = Counted /\ Active' = Active
    BY <1>2 DEF Advance, Counted, Active, TypeOK
  <2> QED
    BY <1>2, <2>1 DEF WallOvershoot, WallAtWorst
<1>3. ASSUME NEW t \in Tx, NEW c \in Conversations, NEW k \in Keys \cup {NoKey}, Claim(t, c, k)
      PROVE  WallOvershoot' /\ WallAtWorst'
  <2>1. Counted' = Counted /\ Active' = Active
    BY <1>3 DEF Claim, Counted, Active, TypeOK
  <2> QED
    BY <1>3, <2>1 DEF Claim, WallOvershoot, WallAtWorst
<1>4. ASSUME NEW t \in Tx, Count(t) PROVE WallOvershoot' /\ WallAtWorst'
  <2>1. Cardinality(ledger) + Cardinality(OpenReservations) < Limit
        /\ UNCHANGED <<run, ledger, late>>
    BY <1>4 DEF Count
  <2>2. Active' = Active
    BY <2>1 DEF Active
  <2>3. Cardinality(Active) <= Cardinality(OpenReservations) + Cardinality(late)
    BY WallSees
  <2>4. Cardinality(Active') + Cardinality(Counted') <= Cardinality(Conversations)
    BY NextCounts
  <2>5. Cardinality(Active') = Cardinality(Active) /\ Cardinality(ledger') = Cardinality(ledger)
        /\ Cardinality(late') = Cardinality(late)
    BY <2>1, <2>2
  <2>6. Cardinality(ledger') + Cardinality(Active') <= Limit - 1 + Cardinality(late')
        /\ Cardinality(ledger') <= Limit - 1
    BY <1>a, <1>c, <2>1, <2>3, <2>5
  <2>7. WallOvershoot'
    BY <1>b, <1>c, <2>6 DEF WallOvershoot
  <2>8. WallAtWorst'
    BY <1>b, <1>c, <2>4, <2>6 DEF WallAtWorst
  <2> QED
    BY <2>7, <2>8
<1>5. ASSUME NEW t \in Tx, Commit(t) PROVE WallOvershoot' /\ WallAtWorst'
  BY <1>5, <1>a, <1>d, CommitCounts
<1>6. ASSUME NEW t \in Tx, Leave(t), UNCHANGED <<run, ledger, late>>
      PROVE  WallOvershoot' /\ WallAtWorst'
  <2>1. Active' = Active
    BY <1>6 DEF Active
  <2> QED
    BY <1>6, <2>1, <1>a, <1>b, <1>d, CountedSmaller
<1>7. ASSUME NEW r \in Runs, Complete(r) \/ End(r) PROVE WallOvershoot' /\ WallAtWorst'
  <2>1. /\ run[r].state = "ACTIVE" /\ run'[r].state # "ACTIVE"
        /\ \A q \in Runs : q # r => run'[q] = run[q]
        /\ ledger' \in {ledger, ledger \cup {r}} /\ UNCHANGED <<tx, late>>
    BY <1>7, Settled DEF Complete, End
  <2>2. Cardinality(Active') = Cardinality(Active) - 1 /\ Counted' = Counted
    BY <2>1, EndCounts DEF Counted
  <2>3. r \notin ledger => Cardinality(ledger \cup {r}) = Cardinality(ledger) + 1
    BY Sizes, FS_AddElement
  <2>4. Cardinality(ledger') <= Cardinality(ledger) + 1
    <3>1. CASE ledger' = ledger
      BY <1>a, <3>1
    <3>2. CASE ledger' # ledger
      <4>1. ledger' = ledger \cup {r} /\ r \notin ledger
        BY <2>1, <3>2
      <4> QED
        BY <1>a, <2>3, <4>1
    <3> QED
      BY <3>1, <3>2
  <2> QED
    BY <1>a, <1>b, <1>d, <2>1, <2>2, <2>4
<1>8. ASSUME NEW r \in Runs, Lapse(r) PROVE WallOvershoot' /\ WallAtWorst'
  <2>1. Active' = Active /\ Counted' = Counted /\ ledger' = ledger
    BY <1>8 DEF Lapse, Active, Counted, TypeOK
  <2>2. Cardinality(late) <= Cardinality(late')
    BY <1>8, <1>b, FS_Subset DEF Lapse
  <2> QED
    BY <1>a, <1>d, <2>1, <2>2
<1>9. ASSUME (\E k \in Keys : Purge(k)) \/ ExpireLapsed
      PROVE  WallOvershoot' /\ WallAtWorst'
  <2>1. UNCHANGED <<tx, ledger, late>> /\ \A r \in Runs : run'[r].state = run[r].state
    BY <1>9 DEF Purge, ExpireLapsed, TypeOK
  <2>2. Active' = Active /\ Counted' = Counted
    BY <2>1 DEF Active, Counted
  <2> QED
    BY <2>1, <2>2 DEF WallOvershoot, WallAtWorst
<1> QED
  BY <1>1, <1>2, <1>3, <1>4, <1>5, <1>6, <1>7, <1>8, <1>9, Frames DEF Lock

-----------------------------------------------------------------------------
(* The inductive invariant: what a transaction past a step has ruled out for *)
(* the keys and the conversations, and why the wall sees every active run    *)
(* but those whose reservation lapsed.                                       *)
THEOREM Invariance == Spec => []Inv
<1>1. Inv /\ [Next]_vars => Inv'
  BY TypeStep, KeysStep, ConversationsStep, LateStep, WallStep DEF Inv
<1> QED
  BY <1>1, InitInv, PTL DEF Spec

(* The counter never falls below zero, and the states are those of the code. *)
THEOREM AdmissionTypes == Spec => []TypeOK
BY Invariance, PTL DEF Inv

(* One run per idempotency key, for any number of requests and failures. *)
THEOREM KeysMakeOneRun == Spec => []OneRunPerKey
BY Invariance, PTL DEF Inv, KeysInv

(* At most one run over the limit for every further transaction in flight    *)
(* and every lapsed reservation.                                             *)
THEOREM OvershootBound == Spec => []WallOvershoot
BY Invariance, PTL DEF Inv

(* Fewer runs over the limit than there are conversations, whatever lapses.  *)
THEOREM OvershootAtWorst == Spec => []WallAtWorst
BY Invariance, PTL DEF Inv

=============================================================================
