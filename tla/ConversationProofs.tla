-------------------------- MODULE ConversationProofs --------------------------
(* What the handlers of a conversation do to its rows, and that handlers     *)
(* which run alone keep its invariants.                                      *)
EXTENDS Conversation, WellFoundedInduction, TLAPS

-----------------------------------------------------------------------------
(* Sequences and records. *)

LEMMA Appended ==
  ASSUME NEW S, NEW s \in Seq(S), NEW x \in S
  PROVE  /\ Append(s, x) \in Seq(S)
         /\ Len(Append(s, x)) = Len(s) + 1
         /\ DOMAIN Append(s, x) = 1 .. Len(s) + 1
         /\ DOMAIN s = 1 .. Len(s)
         /\ Len(s) \in Nat
         /\ Append(s, x)[Len(s) + 1] = x
         /\ \A i \in DOMAIN s : Append(s, x)[i] = s[i]
  OBVIOUS

LEMMA Changed ==
  ASSUME NEW S, NEW s \in Seq(S), NEW i \in DOMAIN s, NEW x \in S
  PROVE  /\ [s EXCEPT ![i] = x] \in Seq(S)
         /\ Len([s EXCEPT ![i] = x]) = Len(s)
         /\ DOMAIN [s EXCEPT ![i] = x] = DOMAIN s
         /\ [s EXCEPT ![i] = x][i] = x
         /\ \A j \in DOMAIN s : j # i => [s EXCEPT ![i] = x][j] = s[j]
  OBVIOUS

LEMMA Fields ==
  ASSUME NEW d \in Rows
  PROVE  /\ d.status \in Statuses /\ d.version \in Nat /\ d.msgs \in Seq(Messages)
         /\ d.runs \in Seq(Runs) /\ d.escs \in Seq(Escalations)
  BY DEF Rows

LEMMA SetMsgs ==
  ASSUME NEW d \in Rows, NEW s \in Seq(Messages), NEW e, e = [d EXCEPT !.msgs = s]
  PROVE  /\ e \in Rows /\ e.msgs = s /\ e.status = d.status /\ e.version = d.version
         /\ e.runs = d.runs /\ e.escs = d.escs
  BY DEF Rows

LEMMA SetRuns ==
  ASSUME NEW d \in Rows, NEW s \in Seq(Runs), NEW e, e = [d EXCEPT !.runs = s]
  PROVE  /\ e \in Rows /\ e.runs = s /\ e.status = d.status /\ e.version = d.version
         /\ e.msgs = d.msgs /\ e.escs = d.escs
  BY DEF Rows

LEMMA SetEscs ==
  ASSUME NEW d \in Rows, NEW s \in Seq(Escalations), NEW e, e = [d EXCEPT !.escs = s]
  PROVE  /\ e \in Rows /\ e.escs = s /\ e.status = d.status /\ e.version = d.version
         /\ e.msgs = d.msgs /\ e.runs = d.runs
  BY DEF Rows

LEMMA SetStatusField ==
  ASSUME NEW d \in Rows, NEW s \in Statuses, NEW e, e = [d EXCEPT !.status = s]
  PROVE  /\ e \in Rows /\ e.status = s /\ e.version = d.version
         /\ e.msgs = d.msgs /\ e.runs = d.runs /\ e.escs = d.escs
  BY DEF Rows

LEMMA SetVersion ==
  ASSUME NEW d \in Rows, NEW n \in Nat, NEW e, e = [d EXCEPT !.version = n]
  PROVE  /\ e \in Rows /\ e.version = n /\ e.status = d.status
         /\ e.msgs = d.msgs /\ e.runs = d.runs /\ e.escs = d.escs
  BY DEF Rows

LEMMA BumpRows ==
  ASSUME NEW v \in Rows, NEW d \in Rows
  PROVE  /\ Bump(v, d) \in Rows
         /\ Bump(v, d).status = d.status
         /\ Bump(v, d).msgs = d.msgs
         /\ Bump(v, d).runs = d.runs
         /\ Bump(v, d).escs = d.escs
         /\ Bump(v, d).version = v.version + 1
<1>1. v.version + 1 \in Nat
  BY Fields
<1>2. Bump(v, d) = [d EXCEPT !.version = v.version + 1]
  BY DEF Bump
<1> QED
  BY <1>1, <1>2, SetVersion

-----------------------------------------------------------------------------
(* What the shared writes do to the rows. *)

(* A message by "by" is the one new message of f. *)
Posted(d, f, by) ==
  /\ Len(f.msgs) = Len(d.msgs) + 1
  /\ DOMAIN f.msgs = DOMAIN d.msgs \cup {Len(d.msgs) + 1}
  /\ f.msgs[Len(d.msgs) + 1].by = by
  /\ f.msgs[Len(d.msgs) + 1].supersededBy = 0

(* The other messages are as they were, but for the pointer of p. *)
PointsOnly(d, f, p, n) ==
  \A i \in DOMAIN d.msgs :
    /\ i # p => f.msgs[i] = d.msgs[i]
    /\ i = p => f.msgs[i].by = d.msgs[i].by /\ f.msgs[i].supersededBy = n

(* A run for the reply g, or a plain one (0), is the one new run of f. *)
Started(d, f, g) ==
  LET r == Len(d.runs) + 1
  IN  /\ DOMAIN f.runs = DOMAIN d.runs \cup {r} /\ r \notin DOMAIN d.runs
      /\ f.runs[r].state = "ACTIVE" /\ f.runs[r].regenerated = g
      /\ \A q \in DOMAIN d.runs : f.runs[q] = d.runs[q]

LEMMA PostRows ==
  ASSUME NEW d \in Rows, NEW by \in {"user", "run", "human"}, NEW e \in Nat
  PROVE  /\ Post(d, by, e) \in Rows
         /\ Post(d, by, e).status = d.status
         /\ Post(d, by, e).version = d.version
         /\ Post(d, by, e).runs = d.runs
         /\ Post(d, by, e).escs = d.escs
         /\ DOMAIN d.msgs \subseteq DOMAIN Post(d, by, e).msgs
         /\ Posted(d, Post(d, by, e), by) /\ PointsOnly(d, Post(d, by, e), 0, 0)
<1> DEFINE x == [by |-> by, esc |-> e, supersededBy |-> 0]
           s == Append(d.msgs, x)
           f == Post(d, by, e)
<1>1. d.msgs \in Seq(Messages)
  BY Fields
<1>2. x \in Messages /\ x.by = by /\ x.supersededBy = 0
  BY DEF Messages
<1>3. f = [d EXCEPT !.msgs = s]
  BY DEF Post
<1> HIDE DEF x, f
<1>4. /\ s \in Seq(Messages) /\ DOMAIN d.msgs \subseteq DOMAIN s
      /\ Len(s) = Len(d.msgs) + 1 /\ s[Len(d.msgs) + 1] = x
      /\ DOMAIN s = DOMAIN d.msgs \cup {Len(d.msgs) + 1}
      /\ \A i \in DOMAIN d.msgs : s[i] = d.msgs[i] /\ i # 0
  BY <1>1, <1>2, Appended
<1> HIDE DEF s
<1>5. /\ f \in Rows /\ f.status = d.status /\ f.version = d.version
      /\ f.runs = d.runs /\ f.escs = d.escs /\ f.msgs = s
  BY <1>3, <1>4, SetMsgs
<1>6. Posted(d, f, by) /\ PointsOnly(d, f, 0, 0) /\ DOMAIN d.msgs \subseteq DOMAIN f.msgs
  BY <1>2, <1>4, <1>5 DEF Posted, PointsOnly
<1> QED
  BY <1>5, <1>6 DEF f

LEMMA StartRunRows ==
  ASSUME NEW d \in Rows, NEW i \in Nat, NEW g \in Nat
  PROVE  /\ StartRun(d, i, g) \in Rows
         /\ StartRun(d, i, g).status = d.status
         /\ StartRun(d, i, g).version = d.version
         /\ StartRun(d, i, g).msgs = d.msgs
         /\ StartRun(d, i, g).escs = d.escs
         /\ Started(d, StartRun(d, i, g), g)
<1> DEFINE x == [state |-> "ACTIVE", input |-> i, regenerated |-> g, result |-> 0]
           s == Append(d.runs, x)
           f == StartRun(d, i, g)
<1>1. d.runs \in Seq(Runs)
  BY Fields
<1>2. x \in Runs /\ x.state = "ACTIVE" /\ x.regenerated = g
  BY DEF Runs
<1>3. f = [d EXCEPT !.runs = s]
  BY DEF StartRun
<1> HIDE DEF x, f
<1>4. /\ s \in Seq(Runs)
      /\ DOMAIN s = DOMAIN d.runs \cup {Len(d.runs) + 1}
      /\ Len(d.runs) + 1 \notin DOMAIN d.runs /\ s[Len(d.runs) + 1] = x
      /\ \A r \in DOMAIN d.runs : s[r] = d.runs[r]
  BY <1>1, <1>2, Appended
<1> HIDE DEF s
<1>5. /\ f \in Rows /\ f.status = d.status /\ f.version = d.version
      /\ f.msgs = d.msgs /\ f.escs = d.escs /\ f.runs = s
  BY <1>3, <1>4, SetRuns
<1>6. Started(d, f, g)
  BY <1>2, <1>4, <1>5 DEF Started
<1> QED
  BY <1>5, <1>6 DEF f

(* Only the pointer of one message is set. *)
LEMMA PointerRows ==
  ASSUME NEW d \in Rows, NEW m \in DOMAIN d.msgs, NEW n \in Nat,
         NEW f, f = [d EXCEPT !.msgs[m].supersededBy = n]
  PROVE  /\ f \in Rows /\ f.status = d.status /\ f.version = d.version
         /\ f.runs = d.runs /\ f.escs = d.escs
         /\ DOMAIN f.msgs = DOMAIN d.msgs /\ Len(f.msgs) = Len(d.msgs)
         /\ PointsOnly(d, f, m, n)
<1> DEFINE x == [d.msgs[m] EXCEPT !.supersededBy = n]
           s == [d.msgs EXCEPT ![m] = x]
<1>1. d.msgs \in Seq(Messages) /\ d.msgs[m] \in Messages
  BY Fields
<1>2. x \in Messages /\ x.by = d.msgs[m].by /\ x.supersededBy = n
  BY <1>1 DEF Messages
<1>4. f = [d EXCEPT !.msgs = s]
  OBVIOUS
<1> HIDE DEF x
<1>3. /\ s \in Seq(Messages) /\ DOMAIN s = DOMAIN d.msgs /\ Len(s) = Len(d.msgs)
      /\ s[m] = x /\ \A i \in DOMAIN d.msgs : i # m => s[i] = d.msgs[i]
  BY <1>1, <1>2, Changed
<1> HIDE DEF s
<1> DEFINE o == [d EXCEPT !.msgs = s]
<1>5. /\ o \in Rows /\ o.status = d.status /\ o.version = d.version
      /\ o.runs = d.runs /\ o.escs = d.escs /\ o.msgs = s
  BY <1>3, SetMsgs
<1> HIDE DEF o
<1>6. f = o
  BY <1>4 DEF o
<1> QED
  BY <1>2, <1>3, <1>5, <1>6 DEF PointsOnly

-----------------------------------------------------------------------------
(* What each handler does to the rows it writes. *)

Grows(d, f) ==
  /\ DOMAIN d.msgs \subseteq DOMAIN f.msgs
  /\ DOMAIN d.runs \subseteq DOMAIN f.runs
  /\ DOMAIN d.escs \subseteq DOMAIN f.escs

LEMMA AcceptRows ==
  ASSUME NEW v \in Rows, NEW d \in Rows, NEW f, f = Accept(v, d)
  PROVE  /\ f \in Rows /\ Grows(d, f) /\ f.escs = d.escs /\ f.status = d.status
         /\ f.version = v.version + 1
         /\ Posted(d, f, "user") /\ PointsOnly(d, f, 0, 0)
         /\ IF v.status = "escalated" THEN f.runs = d.runs ELSE Started(d, f, 0)
         /\ \A r \in DOMAIN d.runs : f.runs[r] = d.runs[r]
<1> DEFINE p == Post(d, "user", 0)
           q == StartRun(p, NextNumber(v), 0)
<1>1. /\ p \in Rows /\ p.escs = d.escs /\ p.status = d.status /\ p.runs = d.runs
      /\ DOMAIN d.msgs \subseteq DOMAIN p.msgs
      /\ Posted(d, p, "user") /\ PointsOnly(d, p, 0, 0)
  BY PostRows
<1>2. NextNumber(v) \in Nat
  BY Fields DEF NextNumber
<1> HIDE DEF p
<1>3. /\ q \in Rows /\ q.escs = d.escs /\ q.status = d.status /\ q.msgs = p.msgs
      /\ Started(p, q, 0)
  BY <1>1, <1>2, StartRunRows, SMTT(30)
<1> HIDE DEF q
<1>4. f = Bump(v, IF v.status = "escalated" THEN p ELSE q)
  BY DEF Accept, p, q
<1>5. CASE v.status = "escalated"
  <2>1. f = Bump(v, p)
    BY <1>4, <1>5
  <2>2. /\ f \in Rows /\ f.status = p.status /\ f.msgs = p.msgs /\ f.runs = p.runs
        /\ f.escs = p.escs /\ f.version = v.version + 1
    BY <2>1, <1>1, BumpRows
  <2> QED
    BY <2>2, <1>1, <1>5 DEF Grows, Posted, PointsOnly
<1>6. CASE v.status # "escalated"
  <2>1. f = Bump(v, q)
    BY <1>4, <1>6
  <2>2. /\ f \in Rows /\ f.status = q.status /\ f.msgs = q.msgs /\ f.runs = q.runs
        /\ f.escs = q.escs /\ f.version = v.version + 1
    BY <2>1, <1>3, BumpRows
  <2> QED
    BY <2>2, <1>1, <1>3, <1>6 DEF Grows, Posted, PointsOnly, Started
<1> QED
  BY <1>5, <1>6

LEMMA RegenerateRows ==
  ASSUME NEW v \in Rows, NEW d \in Rows, NEW m \in Nat, NEW f, f = Regenerate(v, d, m),
         Newest(UsersBefore(v, m)) \in Nat
  PROVE  /\ f \in Rows /\ Grows(d, f) /\ f.escs = d.escs /\ f.status = d.status
         /\ f.version = v.version + 1 /\ f.msgs = d.msgs /\ Started(d, f, m)
         /\ \A r \in DOMAIN d.runs : f.runs[r] = d.runs[r]
<1> DEFINE q == StartRun(d, Newest(UsersBefore(v, m)), m)
<1>1. /\ q \in Rows /\ q.escs = d.escs /\ q.status = d.status /\ q.msgs = d.msgs
      /\ Started(d, q, m)
  BY StartRunRows
<1>2. f = Bump(v, q)
  BY DEF Regenerate
<1> HIDE DEF q
<1>3. /\ f \in Rows /\ f.status = q.status /\ f.msgs = q.msgs /\ f.runs = q.runs
      /\ f.escs = q.escs /\ f.version = v.version + 1
  BY <1>1, <1>2, BumpRows
<1> QED
  BY <1>1, <1>3 DEF Grows, Started

LEMMA EditRows ==
  ASSUME NEW v \in Rows, NEW d \in Rows, NEW m \in DOMAIN d.msgs, NEW f, f = Edit(v, d, m)
  PROVE  /\ f \in Rows /\ Grows(d, f) /\ f.escs = d.escs /\ f.status = d.status
         /\ f.version = v.version + 1 /\ Started(d, f, 0)
         /\ Posted(d, f, "user") /\ PointsOnly(d, f, m, NextNumber(v))
         /\ \A r \in DOMAIN d.runs : f.runs[r] = d.runs[r]
<1> DEFINE p == Post(d, "user", 0)
           u == [p EXCEPT !.msgs[m].supersededBy = NextNumber(v)]
           q == StartRun(u, NextNumber(v), 0)
<1>1. /\ p \in Rows /\ p.escs = d.escs /\ p.status = d.status /\ p.runs = d.runs
      /\ DOMAIN d.msgs \subseteq DOMAIN p.msgs
      /\ Posted(d, p, "user") /\ PointsOnly(d, p, 0, 0)
  BY PostRows
<1>2. NextNumber(v) \in Nat
  BY Fields DEF NextNumber
<1> HIDE DEF p
<1>3. /\ u \in Rows /\ u.escs = d.escs /\ u.status = d.status /\ u.runs = d.runs
      /\ DOMAIN u.msgs = DOMAIN p.msgs /\ Len(u.msgs) = Len(p.msgs)
      /\ PointsOnly(p, u, m, NextNumber(v))
  BY <1>1, <1>2, PointerRows
<1>6. /\ 0 \notin DOMAIN d.msgs /\ Len(d.msgs) + 1 \notin DOMAIN d.msgs
      /\ Len(d.msgs) + 1 # m
  BY Fields
<1>7. Posted(d, u, "user") /\ PointsOnly(d, u, m, NextNumber(v))
  <2> HIDE DEF u
  <2> QED
    BY <1>1, <1>3, <1>6 DEF Posted, PointsOnly
<1> HIDE DEF u
<1>4. /\ q \in Rows /\ q.escs = d.escs /\ q.status = d.status /\ q.msgs = u.msgs
      /\ Started(u, q, 0)
  <2>1. u \in Rows /\ u.escs = d.escs /\ u.status = d.status
    BY <1>3
  <2>2. /\ q \in Rows /\ q.escs = u.escs /\ q.status = u.status /\ q.msgs = u.msgs
        /\ Started(u, q, 0)
    <3> HIDE DEF Rows, Started
    <3> QED
      BY ONLY <1>2, <2>1, 0 \in Nat, StartRunRows
  <2> QED
    BY ONLY <2>1, <2>2
<1>5. f = Bump(v, q)
  BY DEF Edit, p, u, q
<1> HIDE DEF q
<1>8. /\ f \in Rows /\ f.status = q.status /\ f.msgs = q.msgs /\ f.runs = q.runs
      /\ f.escs = q.escs /\ f.version = v.version + 1
  BY <1>4, <1>5, BumpRows
<1> QED
  BY <1>1, <1>3, <1>4, <1>7, <1>8 DEF Grows, Posted, PointsOnly, Started

LEMMA EndRows ==
  ASSUME NEW d \in Rows, NEW r \in DOMAIN d.runs, NEW f, f = End(d, r)
  PROVE  /\ f \in Rows /\ Grows(d, f) /\ f.escs = d.escs /\ f.status = d.status
         /\ f.msgs = d.msgs /\ f.version = d.version /\ DOMAIN f.runs = DOMAIN d.runs
         /\ f.runs[r].state = "ENDED"
         /\ f.runs[r].regenerated = d.runs[r].regenerated
         /\ \A q \in DOMAIN d.runs : q # r => f.runs[q] = d.runs[q]
<1> DEFINE x == [d.runs[r] EXCEPT !.state = "ENDED"]
           s == [d.runs EXCEPT ![r] = x]
<1>1. d.runs \in Seq(Runs) /\ d.runs[r] \in Runs
  BY Fields
<1>2. x \in Runs /\ x.state = "ENDED" /\ x.regenerated = d.runs[r].regenerated
  BY <1>1 DEF Runs
<1>4. f = [d EXCEPT !.runs = s]
  BY DEF End
<1> HIDE DEF x
<1>3. /\ s \in Seq(Runs) /\ DOMAIN s = DOMAIN d.runs /\ s[r] = x
      /\ \A q \in DOMAIN d.runs : q # r => s[q] = d.runs[q]
  BY <1>1, <1>2, Changed
<1> HIDE DEF s
<1>5. /\ f \in Rows /\ f.status = d.status /\ f.version = d.version
      /\ f.msgs = d.msgs /\ f.escs = d.escs /\ f.runs = s
  BY <1>3, <1>4, SetRuns
<1> QED
  BY <1>2, <1>3, <1>5 DEF Grows

(* The pointer is set once, on the message regenerated. *)
LEMMA SupersedeRows ==
  ASSUME NEW d \in Rows, NEW g, NEW n \in Nat, NEW f, f = Supersede(d, g, n)
  PROVE  /\ f \in Rows /\ f.escs = d.escs /\ f.status = d.status /\ f.runs = d.runs
         /\ DOMAIN f.msgs = DOMAIN d.msgs /\ Len(f.msgs) = Len(d.msgs)
         /\ g # 0 /\ g \in DOMAIN d.msgs /\ d.msgs[g].supersededBy = 0
              => PointsOnly(d, f, g, n)
         /\ g = 0 \/ g \notin DOMAIN d.msgs \/ d.msgs[g].supersededBy # 0
              => f.msgs = d.msgs
<1>1. CASE f = d
  <2>1. g # 0 /\ g \in DOMAIN d.msgs /\ d.msgs[g].supersededBy = 0
          => d = [d EXCEPT !.msgs[g].supersededBy = n]
    BY <1>1 DEF Supersede
  <2> QED
    BY <1>1, <2>1, PointerRows
<1>2. CASE f # d
  <2>1. g # 0 /\ d.msgs[g].supersededBy = 0 /\ f = [d EXCEPT !.msgs[g].supersededBy = n]
    BY <1>2 DEF Supersede
  <2>2. CASE g \in DOMAIN d.msgs
    BY <2>1, <2>2, PointerRows
  <2>3. CASE g \notin DOMAIN d.msgs
    <3>1. [d EXCEPT !.msgs[g].supersededBy = n]
            = [d EXCEPT !.msgs = [d.msgs EXCEPT ![g] = [d.msgs[g] EXCEPT !.supersededBy = n]]]
      OBVIOUS
    <3>2. [d.msgs EXCEPT ![g] = [d.msgs[g] EXCEPT !.supersededBy = n]] = d.msgs
      BY <2>3, Fields
    <3>3. f = [d EXCEPT !.msgs = d.msgs]
      BY <2>1, <3>1, <3>2
    <3> QED
      BY <2>3, <3>3, SetMsgs, Fields
  <2> QED
    BY <2>2, <2>3
<1> QED
  BY <1>1, <1>2

LEMMA CompleteRows ==
  ASSUME NEW v \in Rows, NEW d \in Rows, NEW r \in DOMAIN d.runs,
         v.runs[r] = d.runs[r], NEW f, f = Complete(v, d, r)
  PROVE  /\ f \in Rows /\ Grows(d, f) /\ f.escs = d.escs /\ f.status = d.status
         /\ f.version = v.version + 1
         /\ LET g == d.runs[r].regenerated IN
              g = 0 \/ g \in DOMAIN d.msgs
                => /\ Posted(d, f, "run")
                   /\ IF g # 0 /\ d.msgs[g].supersededBy = 0
                      THEN PointsOnly(d, f, g, NextNumber(v))
                      ELSE PointsOnly(d, f, 0, 0)
         /\ Len(f.msgs) = Len(d.msgs) + 1
         /\ DOMAIN f.runs = DOMAIN d.runs
         /\ f.runs[r].state = "COMPLETED" /\ f.runs[r].result = NextNumber(v)
         /\ f.runs[r].regenerated = d.runs[r].regenerated
         /\ \A q \in DOMAIN d.runs : q # r => f.runs[q] = d.runs[q]
<1> DEFINE n == NextNumber(v)
           p == Post(d, "run", 0)
           g == v.runs[r].regenerated
           w == Supersede(p, g, n)
           x == [[d.runs[r] EXCEPT !.state = "COMPLETED"] EXCEPT !.result = n]
           s == [w.runs EXCEPT ![r] = x]
           y == [w EXCEPT !.runs = s]
<1>1. /\ p \in Rows /\ p.escs = d.escs /\ p.status = d.status /\ p.runs = d.runs
      /\ DOMAIN d.msgs \subseteq DOMAIN p.msgs
      /\ Posted(d, p, "run") /\ PointsOnly(d, p, 0, 0)
  BY PostRows
<1>2. n \in Nat
  BY Fields DEF NextNumber
<1>3. /\ d.runs \in Seq(Runs) /\ d.runs[r] \in Runs
      /\ 0 \notin DOMAIN d.msgs /\ Len(d.msgs) + 1 \notin DOMAIN d.msgs
  BY Fields
<1> HIDE DEF n, p
<1>4. /\ w \in Rows /\ w.escs = d.escs /\ w.status = d.status /\ w.runs = d.runs
      /\ DOMAIN w.msgs = DOMAIN p.msgs /\ Len(w.msgs) = Len(p.msgs)
      /\ g # 0 /\ g \in DOMAIN p.msgs /\ p.msgs[g].supersededBy = 0
              => PointsOnly(p, w, g, n)
      /\ g = 0 \/ g \notin DOMAIN p.msgs \/ p.msgs[g].supersededBy # 0
              => w.msgs = p.msgs
  <2> HIDE DEF g
  <2> QED
    BY <1>1, <1>2, SupersedeRows
<1>7. f = Bump(v, [w EXCEPT !.runs[r].state = "COMPLETED", !.runs[r].result = n])
  BY DEF Complete, w, p, n, g
<1>12. g = d.runs[r].regenerated
  OBVIOUS
<1> HIDE DEF w, g
<1>5. /\ x \in Runs /\ x.state = "COMPLETED" /\ x.result = n
      /\ x.regenerated = d.runs[r].regenerated
  BY <1>2, <1>3 DEF Runs
<1>8. [w EXCEPT !.runs[r].state = "COMPLETED", !.runs[r].result = n]
        = [w EXCEPT !.runs = [[w.runs EXCEPT ![r] = [w.runs[r] EXCEPT !.state = "COMPLETED"]]
                                EXCEPT ![r] = [@ EXCEPT !.result = n]]]
  BY <1>4 DEF Rows
<1>9. [[w.runs EXCEPT ![r] = [w.runs[r] EXCEPT !.state = "COMPLETED"]]
                                EXCEPT ![r] = [@ EXCEPT !.result = n]] = s
  BY <1>3, <1>4
<1> HIDE DEF x
<1>6. /\ s \in Seq(Runs) /\ DOMAIN s = DOMAIN d.runs /\ s[r] = x
      /\ \A q \in DOMAIN d.runs : q # r => s[q] = d.runs[q]
  BY <1>3, <1>4, <1>5, Changed
<1>10. f = Bump(v, y)
  BY <1>7, <1>8, <1>9
<1> HIDE DEF s
<1>11. /\ y \in Rows /\ y.escs = d.escs /\ y.status = d.status /\ y.msgs = w.msgs
       /\ y.runs = s
  BY <1>4, <1>6, SetRuns
<1> HIDE DEF y
<1>13. /\ f \in Rows /\ f.escs = d.escs /\ f.status = d.status /\ f.msgs = w.msgs
       /\ f.runs = s /\ f.version = v.version + 1
  BY <1>10, <1>11, BumpRows
<1>14. ASSUME g = 0 \/ g \in DOMAIN d.msgs
       PROVE  /\ Posted(d, w, "run")
              /\ IF g # 0 /\ d.msgs[g].supersededBy = 0
                 THEN PointsOnly(d, w, g, n) ELSE PointsOnly(d, w, 0, 0)
  <2>1. CASE g # 0 /\ d.msgs[g].supersededBy = 0
    <3>1. g \in DOMAIN d.msgs /\ g \in DOMAIN p.msgs /\ p.msgs[g] = d.msgs[g]
      BY <1>1, <1>3, <1>14, <2>1 DEF PointsOnly
    <3>2. PointsOnly(p, w, g, n) /\ Len(d.msgs) + 1 # g
      BY <1>3, <1>4, <2>1, <3>1
    <3> QED
      BY <1>1, <1>3, <1>4, <2>1, <3>1, <3>2 DEF Posted, PointsOnly
  <2>2. CASE ~(g # 0 /\ d.msgs[g].supersededBy = 0)
    <3>1. w.msgs = p.msgs
      BY <1>1, <1>3, <1>4, <1>14, <2>2 DEF PointsOnly
    <3> QED
      BY <1>1, <2>2, <3>1 DEF Posted, PointsOnly
  <2> QED
    BY <2>1, <2>2
<1>15. Grows(d, f) /\ Len(f.msgs) = Len(d.msgs) + 1
  BY <1>1, <1>4, <1>6, <1>13 DEF Grows, Posted
<1>16. g = 0 \/ g \in DOMAIN d.msgs
         => /\ Posted(d, f, "run")
            /\ IF g # 0 /\ d.msgs[g].supersededBy = 0
               THEN PointsOnly(d, f, g, n) ELSE PointsOnly(d, f, 0, 0)
  BY <1>13, <1>14 DEF Posted, PointsOnly
<1> QED
  BY <1>5, <1>6, <1>12, <1>13, <1>15, <1>16 DEF n

LEMMA EscalateRows ==
  ASSUME NEW v \in Rows, NEW d \in Rows, NEW f, f = Escalate(v, d)
  PROVE  /\ f \in Rows /\ Grows(d, f) /\ f.runs = d.runs /\ f.msgs = d.msgs
         /\ \A e \in DOMAIN d.escs : f.escs[e] = d.escs[e]
         /\ DOMAIN f.escs = DOMAIN d.escs \cup {Len(d.escs) + 1}
         /\ f.escs[Len(d.escs) + 1].state = "WAITING"
         /\ f.version = IF v.status = "active" THEN v.version + 1 ELSE d.version
         /\ Open(f) = Open(d) \cup {Len(d.escs) + 1}
         /\ f.status = IF v.status = "active" THEN "escalated" ELSE d.status
<1> DEFINE x == [state |-> "WAITING", claimedBy |-> NoAgent, closed |-> 0]
           s == Append(d.escs, x)
           o == [d EXCEPT !.escs = s]
           q == [o EXCEPT !.status = "escalated"]
<1>1. d.escs \in Seq(Escalations)
  BY Fields
<1>2. x \in Escalations
  BY DEF Escalations
<1>3. /\ s \in Seq(Escalations) /\ DOMAIN s = DOMAIN d.escs \cup {Len(d.escs) + 1}
      /\ s[Len(d.escs) + 1].state = "WAITING"
      /\ Len(d.escs) + 1 \notin DOMAIN d.escs
      /\ \A e \in DOMAIN d.escs : s[e] = d.escs[e]
  BY <1>1, <1>2, Appended
<1>4. f = IF v.status = "active" THEN Bump(v, q) ELSE o
  BY DEF Escalate
<1> HIDE DEF s
<1>5. /\ o \in Rows /\ o.escs = s /\ o.runs = d.runs /\ o.msgs = d.msgs
      /\ o.status = d.status /\ o.version = d.version
  BY <1>3, SetEscs
<1> HIDE DEF o
<1>6. /\ q \in Rows /\ q.escs = s /\ q.runs = d.runs /\ q.msgs = d.msgs
      /\ q.status = "escalated"
  BY <1>5, SetStatusField DEF Statuses
<1> HIDE DEF q
<1>7. /\ f \in Rows /\ f.escs = s /\ f.runs = d.runs /\ f.msgs = d.msgs
      /\ f.status = IF v.status = "active" THEN "escalated" ELSE d.status
      /\ f.version = IF v.status = "active" THEN v.version + 1 ELSE d.version
  BY <1>4, <1>5, <1>6, BumpRows
<1>8. Open(f) = Open(d) \cup {Len(d.escs) + 1}
  BY <1>3, <1>7 DEF Open
<1> QED
  BY <1>3, <1>7, <1>8 DEF Grows

LEMMA ClaimRows ==
  ASSUME NEW d \in Rows, NEW e \in DOMAIN d.escs, d.escs[e].state = "WAITING",
         NEW a \in Agents, NEW f, f = Claim(d, e, a)
  PROVE  /\ f \in Rows /\ Grows(d, f) /\ f.runs = d.runs /\ f.msgs = d.msgs
         /\ f.status = d.status /\ f.version = d.version
         /\ Open(f) = Open(d) /\ DOMAIN f.escs = DOMAIN d.escs
         /\ f.escs[e].state = "CLAIMED"
         /\ \A g \in DOMAIN d.escs : g # e => f.escs[g] = d.escs[g]
<1> DEFINE x == [[d.escs[e] EXCEPT !.state = "CLAIMED"] EXCEPT !.claimedBy = a]
           s == [d.escs EXCEPT ![e] = x]
<1>1. d.escs \in Seq(Escalations) /\ d.escs[e] \in Escalations
  BY Fields
<1>2. x \in Escalations /\ x.state = "CLAIMED"
  BY <1>1 DEF Escalations
<1> HIDE DEF x
<1>3. /\ s \in Seq(Escalations) /\ DOMAIN s = DOMAIN d.escs /\ s[e] = x
      /\ \A g \in DOMAIN d.escs : g # e => s[g] = d.escs[g]
  BY <1>1, <1>2, Changed
<1>4. f = [d EXCEPT !.escs = s]
  BY DEF Claim, x, Rows
<1> HIDE DEF s
<1>5. /\ f \in Rows /\ f.escs = s /\ f.runs = d.runs /\ f.msgs = d.msgs
      /\ f.status = d.status /\ f.version = d.version
  BY <1>3, <1>4, SetEscs
<1>6. Open(f) = Open(d)
  BY <1>2, <1>3, <1>5 DEF Open
<1> QED
  BY <1>2, <1>3, <1>5, <1>6 DEF Grows

LEMMA ResolveRows ==
  ASSUME NEW v \in Rows, NEW d \in Rows, NEW e \in DOMAIN d.escs, NEW f, f = Resolve(v, d, e)
  PROVE  /\ f \in Rows /\ Grows(d, f) /\ f.runs = d.runs /\ f.msgs = d.msgs
         /\ Open(f) = Open(d) \ {e} /\ DOMAIN f.escs = DOMAIN d.escs
         /\ f.escs[e].state = "RESOLVED" /\ f.escs[e].closed = Len(d.msgs)
         /\ \A g \in DOMAIN d.escs : g # e => f.escs[g] = d.escs[g]
         /\ IF Open(v) \subseteq {e} /\ v.status = "escalated"
            THEN f.status = "active" /\ f.version = v.version + 1
            ELSE f.status = d.status /\ f.version = d.version
<1> DEFINE c == [d EXCEPT !.escs[e].state = "RESOLVED", !.escs[e].closed = Len(d.msgs)]
           x == [[d.escs[e] EXCEPT !.state = "RESOLVED"] EXCEPT !.closed = Len(d.msgs)]
           s == [d.escs EXCEPT ![e] = x]
           o == [d EXCEPT !.escs = s]
           q == [o EXCEPT !.status = "active"]
<1>1. d.escs \in Seq(Escalations) /\ d.escs[e] \in Escalations /\ Len(d.msgs) \in Nat
  BY Fields
<1>2. x \in Escalations /\ x.state = "RESOLVED" /\ x.closed = Len(d.msgs)
  BY <1>1 DEF Escalations
<1>4. c = o
  BY DEF Rows
<1>5. f = IF Open(v) \subseteq {e} /\ v.status = "escalated"
          THEN Bump(v, [c EXCEPT !.status = "active"]) ELSE c
  BY DEF Resolve
<1> HIDE DEF x, c
<1>3. /\ s \in Seq(Escalations) /\ DOMAIN s = DOMAIN d.escs /\ s[e] = x
      /\ \A g \in DOMAIN d.escs : g # e => s[g] = d.escs[g]
  BY <1>1, <1>2, Changed
<1> HIDE DEF s
<1>6. /\ o \in Rows /\ o.escs = s /\ o.runs = d.runs /\ o.msgs = d.msgs
      /\ o.status = d.status /\ o.version = d.version
  BY <1>3, SetEscs
<1> HIDE DEF o
<1>10. f = IF Open(v) \subseteq {e} /\ v.status = "escalated" THEN Bump(v, q) ELSE o
  BY <1>4, <1>5
<1>7. /\ q \in Rows /\ q.escs = s /\ q.runs = d.runs /\ q.msgs = d.msgs
      /\ q.status = "active"
  BY <1>6, SetStatusField DEF Statuses
<1> HIDE DEF q
<1>8. /\ f \in Rows /\ f.escs = s /\ f.runs = d.runs /\ f.msgs = d.msgs
      /\ IF Open(v) \subseteq {e} /\ v.status = "escalated"
         THEN f.status = "active" /\ f.version = v.version + 1
         ELSE f.status = d.status /\ f.version = d.version
  BY <1>10, <1>6, <1>7, BumpRows
<1>9. Open(f) = Open(d) \ {e}
  BY <1>2, <1>3, <1>8 DEF Open
<1> QED
  BY <1>2, <1>3, <1>8, <1>9 DEF Grows

LEMMA ReplyRows ==
  ASSUME NEW d \in Rows, NEW e \in Nat, NEW f, f = Reply(d, e)
  PROVE  /\ f \in Rows /\ Grows(d, f) /\ f.runs = d.runs /\ f.escs = d.escs
         /\ f.status = d.status /\ f.version = d.version
         /\ Posted(d, f, "human") /\ PointsOnly(d, f, 0, 0)
<1> DEFINE p == Post(d, "human", e)
<1>1. f = p
  BY DEF Reply
<1>2. /\ p \in Rows /\ p.escs = d.escs /\ p.status = d.status /\ p.runs = d.runs
      /\ p.version = d.version /\ DOMAIN d.msgs \subseteq DOMAIN p.msgs
      /\ Posted(d, p, "human") /\ PointsOnly(d, p, 0, 0)
  BY PostRows
<1> HIDE DEF p
<1> QED
  BY <1>1, <1>2 DEF Grows

LEMMA SetStatusRows ==
  ASSUME NEW v \in Rows, NEW d \in Rows, NEW s \in {"active", "archived", "deleted"},
         NEW f, f = SetStatus(v, d, s)
  PROVE  /\ f \in Rows /\ Grows(d, f) /\ f.runs = d.runs /\ f.escs = d.escs
         /\ f.status = s /\ f.version = v.version + 1 /\ f.msgs = d.msgs
<1> DEFINE q == [d EXCEPT !.status = s]
<1>1. q \in Rows /\ q.escs = d.escs /\ q.runs = d.runs /\ q.msgs = d.msgs /\ q.status = s
  BY SetStatusField DEF Statuses
<1>2. f = Bump(v, q)
  BY DEF SetStatus
<1> HIDE DEF q
<1> QED
  BY <1>1, <1>2, BumpRows DEF Grows

(* Numbers that are bounded have a greatest one. *)
LEMMA LessThanWellFounded == IsWellFoundedOn({p \in Nat \X Nat : p[1] < p[2]}, Nat)
  BY NatLessThanWellFounded DEF OpToRel

LEMMA GreatestExists ==
  ASSUME NEW S \in SUBSET Nat, S # {}, NEW n \in Nat, \A i \in S : i < n
  PROVE  \E i \in S : \A j \in S : j <= i
<1> DEFINE T == {n - i : i \in S}
<1>1. T \subseteq Nat
  <2>1. \A i \in S : n - i \in Nat
    OBVIOUS
  <2> QED
    BY <2>1
<1>2. T # {}
  OBVIOUS
<1> HIDE DEF T
<1>3. PICK k \in T : \A j \in T : ~(<<j, k>> \in {p \in Nat \X Nat : p[1] < p[2]})
  BY <1>1, <1>2, LessThanWellFounded, WFMin, Zenon
<1>4. ASSUME NEW j \in T PROVE k <= j
  <2>1. j \in Nat /\ k \in Nat
    BY <1>1, <1>3
  <2>2. ~(j < k)
    BY <2>1, <1>3
  <2> QED
    BY <2>1, <2>2
<1>5. PICK i \in S : k = n - i
  BY <1>3 DEF T
<1>6. \A j \in S : n - j \in T
  BY DEF T
<1>7. \A j \in S : n - i <= n - j
  BY <1>4, <1>5, <1>6
<1> QED
  BY <1>7

LEMMA NewestUser ==
  ASSUME NEW v \in Rows, NEW m \in DOMAIN v.msgs, UsersBefore(v, m) # {}
  PROVE  Newest(UsersBefore(v, m)) \in Nat
<1>1. v.msgs \in Seq(Messages) /\ DOMAIN v.msgs = 1 .. Len(v.msgs) /\ Len(v.msgs) \in Nat
  BY Fields
<1>2. UsersBefore(v, m) \in SUBSET Nat /\ m \in Nat /\ \A i \in UsersBefore(v, m) : i < m
  BY <1>1 DEF UsersBefore
<1>3. \E i \in UsersBefore(v, m) : \A j \in UsersBefore(v, m) : j <= i
  BY <1>2, GreatestExists
<1> QED
  BY <1>2, <1>3 DEF Newest

-----------------------------------------------------------------------------
(* The calls a transaction can be running: the rows they are about stay, for *)
(* no handler deletes one.                                                   *)
Targets(d) == Calls(d) \cup {Call("escalate", r, "none") : r \in DOMAIN d.runs}

LEMMA TargetCases ==
  ASSUME NEW d \in Rows, NEW c \in Targets(d)
  PROVE  /\ \/ c.op = "accept"
            \/ c.op \in {"regenerate", "edit"} /\ c.at \in DOMAIN d.msgs
            \/ c.op \in {"complete", "end"} /\ c.at \in DOMAIN d.runs
            \/ c.op = "escalate"
            \/ c.op = "claim" /\ c.at \in DOMAIN d.escs /\ c.arg \in Agents
            \/ c.op \in {"resolve", "reply"} /\ c.at \in DOMAIN d.escs
            \/ c.op = "status" /\ c.arg \in {"active", "archived", "deleted"}
         /\ c \in Requests
         /\ c # Idle
         /\ c.op # "escalate" => c \in Calls(d)
<1>1. DOMAIN d.msgs \subseteq Nat /\ DOMAIN d.runs \subseteq Nat /\ DOMAIN d.escs \subseteq Nat
  BY Fields
<1>2. Active(d) \subseteq DOMAIN d.runs
  BY DEF Active
<1>3. CASE c \in {Call("escalate", r, "none") : r \in {0} \cup Active(d) \cup DOMAIN d.runs}
  BY <1>1, <1>2, <1>3 DEF Call, Idle, Requests
<1>4. CASE c = Call("accept", 0, "none")
  BY <1>4 DEF Call, Idle, Requests, Calls
<1>5. CASE c \in {Call(op, m, "none") : op \in {"regenerate", "edit"}, m \in DOMAIN d.msgs}
  BY <1>1, <1>5 DEF Call, Idle, Requests, Calls
<1>6. CASE c \in {Call(op, r, "none") : op \in {"complete", "end"}, r \in DOMAIN d.runs}
  BY <1>1, <1>6 DEF Call, Idle, Requests, Calls
<1>7. CASE c \in {Call("claim", e, a) : e \in DOMAIN d.escs, a \in Agents}
  BY <1>1, <1>7 DEF Call, Idle, Requests, Calls
<1>8. CASE c \in {Call(op, e, "none") : op \in {"resolve", "reply"}, e \in DOMAIN d.escs}
  BY <1>1, <1>8 DEF Call, Idle, Requests, Calls
<1>9. CASE c \in {Call("status", 0, s) : s \in {"active", "archived", "deleted"}}
  BY <1>1, <1>9 DEF Call, Idle, Requests, Calls, Statuses
<1> QED
  BY <1>3, <1>4, <1>5, <1>6, <1>7, <1>8, <1>9 DEF Targets, Calls

LEMMA TargetsStay ==
  ASSUME NEW d \in Rows, NEW f \in Rows, Grows(d, f), NEW c \in Targets(d)
  PROVE  c \in Targets(f)
<1>2. Active(d) \subseteq DOMAIN d.runs
  BY DEF Active
<1>3. CASE c \in {Call("escalate", r, "none") : r \in {0} \cup Active(d) \cup DOMAIN d.runs}
  BY <1>2, <1>3 DEF Grows, Targets, Calls
<1>4. CASE c \in Calls(d) /\ c \notin {Call("escalate", r, "none") : r \in {0} \cup Active(d)}
  BY <1>4 DEF Grows, Targets, Calls
<1> QED
  BY <1>3, <1>4 DEF Targets, Calls

-----------------------------------------------------------------------------
(* The branches of a transcript.  Their invariant is inductive only with     *)
(* what is true of a run while it works: it is the only one, and the message *)
(* it is to replace is a reply that nothing has replaced.                    *)
RunFollows(r) ==
  LET run == db.runs[r]
      g == run.regenerated
  IN  /\ run.state = "COMPLETED" => run.result # 0
      /\ g # 0 => /\ g \in DOMAIN db.msgs /\ db.msgs[g].by # "user"
                  /\ run.state = "ACTIVE" => db.msgs[g].supersededBy = 0
                  /\ run.state = "COMPLETED" => db.msgs[g].supersededBy = run.result

ChainInv ==
  /\ RowsOK /\ ReplacedOnce
  /\ \A r, q \in Active(db) : r = q
  /\ \A r \in DOMAIN db.runs : RunFollows(r)

LEMMA ChainInitInv == Init => ChainInv
<1> SUFFICES ASSUME db = NoRows PROVE ChainInv
  BY DEF Init
<1>1. NoRows \in Rows
  BY DEF NoRows, Rows, Statuses
<1>2. DOMAIN db.msgs = {} /\ DOMAIN db.runs = {}
  BY DEF NoRows
<1> QED
  BY <1>1, <1>2 DEF ChainInv, RowsOK, ReplacedOnce, Active

(* A step that posts at most one message and points an older one of its      *)
(* role, p if any, at it.                                                    *)
Writes(by, p) ==
  /\ Posted(db, db', by) /\ PointsOnly(db, db', p, Len(db.msgs) + 1)
  /\ p # 0 => /\ p \in DOMAIN db.msgs /\ db.msgs[p].supersededBy = 0
              /\ (db.msgs[p].by = "user") <=> (by = "user")

LEMMA WritesKeepChains ==
  ASSUME ChainInv, NEW by, NEW p, Writes(by, p)
  PROVE  ReplacedOnce'
<1> DEFINE n == Len(db.msgs) + 1
<1>1. DOMAIN db.msgs = 1 .. Len(db.msgs) /\ Len(db.msgs) \in Nat
  BY Fields DEF ChainInv, RowsOK
<1>2. /\ DOMAIN db'.msgs = DOMAIN db.msgs \cup {n}
      /\ db'.msgs[n].by = by /\ db'.msgs[n].supersededBy = 0
  BY DEF Writes, Posted
<1>3. \A i \in DOMAIN db.msgs : /\ i < n /\ i # n
                                /\ db'.msgs[i].by = db.msgs[i].by
                                /\ i # p => db'.msgs[i] = db.msgs[i]
                                /\ i = p => db'.msgs[i].supersededBy = n
  BY <1>1 DEF Writes, PointsOnly
<1>4. \A i \in DOMAIN db.msgs : db.msgs[i].supersededBy # n
  BY <1>1, <1>3 DEF ChainInv, ReplacedOnce
<1>5. n # 0
  BY <1>1
<1> HIDE DEF n
<1> SUFFICES ASSUME NEW m \in DOMAIN db'.msgs, db'.msgs[m].supersededBy # 0
             PROVE  LET o == db'.msgs[m].supersededBy IN
                      /\ o \in DOMAIN db'.msgs /\ m < o
                      /\ (db'.msgs[m].by = "user") <=> (db'.msgs[o].by = "user")
                      /\ \A k \in DOMAIN db'.msgs : db'.msgs[k].supersededBy = o => k = m
  BY DEF ReplacedOnce
<1>6. m \in DOMAIN db.msgs
  BY <1>2
<1>7. CASE m = p
  <2>1. \A k \in DOMAIN db'.msgs : db'.msgs[k].supersededBy = n => k = m
    BY <1>2, <1>3, <1>4, <1>5, <1>7
  <2>2. (db.msgs[m].by = "user") <=> (by = "user")
    BY <1>1, <1>6, <1>7 DEF Writes
  <2> QED
    BY <1>2, <1>3, <1>6, <1>7, <2>1, <2>2
<1>8. CASE m # p
  <2> DEFINE o == db.msgs[m].supersededBy
  <2>1. db'.msgs[m].supersededBy = o
    BY <1>3, <1>6, <1>8
  <2>2. /\ o \in DOMAIN db.msgs /\ m < o
        /\ (db.msgs[m].by = "user") <=> (db.msgs[o].by = "user")
        /\ \A k \in DOMAIN db.msgs : db.msgs[k].supersededBy = o => k = m
    BY <1>6, <2>1 DEF ChainInv, ReplacedOnce
  <2>3. ASSUME NEW k \in DOMAIN db'.msgs, db'.msgs[k].supersededBy = o PROVE k = m
    <3>1. k \in DOMAIN db.msgs
      BY <1>2, <2>1, <2>3
    <3>2. k # p
      BY <1>3, <1>4, <1>6, <2>3, <3>1
    <3> QED
      BY <1>3, <2>2, <2>3, <3>1, <3>2
  <2> QED
    BY <1>2, <1>3, <1>6, <2>1, <2>2, <2>3
<1> QED
  BY <1>7, <1>8

LEMMA SameMessages ==
  ASSUME ReplacedOnce, db'.msgs = db.msgs
  PROVE  ReplacedOnce'
  BY DEF ReplacedOnce

(* A run a step leaves alone still follows: p is not what it is to replace. *)
LEMMA RunStillFollows ==
  ASSUME ChainInv, NEW by, NEW p, Writes(by, p) \/ (db'.msgs = db.msgs),
         NEW q \in DOMAIN db.runs, db'.runs[q] = db.runs[q],
         Writes(by, p) /\ db.runs[q].state = "ACTIVE" /\ db.runs[q].regenerated # 0
           => db.runs[q].regenerated # p
  PROVE  RunFollows(q)'
<1> DEFINE g == db.runs[q].regenerated
<1>1. RunFollows(q) /\ db.msgs \in Seq(Messages) /\ DOMAIN db.msgs = 1 .. Len(db.msgs)
  BY Fields DEF ChainInv, RowsOK
<1>2. CASE db'.msgs = db.msgs
  BY <1>1, <1>2 DEF RunFollows
<1>3. CASE Writes(by, p)
  <2>1. /\ DOMAIN db.msgs \subseteq DOMAIN db'.msgs
        /\ \A i \in DOMAIN db.msgs : /\ db'.msgs[i].by = db.msgs[i].by
                                     /\ i # p => db'.msgs[i] = db.msgs[i]
        /\ p \in DOMAIN db.msgs => db.msgs[p].supersededBy = 0
    BY <1>1, <1>3 DEF Writes, Posted, PointsOnly
  <2>2. g # 0 /\ db.runs[q].state \in {"ACTIVE", "COMPLETED"} => g # p
    BY <1>1, <1>3, <2>1 DEF RunFollows
  <2> QED
    BY <1>1, <2>1, <2>2 DEF RunFollows
<1> QED
  BY <1>2, <1>3

LEMMA StartKeepsRuns ==
  ASSUME ChainInv, NEW by, NEW p, Writes(by, p) \/ (db'.msgs = db.msgs),
         Active(db) = {}, NEW g, Started(db, db', g),
         g # 0 => /\ g \in DOMAIN db.msgs /\ db.msgs[g].by # "user"
                  /\ db.msgs[g].supersededBy = 0 /\ db'.msgs = db.msgs
  PROVE  /\ \A r, q \in Active(db') : r = q
         /\ \A r \in DOMAIN db'.runs : RunFollows(r)'
<1>0. PICK n : n = Len(db.runs) + 1
  OBVIOUS
<1>1. /\ DOMAIN db'.runs = DOMAIN db.runs \cup {n} /\ n \notin DOMAIN db.runs
      /\ db'.runs[n].state = "ACTIVE" /\ db'.runs[n].regenerated = g
      /\ \A q \in DOMAIN db.runs : db'.runs[q] = db.runs[q]
  BY <1>0 DEF Started
<1>2. Active(db') \subseteq {n}
  BY <1>1 DEF Active
<1>3. RunFollows(n)'
  BY <1>1 DEF RunFollows
<1>4. ASSUME NEW q \in DOMAIN db.runs PROVE RunFollows(q)'
  <2>1. db.runs[q].state # "ACTIVE"
    BY DEF Active
  <2> QED
    BY <1>1, <2>1, RunStillFollows
<1> QED
  BY <1>1, <1>2, <1>3, <1>4

LEMMA SameRuns ==
  ASSUME ChainInv, NEW by, Writes(by, 0) \/ (db'.msgs = db.msgs), db'.runs = db.runs
  PROVE  /\ \A r, q \in Active(db') : r = q
         /\ \A r \in DOMAIN db'.runs : RunFollows(r)'
<1>1. Active(db') = Active(db)
  BY DEF Active
<1>2. ASSUME NEW q \in DOMAIN db.runs PROVE RunFollows(q)'
  BY RunStillFollows
<1> QED
  BY <1>1, <1>2 DEF ChainInv

LEMMA ReplyKeepsChains ==
  ASSUME ChainInv, NEW e \in Nat, db' = Reply(db, e)
  PROVE  ChainInv'
<1>1. db \in Rows
  BY DEF ChainInv, RowsOK
<1>2. /\ db' \in Rows /\ db'.runs = db.runs
      /\ Posted(db, db', "human") /\ PointsOnly(db, db', 0, 0)
  BY <1>1, ReplyRows
<1>3. Writes("human", 0)
  BY <1>1, <1>2, Fields DEF Writes, PointsOnly
<1> QED
  BY <1>2, <1>3, WritesKeepChains, SameRuns DEF ChainInv, RowsOK

LEMMA HandlerKeepsChains ==
  ASSUME ChainInv, NEW c \in Calls(db), Handle(c)
  PROVE  ChainInv'
<1>1. /\ db \in Rows /\ c \in Targets(db) /\ Allowed(c, db) /\ Insertable(c, db, db)
      /\ db' = Effect(c, db, db)
  BY DEF ChainInv, RowsOK, Handle, Targets
<1>2. /\ DOMAIN db.msgs = 1 .. Len(db.msgs) /\ Len(db.msgs) \in Nat
      /\ NextNumber(db) = Len(db.msgs) + 1
  BY <1>1, Fields DEF NextNumber
<1>3. PointsOnly(db, db', 0, 0) => PointsOnly(db, db', 0, Len(db.msgs) + 1)
  BY <1>2 DEF PointsOnly
<1>4. StartsRun(c, db) => Active(db) = {}
  BY <1>1 DEF Insertable
<1>5. CASE c.op = "accept"
  <2>1. /\ db' \in Rows /\ Posted(db, db', "user") /\ PointsOnly(db, db', 0, 0)
        /\ IF db.status = "escalated" THEN db'.runs = db.runs ELSE Started(db, db', 0)
    BY <1>1, <1>5, AcceptRows DEF Effect
  <2>2. Writes("user", 0)
    BY <1>3, <2>1 DEF Writes
  <2>3. CASE db.status = "escalated"
    BY <2>1, <2>2, <2>3, WritesKeepChains, SameRuns DEF ChainInv, RowsOK
  <2>4. CASE db.status # "escalated"
    <3>1. Active(db) = {} /\ Started(db, db', 0)
      BY <1>4, <1>5, <2>1, <2>4 DEF StartsRun
    <3>2. /\ \A r, q \in Active(db') : r = q
          /\ \A r \in DOMAIN db'.runs : RunFollows(r)'
      BY <2>2, <3>1, StartKeepsRuns
    <3> QED
      BY <2>1, <2>2, <3>2, WritesKeepChains DEF ChainInv, RowsOK
  <2> QED
    BY <2>3, <2>4
<1>6. CASE c.op = "regenerate"
  <2>1. c.at \in DOMAIN db.msgs /\ UsersBefore(db, c.at) # {}
    BY <1>1, <1>6, TargetCases DEF Allowed, CanRegenerate
  <2>2. Newest(UsersBefore(db, c.at)) \in Nat /\ c.at \in Nat
    BY <1>1, <1>2, <2>1, NewestUser
  <2>3. db' \in Rows /\ db'.msgs = db.msgs /\ Started(db, db', c.at)
    BY <1>1, <1>6, <2>2, RegenerateRows DEF Effect
  <2>4. db.msgs[c.at].by # "user" /\ db.msgs[c.at].supersededBy = 0 /\ Active(db) = {}
    BY <1>1, <1>4, <1>6 DEF Allowed, CanRegenerate, StartsRun
  <2>5. /\ \A r, q \in Active(db') : r = q
        /\ \A r \in DOMAIN db'.runs : RunFollows(r)'
    BY <2>1, <2>3, <2>4, StartKeepsRuns
  <2> QED
    BY <2>3, <2>5, SameMessages DEF ChainInv, RowsOK
<1>7. CASE c.op = "edit"
  <2>1. c.at \in UsersBefore(db, NextNumber(db)) /\ Active(db) = {}
    BY <1>1, <1>4, <1>7 DEF Allowed, CanEdit, StartsRun
  <2>2. /\ c.at \in DOMAIN db.msgs /\ db.msgs[c.at].by = "user"
        /\ db.msgs[c.at].supersededBy = 0
    BY <2>1 DEF UsersBefore
  <2>3. /\ db' \in Rows /\ Started(db, db', 0) /\ Posted(db, db', "user")
        /\ PointsOnly(db, db', c.at, Len(db.msgs) + 1)
    BY <1>1, <1>2, <1>7, <2>2, EditRows DEF Effect
  <2>4. Writes("user", c.at)
    BY <2>2, <2>3 DEF Writes
  <2>5. /\ \A r, q \in Active(db') : r = q
        /\ \A r \in DOMAIN db'.runs : RunFollows(r)'
    BY <2>1, <2>3, <2>4, StartKeepsRuns
  <2> QED
    BY <2>3, <2>4, <2>5, WritesKeepChains DEF ChainInv, RowsOK
<1>8. CASE c.op = "complete"
  <2>1. PICK r \in DOMAIN db.runs : r = c.at
    BY <1>1, <1>8, TargetCases
  <2>2. PICK g : g = db.runs[r].regenerated
    OBVIOUS
  <2>3. db.runs[r].state = "ACTIVE" /\ RunFollows(r) /\ db' = Complete(db, db, r)
    BY <1>1, <1>8, <2>1 DEF Allowed, CanComplete, Effect, ChainInv
  <2>4. g # 0 => /\ g \in DOMAIN db.msgs /\ db.msgs[g].by # "user"
                 /\ db.msgs[g].supersededBy = 0
    BY <2>2, <2>3 DEF RunFollows
  <2>5. /\ db' \in Rows /\ DOMAIN db'.runs = DOMAIN db.runs
        /\ db'.runs[r].state = "COMPLETED" /\ db'.runs[r].result = Len(db.msgs) + 1
        /\ db'.runs[r].regenerated = g
        /\ \A q \in DOMAIN db.runs : q # r => db'.runs[q] = db.runs[q]
        /\ Posted(db, db', "run")
        /\ IF g # 0 THEN PointsOnly(db, db', g, Len(db.msgs) + 1)
           ELSE PointsOnly(db, db', 0, 0)
    BY <1>1, <1>2, <2>2, <2>3, <2>4, CompleteRows
  <2>6. Writes("run", g)
    BY <1>3, <2>4, <2>5 DEF Writes
  <2>7. \A q \in DOMAIN db.runs : q # r => db.runs[q].state # "ACTIVE"
    BY <2>3 DEF ChainInv, Active
  <2>8. Active(db') = {}
    BY <2>5, <2>7 DEF Active
  <2>9. RunFollows(r)'
    BY <1>2, <2>4, <2>5 DEF RunFollows, PointsOnly, Posted
  <2>10. ASSUME NEW q \in DOMAIN db.runs, q # r PROVE RunFollows(q)'
    BY <2>5, <2>6, <2>7, <2>10, RunStillFollows
  <2> QED
    BY <2>5, <2>6, <2>8, <2>9, <2>10, WritesKeepChains DEF ChainInv, RowsOK
<1>9. CASE c.op = "end"
  <2>1. PICK r \in DOMAIN db.runs : r = c.at
    BY <1>1, <1>9, TargetCases
  <2>2. /\ db' \in Rows /\ db'.msgs = db.msgs /\ DOMAIN db'.runs = DOMAIN db.runs
        /\ db'.runs[r].state = "ENDED"
        /\ db'.runs[r].regenerated = db.runs[r].regenerated
        /\ \A q \in DOMAIN db.runs : q # r => db'.runs[q] = db.runs[q]
    BY <1>1, <1>9, <2>1, EndRows DEF Effect
  <2>3. Active(db') \subseteq Active(db)
    BY <2>2 DEF Active
  <2>4. RunFollows(r)'
    BY <2>2 DEF ChainInv, RunFollows
  <2>5. ASSUME NEW q \in DOMAIN db.runs, q # r PROVE RunFollows(q)'
    <3>1. db'.runs[q] = db.runs[q] /\ RunFollows(q)
      BY <2>2, <2>5 DEF ChainInv
    <3> QED
      BY <2>2, <3>1 DEF RunFollows
  <2> QED
    BY <2>2, <2>3, <2>4, <2>5, SameMessages DEF ChainInv, RowsOK
<1>10. CASE c.op = "escalate"
  <2>1. db' \in Rows /\ db'.msgs = db.msgs /\ db'.runs = db.runs
    BY <1>1, <1>10, EscalateRows DEF Effect
  <2> QED
    BY <2>1, SameMessages, SameRuns DEF ChainInv, RowsOK
<1>11. CASE c.op = "claim"
  <2>1. /\ c.at \in DOMAIN db.escs /\ c.arg \in Agents
        /\ db.escs[c.at].state = "WAITING"
    BY <1>1, <1>11, TargetCases DEF Allowed, CanClaim
  <2>2. db' \in Rows /\ db'.msgs = db.msgs /\ db'.runs = db.runs
    BY <1>1, <1>11, <2>1, ClaimRows DEF Effect
  <2> QED
    BY <2>2, SameMessages, SameRuns DEF ChainInv, RowsOK
<1>12. CASE c.op = "resolve"
  <2>1. c.at \in DOMAIN db.escs
    BY <1>1, <1>12, TargetCases
  <2>2. db' \in Rows /\ db'.msgs = db.msgs /\ db'.runs = db.runs
    BY <1>1, <1>12, <2>1, ResolveRows DEF Effect
  <2> QED
    BY <2>2, SameMessages, SameRuns DEF ChainInv, RowsOK
<1>13. CASE c.op = "reply"
  <2>1. c.at \in Nat /\ db' = Reply(db, c.at)
    BY <1>1, <1>13, TargetCases DEF Requests, Effect
  <2> QED
    BY <2>1, ReplyKeepsChains
<1>14. CASE c.op = "status"
  <2>1. c.arg \in {"active", "archived", "deleted"}
    BY <1>1, <1>14, TargetCases
  <2>2. db' \in Rows /\ db'.msgs = db.msgs /\ db'.runs = db.runs
    BY <1>1, <1>14, <2>1, SetStatusRows DEF Effect
  <2> QED
    BY <2>2, SameMessages, SameRuns DEF ChainInv, RowsOK
<1> QED
  BY <1>1, <1>5, <1>6, <1>7, <1>8, <1>9, <1>10, <1>11, <1>12, <1>13, <1>14, TargetCases

LEMMA StutterKeepsChains == ChainInv /\ UNCHANGED db => ChainInv'
  BY DEF ChainInv, RowsOK, ReplacedOnce, Active, RunFollows

LEMMA ChainsFollow == ChainInv => BranchesAreChains
  BY DEF ChainInv, BranchesAreChains, ReplacesWhatItRegenerates, RunFollows

LEMMA SerialKeepsChains == ChainInv /\ [Next]_db => ChainInv'
  BY HandlerKeepsChains, StutterKeepsChains DEF Next

(* Handlers that run alone keep the branches of a transcript chains. *)
THEOREM SerialBranches == Spec => []BranchesAreChains
<1>1. Spec => []ChainInv
  BY ChainInitInv, SerialKeepsChains, PTL DEF Spec
<1> QED
  BY <1>1, ChainsFollow, PTL

-----------------------------------------------------------------------------
(* The escalations.  Rows a conversation can have: one open escalation, a    *)
(* paused conversation has it, and resolutions are in the past.              *)
Resolved(d) == {e \in DOMAIN d.escs : d.escs[e].state = "RESOLVED"}

Sound(d) ==
  /\ d \in Rows
  /\ \A e, f \in Open(d) : e = f
  /\ d.status = "escalated" => Open(d) # {}
  /\ \A e \in Resolved(d) : d.escs[e].closed <= Len(d.msgs)

(* What was once read, v, tells of the rows d of a later time: they only     *)
(* grow, a resolution is final and closes after what v has, nothing pauses   *)
(* the conversation while its escalation stays open, and the version counts  *)
(* every change of the status, every new escalation and every pointer.       *)
Since(v, d) ==
  /\ v.version <= d.version /\ Len(v.msgs) <= Len(d.msgs) /\ Grows(v, d)
  /\ \A e \in Resolved(v) : d.escs[e] = v.escs[e]
  /\ \A e \in Open(v) \cap Resolved(d) : Len(v.msgs) <= d.escs[e].closed
  /\ Open(v) \cap Open(d) # {} /\ d.status = "escalated" => v.status = "escalated"
  /\ v.version = d.version => /\ v.status = d.status /\ DOMAIN v.escs = DOMAIN d.escs
                              /\ \A i \in DOMAIN v.msgs : d.msgs[i] = v.msgs[i]

LEMMA SoundFirst == Sound(NoRows)
<1>1. NoRows \in Rows
  BY DEF NoRows, Rows, Statuses
<1>2. DOMAIN NoRows.escs = {} /\ NoRows.status = "active"
  BY DEF NoRows
<1> QED
  BY <1>1, <1>2 DEF Sound, Open, Resolved

LEMMA SinceItself ==
  ASSUME NEW d \in Rows
  PROVE  Since(d, d)
<1>1. d.version \in Nat /\ Len(d.msgs) \in Nat
  BY Fields
<1> QED
  BY <1>1 DEF Since, Grows, Open, Resolved

LEMMA SinceLonger ==
  ASSUME NEW u \in Rows, NEW v \in Rows, NEW d \in Rows, Since(u, v), Since(v, d)
  PROVE  Since(u, d)
<1>1. /\ u.version \in Nat /\ v.version \in Nat /\ d.version \in Nat
      /\ Len(u.msgs) \in Nat /\ Len(v.msgs) \in Nat /\ Len(d.msgs) \in Nat
      /\ d.escs \in Seq(Escalations) /\ v.escs \in Seq(Escalations)
      /\ DOMAIN u.msgs = 1 .. Len(u.msgs) /\ DOMAIN v.msgs = 1 .. Len(v.msgs)
  BY Fields
<1>2. ASSUME NEW e \in DOMAIN d.escs PROVE d.escs[e].closed \in Nat
  <2>1. d.escs[e] \in Escalations
    BY <1>1
  <2> QED
    BY <2>1 DEF Escalations
<1>3. u.version <= d.version /\ Len(u.msgs) <= Len(d.msgs) /\ Grows(u, d)
  BY <1>1 DEF Since, Grows
<1>4. \A e \in Resolved(u) : d.escs[e] = u.escs[e]
  BY DEF Since, Grows, Resolved
<1>5. ASSUME NEW e \in Open(u) \cap Resolved(d) PROVE Len(u.msgs) <= d.escs[e].closed
  <2>1. CASE e \in Resolved(v)
    BY <1>5, <2>1 DEF Since
  <2>2. CASE e \notin Resolved(v)
    <3>1. e \in Open(v) /\ e \in DOMAIN d.escs
      BY <1>5, <2>2 DEF Since, Grows, Open, Resolved
    <3>2. Len(v.msgs) <= d.escs[e].closed
      BY <1>5, <3>1 DEF Since
    <3> QED
      BY <1>1, <1>2, <3>1, <3>2 DEF Since
  <2> QED
    BY <2>1, <2>2
<1>6. ASSUME Open(u) \cap Open(d) # {}, d.status = "escalated" PROVE u.status = "escalated"
  <2>1. PICK e \in Open(u) : e \in Open(d)
    BY <1>6
  <2>2. e \in Open(v)
    BY <2>1 DEF Since, Grows, Open, Resolved
  <2> QED
    BY <1>6, <2>1, <2>2 DEF Since
<1>7. ASSUME u.version = d.version
      PROVE  /\ u.status = d.status /\ DOMAIN u.escs = DOMAIN d.escs
             /\ \A i \in DOMAIN u.msgs : d.msgs[i] = u.msgs[i]
  <2>1. u.version = v.version /\ v.version = d.version
    BY <1>1, <1>7 DEF Since
  <2> QED
    BY <2>1 DEF Since, Grows
<1> QED
  BY <1>3, <1>4, <1>5, <1>6, <1>7 DEF Since

(* Steps that touch no escalation. *)
LEMMA QuietStep ==
  ASSUME NEW d, Sound(d), NEW f \in Rows, Grows(d, f), f.escs = d.escs,
         Len(d.msgs) <= Len(f.msgs), f.status = "escalated" => d.status = "escalated",
         \/ f.version = d.version + 1
         \/ /\ f.version = d.version /\ f.status = d.status
            /\ \A i \in DOMAIN d.msgs : f.msgs[i] = d.msgs[i]
  PROVE  Sound(f) /\ Since(d, f)
<1>1. /\ d \in Rows /\ Len(d.msgs) \in Nat /\ Len(f.msgs) \in Nat /\ d.version \in Nat
      /\ d.escs \in Seq(Escalations)
  BY Fields DEF Sound
<1>2. ASSUME NEW e \in DOMAIN d.escs PROVE d.escs[e].closed \in Nat
  <2>1. d.escs[e] \in Escalations
    BY <1>1
  <2> QED
    BY <2>1 DEF Escalations
<1>3. Open(f) = Open(d) /\ Resolved(f) = Resolved(d) /\ Open(d) \cap Resolved(d) = {}
  BY DEF Open, Resolved
<1>4. Resolved(d) \subseteq DOMAIN d.escs
  BY DEF Resolved
<1>5. Sound(f)
  BY <1>1, <1>2, <1>3, <1>4 DEF Sound
<1> QED
  BY <1>1, <1>3, <1>5 DEF Since

LEMMA EscalateSound ==
  ASSUME NEW d, Sound(d), CanEscalate(d), NEW f, f = Escalate(d, d)
  PROVE  Sound(f) /\ Since(d, f)
<1>1. /\ d \in Rows /\ d.status = "active" /\ Open(d) = {}
      /\ Len(d.msgs) \in Nat /\ d.version \in Nat /\ d.escs \in Seq(Escalations)
  BY Fields DEF Sound, CanEscalate, Statuses
<1>2. /\ f \in Rows /\ Grows(d, f) /\ f.msgs = d.msgs /\ f.status = "escalated"
      /\ \A e \in DOMAIN d.escs : f.escs[e] = d.escs[e]
      /\ DOMAIN f.escs = DOMAIN d.escs \cup {Len(d.escs) + 1}
      /\ f.escs[Len(d.escs) + 1].state = "WAITING"
      /\ Open(f) = {Len(d.escs) + 1} /\ f.version = d.version + 1
  BY <1>1, EscalateRows
<1>3. Resolved(f) = Resolved(d)
  BY <1>2 DEF Resolved
<1>4. Resolved(d) \subseteq DOMAIN d.escs
  BY DEF Resolved
<1>5. Sound(f)
  BY <1>2, <1>3, <1>4 DEF Sound
<1> QED
  BY <1>1, <1>2, <1>4, <1>5 DEF Since

LEMMA ClaimSound ==
  ASSUME NEW d, Sound(d), NEW e \in DOMAIN d.escs, CanClaim(d, e), NEW a \in Agents,
         NEW f, f = Claim(d, e, a)
  PROVE  Sound(f) /\ Since(d, f)
<1>1. d \in Rows /\ Len(d.msgs) \in Nat /\ d.version \in Nat
  BY Fields DEF Sound
<1>2. /\ f \in Rows /\ Grows(d, f) /\ f.msgs = d.msgs /\ f.status = d.status
      /\ f.version = d.version /\ Open(f) = Open(d) /\ DOMAIN f.escs = DOMAIN d.escs
      /\ f.escs[e].state = "CLAIMED"
      /\ \A g \in DOMAIN d.escs : g # e => f.escs[g] = d.escs[g]
  BY <1>1, ClaimRows DEF CanClaim
<1>3. \A g \in Resolved(f) : g \in Resolved(d) /\ f.escs[g] = d.escs[g]
  BY <1>2 DEF Resolved
<1>4. \A g \in Resolved(d) : f.escs[g] = d.escs[g]
  BY <1>2 DEF Resolved, CanClaim
<1>5. Open(d) \cap Resolved(f) = {}
  BY <1>3 DEF Open, Resolved
<1>6. Sound(f)
  BY <1>2, <1>3 DEF Sound
<1> QED
  BY <1>1, <1>2, <1>4, <1>5, <1>6 DEF Since

LEMMA ResolveSound ==
  ASSUME NEW d, Sound(d), NEW e \in DOMAIN d.escs, CanResolve(d, e),
         NEW f, f = Resolve(d, d, e)
  PROVE  /\ Sound(f) /\ Since(d, f)
         /\ f.status = "active" => d.status = "active" \/ Open(f) = {}
<1>1. d \in Rows /\ Len(d.msgs) \in Nat /\ d.version \in Nat
  BY Fields DEF Sound
<1>2. /\ f \in Rows /\ Grows(d, f) /\ f.msgs = d.msgs
      /\ Open(f) = Open(d) \ {e} /\ DOMAIN f.escs = DOMAIN d.escs
      /\ f.escs[e].state = "RESOLVED" /\ f.escs[e].closed = Len(d.msgs)
      /\ \A g \in DOMAIN d.escs : g # e => f.escs[g] = d.escs[g]
      /\ IF Open(d) \subseteq {e} /\ d.status = "escalated"
         THEN f.status = "active" /\ f.version = d.version + 1
         ELSE f.status = d.status /\ f.version = d.version
  BY <1>1, ResolveRows
<1>3. e \in Open(d) /\ Open(d) = {e} /\ Open(f) = {}
  BY <1>2 DEF CanResolve, Open, Sound
<1>4. ASSUME NEW g \in Resolved(f), g # e
      PROVE  g \in Resolved(d) /\ f.escs[g] = d.escs[g]
  BY <1>2, <1>4 DEF Resolved
<1>5. \A g \in Resolved(d) : f.escs[g] = d.escs[g]
  BY <1>2 DEF Resolved, CanResolve
<1>6. Sound(f)
  <2>1. f.status # "escalated"
    BY <1>2, <1>3
  <2> QED
    BY <1>1, <1>2, <1>3, <1>4, <2>1 DEF Sound
<1>7. \A g \in Open(d) \cap Resolved(f) : Len(d.msgs) <= f.escs[g].closed
  BY <1>1, <1>2, <1>3
<1> QED
  BY <1>1, <1>2, <1>3, <1>5, <1>6, <1>7 DEF Since

LEMMA ReplySound ==
  ASSUME NEW d, Sound(d), NEW e \in Nat, NEW f, f = Reply(d, e)
  PROVE  Sound(f) /\ Since(d, f)
<1>1. d \in Rows /\ Len(d.msgs) \in Nat /\ 0 \notin DOMAIN d.msgs
  BY Fields DEF Sound
<1>2. /\ f \in Rows /\ Grows(d, f) /\ f.escs = d.escs /\ f.status = d.status
      /\ f.version = d.version /\ Posted(d, f, "human") /\ PointsOnly(d, f, 0, 0)
  BY <1>1, ReplyRows
<1>3. Len(d.msgs) <= Len(f.msgs) /\ \A i \in DOMAIN d.msgs : f.msgs[i] = d.msgs[i]
  BY <1>1, <1>2 DEF Posted, PointsOnly
<1> QED
  BY <1>2, <1>3, QuietStep

(* A handler that runs alone keeps the rows sound, and what was read before  *)
(* it tells as much after it.                                                *)
LEMMA HandlerSound ==
  ASSUME Sound(db), NEW c \in Calls(db), Handle(c)
  PROVE  Sound(db') /\ Since(db, db')
<1>1. /\ db \in Rows /\ c \in Targets(db) /\ Allowed(c, db)
      /\ db' = Effect(c, db, db)
  BY DEF Sound, Handle, Targets
<1>2. /\ Len(db.msgs) \in Nat /\ db.version \in Nat
      /\ Len(db.msgs) <= Len(db.msgs) + 1 /\ Len(db.msgs) <= Len(db.msgs)
  BY <1>1, Fields
<1>3. CASE c.op = "accept"
  <2>1. /\ db' \in Rows /\ Grows(db, db') /\ db'.escs = db.escs /\ db'.status = db.status
        /\ db'.version = db.version + 1 /\ Posted(db, db', "user")
    BY <1>1, <1>3, AcceptRows DEF Effect
  <2> QED
    BY <1>2, <2>1, QuietStep DEF Posted
<1>4. CASE c.op = "regenerate"
  <2>1. /\ c.at \in DOMAIN db.msgs /\ UsersBefore(db, c.at) # {} /\ c.at \in Nat
    BY <1>1, <1>4, TargetCases DEF Allowed, CanRegenerate, Requests
  <2>2. Newest(UsersBefore(db, c.at)) \in Nat
    BY <1>1, <2>1, NewestUser
  <2>3. /\ db' \in Rows /\ Grows(db, db') /\ db'.escs = db.escs /\ db'.status = db.status
        /\ db'.version = db.version + 1 /\ db'.msgs = db.msgs
    BY <1>1, <1>4, <2>1, <2>2, RegenerateRows DEF Effect
  <2> QED
    BY <1>2, <2>3, QuietStep
<1>5. CASE c.op = "edit"
  <2>1. c.at \in DOMAIN db.msgs
    BY <1>1, <1>5, TargetCases
  <2>2. /\ db' \in Rows /\ Grows(db, db') /\ db'.escs = db.escs /\ db'.status = db.status
        /\ db'.version = db.version + 1 /\ Posted(db, db', "user")
    BY <1>1, <1>5, <2>1, EditRows DEF Effect
  <2> QED
    BY <1>2, <2>2, QuietStep DEF Posted
<1>6. CASE c.op = "complete"
  <2>1. c.at \in DOMAIN db.runs
    BY <1>1, <1>6, TargetCases
  <2>2. /\ db' \in Rows /\ Grows(db, db') /\ db'.escs = db.escs /\ db'.status = db.status
        /\ db'.version = db.version + 1 /\ Len(db'.msgs) = Len(db.msgs) + 1
    BY <1>1, <1>6, <2>1, CompleteRows DEF Effect
  <2> QED
    BY <1>2, <2>2, QuietStep
<1>7. CASE c.op = "end"
  <2>1. c.at \in DOMAIN db.runs
    BY <1>1, <1>7, TargetCases
  <2>2. /\ db' \in Rows /\ Grows(db, db') /\ db'.escs = db.escs /\ db'.status = db.status
        /\ db'.version = db.version /\ db'.msgs = db.msgs
    BY <1>1, <1>7, <2>1, EndRows DEF Effect
  <2> QED
    BY <1>2, <2>2, QuietStep
<1>8. CASE c.op = "escalate"
  BY <1>1, <1>8, EscalateSound DEF Allowed, Effect
<1>9. CASE c.op = "claim"
  <2>1. c.at \in DOMAIN db.escs /\ c.arg \in Agents /\ CanClaim(db, c.at)
    BY <1>1, <1>9, TargetCases DEF Allowed
  <2> QED
    BY <1>1, <1>9, <2>1, ClaimSound DEF Effect
<1>10. CASE c.op = "resolve"
  <2>1. c.at \in DOMAIN db.escs /\ CanResolve(db, c.at)
    BY <1>1, <1>10, TargetCases DEF Allowed
  <2> QED
    BY <1>1, <1>10, <2>1, ResolveSound DEF Effect
<1>11. CASE c.op = "reply"
  <2>1. c.at \in Nat
    BY <1>1, TargetCases DEF Requests
  <2> QED
    BY <1>1, <1>11, <2>1, ReplySound DEF Effect
<1>12. CASE c.op = "status"
  <2>1. c.arg \in {"active", "archived", "deleted"}
    BY <1>1, <1>12, TargetCases
  <2>2. /\ db' \in Rows /\ Grows(db, db') /\ db'.escs = db.escs /\ db'.msgs = db.msgs
        /\ db'.status # "escalated" /\ db'.version = db.version + 1
    BY <1>1, <1>12, <2>1, SetStatusRows DEF Effect
  <2> QED
    BY <1>2, <2>2, QuietStep
<1> QED
  BY <1>1, <1>3, <1>4, <1>5, <1>6, <1>7, <1>8, <1>9, <1>10, <1>11, <1>12, TargetCases

(* Handlers that run alone leave one escalation open at a time, and no       *)
(* conversation paused without it.                                           *)
THEOREM SerialOneOpen == Spec => [](OneOpen /\ PausedHasOwner)
<1>1. Init => Sound(db)
  BY SoundFirst DEF Init
<1>2. Sound(db) /\ [Next]_db => Sound(db)'
  BY HandlerSound DEF Next
<1>3. Sound(db) => OneOpen /\ PausedHasOwner
  BY DEF Sound, OneOpen, PausedHasOwner
<1> QED
  BY <1>1, <1>2, <1>3, PTL DEF Spec
=============================================================================
