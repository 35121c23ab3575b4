------------------------------ MODULE Delivery ------------------------------
(***************************************************************************)
(* What the outbox promises its producers and consumers, with no workers,  *)
(* claims, inbox or clock: a recorded event is delivered to its consumers  *)
(* in registration order, then published for good; an event that cannot be *)
(* delivered is buried and stays buried until an operator replays it       *)
(* (the consumer contract of common/infra/outbox/consumer.ts).             *)
(***************************************************************************)
EXTENDS Integers, Sequences

CONSTANTS Events, Consumers, Subscribed

VARIABLES
  phase,   \* "unrecorded", "open", "published" or "dead" for each event
  done     \* the (event, consumer) pairs delivered

vars == <<phase, done>>

Init == /\ phase = [e \in Events |-> "unrecorded"]
        /\ done = {}

Move(e, from, to) == /\ phase[e] = from
                     /\ phase' = [phase EXCEPT ![e] = to]
                     /\ UNCHANGED done

Record(e) == Move(e, "unrecorded", "open")

\* Delivery to the k-th consumer, the ones before it having been served. A
\* repeated delivery leaves done as it is.
Deliver(e, k) ==
  /\ phase[e] = "open"
  /\ \A j \in 1..(k - 1) : <<e, Subscribed[e][j]>> \in done
  /\ done' = done \cup {<<e, Subscribed[e][k]>>}
  /\ UNCHANGED phase

Publish(e) == /\ \A k \in DOMAIN Subscribed[e] : <<e, Subscribed[e][k]>> \in done
              /\ Move(e, "open", "published")

Bury(e)   == Move(e, "open", "dead")
Replay(e) == Move(e, "dead", "open")

Next == \E e \in Events :
          \/ Record(e) \/ Publish(e) \/ Bury(e) \/ Replay(e)
          \/ \E k \in DOMAIN Subscribed[e] : Deliver(e, k)

Spec == Init /\ [][Next]_vars
=============================================================================
