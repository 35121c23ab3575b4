------------------------------ MODULE EventFeed ------------------------------
(* What the event stream of a run promises its clients                       *)
(* (conversations.service.ts:846): the events have one authoritative order,  *)
(* it only grows at its end, and each client is given them in that order,    *)
(* none skipped and none twice, across any number of reconnects.             *)
EXTENDS Naturals, Sequences

CONSTANTS Clients

VARIABLES feed,   \* the events, in their order
          got     \* what each client was given

Init == feed = <<>> /\ got = [c \in Clients |-> <<>>]

Publish ==
  /\ Len(feed') > Len(feed)
  /\ SubSeq(feed', 1, Len(feed)) = feed
  /\ UNCHANGED got

Receive(c) ==
  /\ \E n \in Len(got[c]) + 1 .. Len(feed) : got' = [got EXCEPT ![c] = SubSeq(feed, 1, n)]
  /\ UNCHANGED feed

Next == Publish \/ \E c \in Clients : Receive(c)

Spec == Init /\ [][Next]_<<feed, got>>
=============================================================================
