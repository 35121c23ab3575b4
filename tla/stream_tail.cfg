\* Polls overlap and a notice commits late: nothing written under the row lock is lost.
SPECIFICATION StreamSpec
CONSTANTS
  e1 = e1
  e2 = e2
  k1 = k1
  NoOwner = NoOwner
  Workers = {w1}
  EventIds = {e1, e2}
  Batches = {k1}
  Notices = {n1}
  EventsOf <- MCEventsOf
  MaxEpoch = 0
  MaxDraws = 1
  Clients = {c1}
  Polls = {p1, p2}
  BatchLimit = 2
  MaxFaults = 1
INVARIANTS StreamTypeOK LockedNeverSkipped TailFlushed
CHECK_DEADLOCK FALSE
