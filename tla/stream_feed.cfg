\* Polls never overlap, no notices: the stream is a feed, and it completes.
SPECIFICATION FairStream
CONSTANTS
  e1 = e1
  e2 = e2
  k1 = k1
  NoOwner = NoOwner
  Workers = {w1}
  EventIds = {e1, e2}
  Batches = {k1}
  Notices = {}
  EventsOf <- MCEventsOf
  MaxEpoch = 0
  MaxDraws = 0
  Clients = {c1}
  Polls = {p1}
  BatchLimit = 2
  MaxFaults = 2
PROPERTIES IsFeed EventuallyFlushed
CHECK_DEADLOCK FALSE
