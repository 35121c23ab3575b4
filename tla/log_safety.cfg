\* Two Studio workers, two leases, two requests that share an event, one notice.
SPECIFICATION Spec
CONSTANTS
  e1 = e1
  e2 = e2
  k1 = k1
  k2 = k2
  NoOwner = NoOwner
  Workers = {w1, w2}
  EventIds = {e1, e2}
  Batches = {k1, k2}
  Notices = {n1}
  EventsOf <- OverlappingBatches
  MaxEpoch = 2
  MaxDraws = 2
CHECK_DEADLOCK FALSE
SYMMETRY Symmetry
INVARIANTS ClaimsNeverRegress AckedIsStored TerminalEventIsLast LastSequence
