\* One delivery, two workers, a sweep; three calls fail or processes stop.
SPECIFICATION FairSpec
CONSTANTS
  Events = {e1}
  Hooks = {h1}
  Workers = {w1, w2}
  Sweepers = {s1}
  MaxAttempts = 2
  BatchSize = 1
  MaxFaults = 3
INVARIANTS TypeOK RacedRequeueIsNoOp AttemptsPaidFor
PROPERTIES EventuallySettled
CHECK_DEADLOCK FALSE
