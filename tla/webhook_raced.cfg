\* The documented promise about raced job ids, against one stopped worker.
SPECIFICATION Spec
CONSTANTS
  Events = {e1}
  Hooks = {h1}
  Workers = {w1, w2}
  Sweepers = {s1}
  MaxAttempts = 2
  BatchSize = 1
  MaxFaults = 1
INVARIANTS NoDoubleDelivery
CHECK_DEADLOCK FALSE
