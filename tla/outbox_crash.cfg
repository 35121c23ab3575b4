CONSTANTS
  w1 = w1
  w2 = w2
  c1 = c1
  c2 = c2
  Workers = {w1, w2}
  Consumers = {c1, c2}
  Subscribed <- MCSubscribed
  NumEvents = 2
  BatchSize = 2
  MaxAttempts = 2
  MaxLate = 0
  MaxCrashes = 1
  MaxDbErrors = 1
  MaxReplays = 1
SPECIFICATION FairSpec
INVARIANTS IInv OneHandlerAtATime NoRepeatBeforeFault RetryBudget
PROPERTIES Delivers EventuallySettled
