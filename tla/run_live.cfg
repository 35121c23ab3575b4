CONSTANTS
  r1 = r1
  r2 = r2
  k1 = k1
  a1 = a1
  a2 = a2
  a3 = a3
  alice = alice
  bob = bob
  carol = carol
  s1 = s1
  s2 = s2
  Runs = {r1, r2}
  Conversations = {k1}
  Approvals = {a1, a2}
  Principals = {alice, bob, carol}
  Sweepers = {s1}
  ConversationOf <- MCConversationOf
  KindOf <- MCKindOf
  RunOf <- MCRunOf
  Author <- MCAuthor
  Required <- MCRequired
  SweepLimit = 2
  MaxRequeues = 1
  MaxExtends = 1
  MaxFaults = 1
SPECIFICATION FairSpec
CHECK_DEADLOCK FALSE
PROPERTIES ParkedRunsMoveOn QueueDrains
