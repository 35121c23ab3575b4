CONSTANTS
  r1 = r1
  r2 = r2
  r3 = r3
  t1 = t1
  t2 = t2
  c1 = c1
  c2 = c2
  c3 = c3
  Conversations = {c1}
  Runs = {r1, r2}
  Keys = {k1}
  NoConversation = NoConversation
  NoKey = NoKey
  NoRun = NoRun
  Tx = {t1, t2}
  Limit = 2
  EarlierEvents = 1
  MaxEvents = 2
SPECIFICATION FairSpec
CHECK_DEADLOCK FALSE
INVARIANTS OneRunPerKey
PROPERTIES HoldsReclaimed
