CONSTANTS
  r1 = r1
  r2 = r2
  r3 = r3
  t1 = t1
  t2 = t2
  c1 = c1
  c2 = c2
  c3 = c3
  Conversations = {c1, c2, c3}
  Runs = {r1, r2, r3}
  Keys = {}
  NoConversation = NoConversation
  NoKey = NoKey
  NoRun = NoRun
  Tx = {t1, t2}
  Limit = 1
  EarlierEvents = 0
  MaxEvents = 0
SPECIFICATION Spec
SYMMETRY InAnyOrder
CHECK_DEADLOCK FALSE
INVARIANTS WallOvershoot WallAtWorst
