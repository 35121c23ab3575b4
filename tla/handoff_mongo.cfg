CONSTANTS
  t1 = t1
  t2 = t2
  Tx = {t1, t2}
  Agents = {ann}
  NoAgent = NoAgent
  MaxAttempts = 2
  MaxMessages = 2
  MaxRuns = 1
  MaxEscalations = 2
  MaxVersion = 3
SPECIFICATION MongoSpec
SYMMETRY InAnyOrder
CHECK_DEADLOCK FALSE
INVARIANTS TypeOK OneOpen
PROPERTIES SerialButLateReply
