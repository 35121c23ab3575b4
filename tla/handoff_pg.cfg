CONSTANTS
  Tx = {t1, t2}
  Agents = {ann}
  NoAgent = NoAgent
  Approvals = {a1}
  NoApproval = NoApproval
  MaxMessages = 3
  MaxRuns = 2
  MaxEscalations = 2
  MaxVersion = 3
  Asking = {2}
SPECIFICATION FairPgSpec
CHECK_DEADLOCK FALSE
INVARIANTS PausedHasOwner BranchesAreChains DeadlocksArePairs
PROPERTIES Serial OnlyAPatchResumes TransactionsEnd
