SPECIFICATION Spec
CONSTANTS
  NumCalls = 2
  Txs <- MCTxs
  Workers = {w1, w2}
  MissThreshold = 2
  MaxIncidents = 0
  MaxSends = 1
INVARIANTS
  OffchainMeansNothingExecuted
CHECK_DEADLOCK FALSE
