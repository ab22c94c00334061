SPECIFICATION FairSpec
CONSTANTS
  NumCalls = 2
  Txs <- MCTxs
  Workers = {w1, w2}
  MissThreshold = 2
  MaxIncidents = 1
  MaxSends = 2
INVARIANTS TypeOK InOrder StatusIsTrue NothingRepeated
PROPERTIES TerminalIsFinal Finishes
CHECK_DEADLOCK FALSE
