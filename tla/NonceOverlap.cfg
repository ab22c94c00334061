SPECIFICATION Spec
CONSTANTS
  t1 = t1
  t2 = t2
  t3 = t3
  Txs <- ThreeTxs
  MaxNonce = 3
  TTL = 2
  MaxTime = 3
SYMMETRY Symmetry
INVARIANTS
  NoncesDiffer
