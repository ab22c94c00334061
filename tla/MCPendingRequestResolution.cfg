SPECIFICATION Spec
CONSTANTS
  None = None
  r1 = r1
  r2 = r2
  l1 = l1
  l2 = l2
  tx = tx
  batch = batch
  grant = grant
  Runs <- MCRuns
  Leases <- MCLeases
  Tokens <- MCTokens
  Keys <- MCKeys
  SingleFlightKeys <- MCSingleFlightKeys
  MaxWorkerLives = 1
SYMMETRY Symmetry
INVARIANTS
  TypeOK
  FirstActionWins
  LeaseExcludesLateActions
  ResetBarrier
  LeaseIsGranted
PROPERTIES
  FailClosed
