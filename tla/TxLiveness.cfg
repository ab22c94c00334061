SPECIFICATION FairSpec
CONSTANTS
  None = None
  t1 = t1
  s1 = s1
  s2 = s2
  v1 = v1
  a1 = a1
  a2 = a2
  Keys <- OneRequest
  Injected <- OneRequest
  Surfaces <- TwoSurfaces
  Revokers <- OneRevoker
  Tokens <- TokensOneRevoker
  Accounts <- TwoAccounts
  AccountOf <- SameAccount
  MaxPending = 2
  MaxRevocations = 1
  MaxWorkerLives = 0
  MaxResets = 0
  StorageFaults = FALSE
  BadgeFaults = FALSE
PROPERTIES
  ConsumedIsAnswered
  LocksAreReleased
