SPECIFICATION Spec
CONSTANTS
  None = None
  t1 = t1
  s1 = s1
  s2 = s2
  v1 = v1
  a1 = a1
  a2 = a2
  Keys <- OneRequest
  Injected <- OneRequest
  Surfaces <- TwoSurfaces
  Revokers <- OneRevoker
  Tokens <- TokensOneRevoker
  Accounts <- TwoAccounts
  AccountOf <- SameAccount
  MaxPending = 2
  MaxRevocations = 2
  MaxWorkerLives = 1
  MaxResets = 1
  StorageFaults = TRUE
  BadgeFaults = FALSE
SYMMETRY SurfaceSymmetry
INVARIANTS
  TypeOK
  AtMostOneSend
  DenialIsFinal
  ConsumedIsCovered
  ResetIsExclusive
PROPERTIES
  NoSendAfterRevocation
  NoSendFromRemovedAccount
  KeepsPromise
CHECK_DEADLOCK FALSE
