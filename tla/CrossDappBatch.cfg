SPECIFICATION Spec
CONSTANTS
  None = None
  Active = Active
  Revoker = Revoker
  t1 = t1
  b1 = b1
  siteA = siteA
  siteB = siteB
  s1 = s1
  s2 = s2
  Keys <- BatchKeys
  Tokens <- BatchTokens
  Requests <- TwoRequests
  Bundles <- OneBundle
  CallsOf <- CallsOfEach
  Sites <- TwoSites
  SiteOf <- SiteOfEach
  Surfaces <- TwoSurfaces
  MaxCalls = 2
  MaxSends = 2
  MaxRevocations = 1
  MaxRestarts = 1
SYMMETRY SurfaceSymmetry
CHECK_DEADLOCK FALSE
INVARIANTS
  TypeOK
  SentOnce
  AnswerIsTrue
  NothingLost
PROPERTIES
  AuthorizedSend
  AnswerIsFinal
