SPECIFICATION Spec
CONSTANTS
  BURN_ADDRESS = BURN_ADDRESS
  a1 = a1
  a2 = a2
  Stakers <- TwoStakers
  Seed = 1
  SCALE = 4
  BPS = 10
  MAX_PENALTY_BPS = 2
  PENALTY_DURATION = 2
  Amounts = {1, 10}
  MaxCalls = 5
  MaxTime = 3
  Intervals = {1, 2}
  FirstInterval = 1
CHECK_DEADLOCK FALSE
SYMMETRY StakerSymmetry
INVARIANTS
  RewardSolvency
  MaxWithdrawWorks
  DripSolvency
PROPERTIES
  SharePriceNeverFalls
