SPECIFICATION Spec
CONSTANTS
  p1 = p1
  p2 = p2
  Surfaces <- TwoPages
  Timeouts = {0, 2}
  DefaultTimeout = 2
  Faults = {"lease"}
  MaxTime = 3
SYMMETRY PageSymmetry
INVARIANTS InactivityIsFinal
CHECK_DEADLOCK FALSE
