SPECIFICATION Spec
CONSTANTS
  Numbers = {1, 2, 3}
  Weights = {0, 1}
  INT_MAX = 1000
CHECK_DEADLOCK FALSE
INVARIANTS StartIsFound
