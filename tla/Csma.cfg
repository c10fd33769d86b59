SPECIFICATION Spec
CONSTANTS
  N = 3
  L = 2
  R <- Ranges123
  M = 4
  T = 9
CHECK_DEADLOCK FALSE
INVARIANTS CountersInRange BackoffFollowsStreak TicksAddUp
