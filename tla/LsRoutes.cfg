SPECIFICATION FairSpec
CONSTANTS
  Numbers = {1, 2, 3, 4}
  Weights = {1, 2}
  INT_MAX = 1000
CHECK_DEADLOCK FALSE
INVARIANTS KnownIsFinal ShortestPaths LowestPredecessor MessagesFollowTables
PROPERTY TablesPrinted
