SPECIFICATION FairSpec
CONSTANTS
  Numbers = {1, 2, 3, 4}
  Weights = {0, 1}
  INT_MAX = 1000
CHECK_DEADLOCK FALSE
INVARIANTS CostsAreOfPaths PendingUpdates NextHopsLead NoRoutingLoops ShortestPaths
PROPERTY RoutesSettle
