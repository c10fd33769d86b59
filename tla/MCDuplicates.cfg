CONSTANTS
  DATASIZE = 1
  SSTHRESH = 2
  INT_MAX = 63
  File <- File4
  totalSize = 4
  MaxQueue = 1
SPECIFICATION Spec
CONSTRAINTS NotStolen WindowWithinFile
INVARIANTS IInv FastRecIffThreeDups
PROPERTY ClosedWindowStaysClosed
CHECK_DEADLOCK FALSE
