CONSTANTS
  DATASIZE = 2
  SSTHRESH = 4
  INT_MAX = 63
  File <- File3
  totalSize = 3
  MaxQueue = 1
SPECIFICATION Spec
INVARIANT FinAckAnswersFin
CHECK_DEADLOCK FALSE
