CONSTANTS
  DATASIZE = 1
  SSTHRESH = 2
  INT_MAX = 63
  File <- File2
  totalSize = 2
  MaxQueue = 1
SPECIFICATION FairSpec
PROPERTY SendDataIsDone
CHECK_DEADLOCK FALSE
