CONSTANTS
  DATASIZE = 1
  SSTHRESH = 4
  INT_MAX = 63
  File <- File3
  totalSize = 3
  MaxQueue = 1
SPECIFICATION Spec
INVARIANT PacketInCorrectSequence
CHECK_DEADLOCK FALSE
