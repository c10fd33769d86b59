SPECIFICATION FairSpec
CONSTANTS
  File <- File13
  bytesAsked = 13
  DATASIZE = 2
  HEADERSIZE = 1
  INT_MAX = 15
  MaxQueue = 1
CHECK_DEADLOCK FALSE
INVARIANTS NothingFromBefore AckedIsAccepted ClosedWithAll
PROPERTY WindowsAcked
