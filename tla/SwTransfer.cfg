CONSTANTS
  FILEBUFSIZE = 2
  INT_MAX = 31
  File <- File21
  bytesAsked = 19
SPECIFICATION FairSpec
INVARIANTS OutfilePrefix InStep Exact EndAfterReceiver
PROPERTIES ImplementsDelivery ReceiverEnds
CHECK_DEADLOCK FALSE
