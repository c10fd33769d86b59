CONSTANTS
  DATASIZE = 2
  SSTHRESH = 4
  INT_MAX = 3
  File <- File3
  totalSize = 3
  MaxQueue = 2
SPECIFICATION FairSpec
INVARIANTS OutfilePrefix MissingPacketKept BaseNotPastReceiver DoneMeansAccepted MutualExclusion NumbersFit
PROPERTIES ImplementsDelivery TransferEnds
CHECK_DEADLOCK FALSE
