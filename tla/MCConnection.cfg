SPECIFICATION FairSpec
CONSTANTS
  MaxPut = 1
  BulkSize = {2}
  MaxRecord = 2
  MaxSignal = 1
INVARIANTS
  TypeOK
  DownlinkInOrder
PROPERTIES
  UplinkInOrder
  DownlinkArrives
  Ends
CHECK_DEADLOCK FALSE
