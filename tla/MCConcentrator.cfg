SPECIFICATION FairSpec
CONSTANTS
  MaxSeta = 2
  MaxDown = 2
  MaxRx = 1
INVARIANTS
  TypeOK
  InOrder
  NoLostWakeup
  NoOverrun
PROPERTIES
  DownlinkSent
CHECK_DEADLOCK FALSE
