SPECIFICATION FairSpec
CONSTANTS
  MaxSeta = 1
  MaxDown = 2
  MaxRx = 1
PROPERTIES
  SignalExits
CHECK_DEADLOCK FALSE
