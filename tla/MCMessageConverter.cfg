SPECIFICATION Spec
CONSTANTS
  Device = {d1}
  NoEntry = NoEntry
  MaxReg = 2
  MaxData = 2
  MaxTxl = 1
  RandomSeq = {0}
  Sleepy = {d1}
INVARIANTS
  TypeOK
  UplinkConservation
  CheckedKeyKnownToServer
  NoStrandedCache
  FaultNeedsErase
  SeqNotBehind
