SPECIFICATION FairSpec
CONSTANTS
  Device = {d1, d2}
  NoEntry = NoEntry
  MaxReg = 1
  MaxData = 1
  MaxTxl = 0
  RandomSeq = {0}
  Sleepy = {d1}
INVARIANTS
  AnswerFindsDevice
PROPERTIES
  CacheServed
  UplinkSettles
