SPECIFICATION SeqSpec
CONSTANTS
  RfChain = {0, 1}
  IfChain = {0, 1, 2, 3, 4, 5, 6, 7, 8, 9}
  ifmod_config <- Modems
  LutSize = 3
  FifoSize = 1
  Off = Off
  RfConf <- Radios
  IfConf <- Channels
  GainTable <- Tables
  Power = {14}
  Config <- Configs
  Plans <- SomePlans
  MultiNb = 8
  StdIf = 8
  MaxSeta = 3
  W = 3
  Primes = {5, 7}
  LUT_MAX = 5
  Confs <- Boards
  Pkts <- Packets
INVARIANTS
  QuitLeavesHardware
CHECK_DEADLOCK FALSE
