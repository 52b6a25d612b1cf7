SPECIFICATION FairSpec
CONSTANTS
  Producer = {p1, p2}
  Poker = {k1}
  Stopper = {s1}
  MaxPut = 2
  MaxPoke = 2
INVARIANTS
  NoLostWakeup
PROPERTIES
  Mailbox
  StopEndsConsumer
  KeyLookedAt
CHECK_DEADLOCK FALSE
