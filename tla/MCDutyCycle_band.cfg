SPECIFICATION DutySpec
CONSTANTS
  Device = {d1}
  Frequency <- Channels
  Sizes <- Downlinks
  Sf = 12
  Bw = 125
  Cr = 5
  MaxMsg = 2
  MaxRefill = 1
INVARIANTS
  SentWithinBudget
