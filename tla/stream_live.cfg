CONSTANTS
  MaxSeq = 3
  MaxNoops = 1
  MaxBreaks = 2
  MaxPurges = 1
  Capacity = 1
  Batch = 1
  RingCapacity = 1
  PollMax = 1
  Merging = FALSE
  ReplayFails = FALSE
SPECIFICATION FairSpec
CHECK_DEADLOCK FALSE
INVARIANTS NoSilentLoss
PROPERTIES EveryChangeArrives
