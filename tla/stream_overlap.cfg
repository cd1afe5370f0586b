CONSTANTS
  MaxSeq = 5
  MaxNoops = 0
  MaxBreaks = 1
  MaxPurges = 0
  Capacity = 1
  Batch = 2
  RingCapacity = 1
  PollMax = 1
  Merging = TRUE
  ReplayFails = TRUE
SPECIFICATION Spec
INVARIANTS OverlapDeliveredOnce
CHECK_DEADLOCK FALSE
