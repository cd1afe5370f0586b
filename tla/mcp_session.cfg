CONSTANTS
  Tools = {"remember", "anchored", "oversize", "recall", "context"}
  MaxCalls = 3
  MaxFaults = 2
  MaxIdles = 1
  Memories = {1, 2}
  Versions = {1}
  MaxChanges = 3
  MaxStable = 2
  OldDaemons = TRUE
SPECIFICATION FairSpec
CHECK_DEADLOCK FALSE
INVARIANTS WrittenAtMostOnce ReadsOutliveIdleClose StaleContextDisclosed
PROPERTIES EveryToolCallAnswered
