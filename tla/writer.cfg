CONSTANTS
  c1 = c1
  c2 = c2
  c3 = c3
  j1 = j1
  Flusher = Flusher
  Daemon = Daemon
  Connections = {c1}
  Jobs = {j1}
  Capacity = 1
  MaxFaults = 1
  MaxRecalls = 2
SPECIFICATION FairSpec
CHECK_DEADLOCK FALSE
INVARIANTS AnswerTellsTruth BumpsSurviveShutdown
PROPERTIES EveryCallAnswered NoZombie
