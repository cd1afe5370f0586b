CONSTANTS
  r1 = r1
  r2 = r2
  Readers = {r1, r2}
  Size = 1
  Recallers = {r1}
  Memories = {1, 2, 3}
  Corpora <- MCCorpora
  Filters = {"none", "tagged", "contested", "archived"}
  Modes = {"linear", "rrf"}
  Limit = 2
  Headroom = 1
  ContextLimit = 2
  MaxWrites = 1
SPECIFICATION FairRecall
CHECK_DEADLOCK FALSE
INVARIANTS PermitMeansStore RetiredNeverRecalled EvidenceReturned ContextIsOneState
PROPERTIES EveryRecallEnds
