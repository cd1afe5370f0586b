SPECIFICATION Spec
CONSTANTS
    Ids = {1, 2, 3}
    Contradicts <- MCContradicts
    Quarantined = {3}
    People = {p}
    ConfMax = 2
    LowBound = 2
    DemoteStep = 1
    Limit = 4
    MaxEvents = 3
CHECK_DEADLOCK FALSE
INVARIANTS MergesAreWhole
PROPERTIES UnattendedSparesCurated 
