SPECIFICATION InstallSpec
CONSTANTS
    Versions <- MCVersions
    Events <- MCEvents
    Fragment <- MCFragment
    AllowEntries <- MCAllowEntries
    UserAllows <- MCUserAllows
    MaxRuns = 3
    MaxFaults = 2
    MaxEdits = 2
CHECK_DEADLOCK FALSE
INVARIANTS UserContentKept ReportTellsTruth
PROPERTIES UserAssetKept
