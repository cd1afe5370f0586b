SPECIFICATION Spec
CONSTANTS
    Observations = {o1, o2}
    Shaped = {}
    Cap = 2
    SectionLimit = 1
    Evidence <- MCEvidence
    NoSubject = NoSubject
    MaxFacts = 3
    MaxNotes = 4
    EarlyNotes = 1
    Memories = {1}
    Fingerprints = {1}
    MaxStable = 1
SYMMETRY Symmetry
CHECK_DEADLOCK FALSE
INVARIANTS ObservationsKept CleanFoldCovers OneLiveSummary CorrectionsRetired PreviewsTracked
