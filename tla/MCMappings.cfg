SPECIFICATION Spec
CONSTANTS
    Size = 4
    Ratio = 2
    MaxBuilds = 3
INVARIANT ReadsWhatWasWritten
PROPERTY SnapshotGetsHeader
CHECK_DEADLOCK FALSE
