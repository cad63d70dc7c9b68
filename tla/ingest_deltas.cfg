CONSTANTS
    Workers = {w1, w2}
    Contents <- QuietContents
    MaxMinute = 3
    MaxAttempts = 2
    MaxIO = 3
    MaxFaults = 1
    HistCap = 2
    SeenCap = 1
    MaxPast = 2
    Overlap = FALSE
SPECIFICATION Spec
SYMMETRY WorkerSymmetry
INVARIANT TypeOK
INVARIANT DeltasAreRight
INVARIANT LatestIsNewest
CHECK_DEADLOCK FALSE
