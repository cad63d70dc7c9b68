CONSTANTS
    Workers = {w1, w2}
    Contents <- QuietContents
    MaxMinute = 2
    MaxAttempts = 2
    MaxIO = 2
    MaxFaults = 0
    HistCap = 2
    SeenCap = 1
    MaxPast = 2
    Overlap = FALSE
SPECIFICATION Spec
SYMMETRY WorkerSymmetry
PROPERTY DuplicateLeavesRowsAlone
CHECK_DEADLOCK FALSE
