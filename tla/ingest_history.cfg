CONSTANTS
    Workers = {w1, w2}
    Contents <- MixedContents
    MaxMinute = 3
    MaxAttempts = 2
    MaxIO = 0
    MaxFaults = 1
    HistCap = 3
    SeenCap = 2
    MaxPast = 2
    Overlap = FALSE
SPECIFICATION Spec
SYMMETRY WorkerSymmetry
INVARIANT StoredOnce
INVARIANT ContainersFromOnePayload
CHECK_DEADLOCK FALSE
