CONSTANTS
    Releases <- MCReleases
    MaxMajor = 1
    MaxFaults = 3
SPECIFICATION Spec
INVARIANTS TypeOK RollbackKept StillRuns
PROPERTIES Promised CatchesUp
CHECK_DEADLOCK FALSE
