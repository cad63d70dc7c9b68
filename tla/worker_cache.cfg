CONSTANTS
    LightTtl = 2
    SnapTtl = 2
    ReportTtl = 2
    ChartTtl = 3
    VersionTtl = 4
    MaxRequest = 1
    MaxWrites = 2
    MaxBumps = 2
SPECIFICATION Spec
INVARIANTS TypeOK BoundedStaleness OwnWritesSeen ChartsFollowCounter
