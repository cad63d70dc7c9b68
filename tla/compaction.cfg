CONSTANTS
    Children = 1
    Bucket2 = 4
    Bucket3 = 8
    Tier1 = 2
    Tier2 = 6
    Tier3 = 16
    Period = 5
    BatchSize = 2
    MaxTime = 20
    MaxRun = 2
    MaxReports = 4
    MaxFaults = 1
SPECIFICATION Spec
INVARIANTS TypeOK NeverRefused StoredExactly MergedByAge
PROPERTY MergingUnseen
CHECK_DEADLOCK FALSE
