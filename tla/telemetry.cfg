CONSTANTS
    None = None
    NoGpu = NoGpu
    Beats <- MCBeats
    MinOutlierSamples = 3
    Window = 8
    MaxGap = 2
    Threshold = 85
    Busy = 5
    Gaps = {1, 3}
    MaxSamples = 4
    MaxBoots = 1
    Bucket <- MCBucket
    Age <- MCAge
    Values = {0, 5}
    MaxTime = 12
    MaxReadings = 3
    MaxRuns = 3
    MaxWatts = 1000
    TopLimit = 3
    Lines = 2
    ErrorWindow = 2
    Machines <- MCMachines
    Shown = 2
    MaxBeats = 3
    MaxChanges = 2
    MaxLines = 3
SPECIFICATION MCSpec
INVARIANTS StatisticsAreRight  ChartsKeepTheReadings PayloadIsOfTheRig PagesShowTheRig
PROPERTIES TotalsOnlyGrow
CHECK_DEADLOCK FALSE
