CONSTANTS
    Window = 6
    Period = 6
    Spread = 5
    IngestRate = 2
    Limit <- MCLimit
    Attempts = 3
    MaxEvictions = 1
    Workers = {w1, w2}
    Emails = {e1, e2}
    Tags = {t1}
    Keys = {k1, k2}
    MaxRequests = 3
    Jitters = {0, 25}
    AlarmAfter = 30
    Tries = 3
    Delays <- MCDelays
    RunMinutes = 2
    MaxFaults = 3
SPECIFICATION MCSpec
INVARIANTS TypeOK   FaultsAreContained RunsTakeTurns
CHECK_DEADLOCK FALSE
