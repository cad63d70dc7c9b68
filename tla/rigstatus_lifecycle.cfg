SPECIFICATION FairSpec
CONSTANTS
    Rigs = {r1, r2}
    Workers = {w1}
    StaleAfter = 1
    OfflineAfter = 2
    CronPeriod = 1
    AgeCap = 4
    MaxFaults = 1
PROPERTIES SilentGoesOffline
INVARIANT TypeOK
INVARIANT StatusIsRecent
INVARIANT SweepMissesNoRig
INVARIANT EventsExplainStatus
PROPERTY EventLogUnbroken
