SPECIFICATION FairSpec
CONSTANTS
    Capacity = 2
    MaxLogs = 6
    MaxRuns = 2
INVARIANTS
    EntriesAreKept
    NoSilentGap
PROPERTIES
    DropsAreReported
CHECK_DEADLOCK FALSE
