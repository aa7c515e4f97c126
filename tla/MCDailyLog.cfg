SPECIFICATION Spec
CONSTANTS
    MaxBytes = 8
    TrimmedBytes = 5
    KeepDays = 2
    RecentLimit = 2
    LastDay = 4
    MaxLines = 4
    MaxFailures = 1
INVARIANTS
    KeepsNewestLines
    RemovedInTime
    SummaryIsOfToday
CHECK_DEADLOCK FALSE
