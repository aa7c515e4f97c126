SPECIFICATION MCSpec
CONSTANTS
    Device = {d1}
    Platform = {ios, unknown}
    Req = {r1, r2}
    FirstSeenTtl = 4
    SetTtl = 2
    RetentionDays = {1}
    LastDay = 5
    MaxTasks = 2
    None = None
    Member = {m1, m2}
    WeekDays = 2
    MonthDays = 3
    FirstDate = 1
    LastDate = 3
    Dates <- MCDates
SYMMETRY Symmetry
INVARIANTS
    CountedOnce
    CohortWasActive
    NewUsersAreCounted
    RowsCountDistinctUsers
    DetailAgreesWithColumns
PROPERTY
    RatesAreRates
CHECK_DEADLOCK FALSE
