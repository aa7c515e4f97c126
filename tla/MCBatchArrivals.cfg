SPECIFICATION Spec
CONSTANTS
    s1 = s1
    s2 = s2
    x = x
    v = v
    w = w
    Stop = {s1, s2, x}
    BadStop = {x}
    Service = {v, w}
    DayHours = 3
    HourMinutes = 2
    MinuteTicks = 3
    Ttl = 2
    LastGoodTtl = 4
    Timeout = 1
    NoTime = NoTime
    NoBus = NoBus
    NoPayload = NoPayload
    Batches <- MCBatches
    Boards <- MCBoards
    Tables <- MCTables
    Starts <- MCStarts
    Duration = 4
    MaxBatches = 1
INVARIANTS
    EveryItemAnswered
    MinutesAreNear
    NightBusesRun
CHECK_DEADLOCK FALSE
