SPECIFICATION Spec
CONSTANTS
    Req = {r1, r2}
    Client = {c1}
    NoClient = NoClient
    Ip = {i1, i2}
    MaxRows = 3
    ClientLimit = 1
    IpLimit = 1
    LastDay = 2
    MaxFaults = 1
INVARIANTS
    DailyLimits
    StoredBeforeMailed
PROPERTY
    StatusIsSetOnce
    StatusIsFinal
CHECK_DEADLOCK FALSE
