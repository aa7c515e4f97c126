SPECIFICATION Spec
CONSTANTS
    Req = {r1, r2}
    Attempts = 3
    Timeout = 1
    Pause = 1
    Ttl = 1
    LastGoodTtl = 3
    CacheFaults = TRUE
    DbFaults = TRUE
    NoEntry = NoEntry
PROPERTIES
    UnmarkedIsFresh
    OutageIsBridged
    EveryRequestEnds
