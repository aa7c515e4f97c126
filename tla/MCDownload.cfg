SPECIFICATION MCSpec
CONSTANTS
    LastRev = 5
    TableRevs = {3}
    ColumnRevs = {2}
    DropRevs = {5}
    LastEdition = 2
    Attempts = 2
    MaxFaults = 1
    Search = {q1}
    User = {u1, u2}
    Nobody = Nobody
    Matching = {1}
    SearchTtl = 1
    NoEntry = NoEntry
    MaxRuns = 2
    NoFile = NoFile
INVARIANT DownloadVerifies
CHECK_DEADLOCK FALSE
