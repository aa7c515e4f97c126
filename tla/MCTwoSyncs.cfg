SPECIFICATION Spec
CONSTANTS
    Edition = {1, 2}
    Data <- SameStops
    StopOf <- MCStopOf
    Syncer = {p1, p2}
    Client = {c1}
    Batch = 1
    Reverts = FALSE
    MaxFailures = 0
    MaxVersions = 3
    NoState = NoState
INVARIANT
    VersionNamesRows
