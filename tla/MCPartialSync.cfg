SPECIFICATION Spec
CONSTANTS
    Edition = {1, 2}
    Data <- SameStops
    StopOf <- MCStopOf
    Syncer = {p1}
    Client = {c1}
    Batch = 1
    Reverts = FALSE
    MaxFailures = 1
    MaxVersions = 2
    NoState = NoState
INVARIANT
    VersionNamesRows
