SPECIFICATION Spec
CONSTANTS
    Edition = {1, 2}
    Data <- NewStops
    StopOf <- MCStopOf
    Syncer = {p1}
    Client = {c1}
    Batch = 1
    Reverts = TRUE
    MaxFailures = 1
    MaxVersions = 2
    NoState = NoState
INVARIANTS
    CompleteSyncsAgree
    CurrentAppsAgree
PROPERTIES
    TablesCatchUp
    AppsCatchUp
