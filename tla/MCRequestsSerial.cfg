SPECIFICATION Spec
CONSTANTS
    Req = {r1, r2}
    User = {u1, u2}
    GroupId = {g1, g2}
    ItemId = {i1, i2}
    Stop = {s1}
    Service = {v1, v2}
    official = official
    EmptyName = empty
    Name = {official, empty}
    Order = {0}
    NoValue = NoValue
    NoHome = NoHome
    Description <- MCDescription
    Kinds = {"create_favorite", "update_group", "delete_favorite", "delete_group", "upsert_alias", "delete_alias", "reorder_favorites"}
    Registered = {}
    OnePerUser = TRUE
    CacheFaults = FALSE
    Crashes = FALSE
SYMMETRY Symmetry
PROPERTIES
    ImplementsSerial
    OnlyOwnRequests
