SPECIFICATION Spec
CONSTANTS
    Req = {r1, r2}
    User = {u1}
    GroupId = {g1, g2}
    ItemId = {i1, i2}
    Stop = {s1}
    Service = {v1}
    official = official
    EmptyName = official
    Name = {official}
    Order = {0}
    NoValue = NoValue
    NoHome = NoHome
    Description <- MCDescription
    Kinds = {"create_group", "create_favorite", "delete_group", "delete_favorite", "get_home"}
    Registered = {}
    OnePerUser = FALSE
    CacheFaults = TRUE
    Crashes = TRUE
PROPERTIES
    EveryRequestEnds
    HomeBecomesFresh
