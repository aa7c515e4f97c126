SPECIFICATION Spec
CONSTANTS
    Req = {r1, r2}
    User = {u1}
    GroupId = {g1, g2}
    ItemId = {i1, i2}
    Stop = {s1}
    Service = {v1}
    official = official
    EmptyName = official
    Name = {official}
    Order = {0}
    NoValue = NoValue
    NoHome = NoHome
    Description <- MCDescription
    Kinds = {"create_favorite", "get_home"}
    Registered = {u1}
    OnePerUser = FALSE
    CacheFaults = FALSE
    Crashes = FALSE
INVARIANT
    HomeFreshAtRest
