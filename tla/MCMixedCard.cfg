SPECIFICATION Spec
CONSTANTS
    Req = {r1, r2}
    User = {u1}
    GroupId = {g1, g2, g3}
    ItemId = {i1, i2}
    Stop = {s1, s2}
    Service = {v1}
    official = official
    EmptyName = official
    Name = {official}
    Order = {0}
    NoValue = NoValue
    NoHome = NoHome
    Description <- MCDescription
    Kinds = {"create_group", "create_favorite", "delete_group"}
    Registered = {u1}
    OnePerUser = FALSE
    CacheFaults = FALSE
    Crashes = FALSE
INVARIANT
    OneStopPerCard
