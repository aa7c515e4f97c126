SPECIFICATION Spec
CONSTANTS
    User = {u1}
    GroupId = {g1, g2}
    ItemId = {i1, i2}
    Stop = {s1}
    Service = {v1, v2}
    official = official
    EmptyName = empty
    Name = {official, empty, other}
    Order = {0, 1}
    NoValue = NoValue
    NoHome = NoHome
    Description <- MCDescription
PROPERTY
    NewFavoritesComeLast
