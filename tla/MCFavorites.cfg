SPECIFICATION Spec
CONSTANTS
    User = {u1}
    GroupId = {g1, g2}
    ItemId = {i1, i2, i3}
    Stop = {s1, s2}
    Service = {v1, v2}
    official = official
    EmptyName = empty
    Name = {official, empty}
    Order = {0, 1, 2}
    NoValue = NoValue
    NoHome = NoHome
    Description <- MCDescription
SYMMETRY Symmetry
INVARIANTS
    TypeOK
    ForeignKeys
    NoDuplicateFavorite
    OneStopPerCard
    HomeCacheCoherent
PROPERTIES
    CardsAreNeverEmptied
    NewFavoritesAreNotBefore
