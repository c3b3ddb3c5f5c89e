SPECIFICATION MCSpec
CONSTANTS
    a = a
    b = b
    t = t
    u = u
    None = None
    Source = {a, b}
    Target = {t, u}
    SourceKeys = {1, 2}
    Keys = {1, 2}
    DefaultLimit = 3
    GetLimit = 2
    Limits = {1}
    MaxDup = 2
    MaxEvents = 4
INVARIANTS
    TypeOK
    TargetsKnowTheirRows
    LinksAreStored
    CacheIsLinked
PROPERTIES
    SetIsExact
    ImplementsLinks
CHECK_DEADLOCK FALSE
