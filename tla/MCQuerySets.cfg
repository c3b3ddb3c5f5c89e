SPECIFICATION MCSpec
CONSTANTS
    a = a
    b = b
    x = x
    y = y
    owner = owner
    parts = parts
    page = page
    tags = tags
    notes = notes
    Relation = {owner, parts, page, tags, notes}
    Of <- MCOf
    Kind <- MCKind
    Nullable = {owner, page}
    None = None
    QS = {a, b}
    Array = {1, 2, 3, 4}
    Conditions = {{1, 3}, {2, 3}}
    Selections <- MCSelections
    Limits = {1}
    Keys = {1, 2, 3, 4}
    Object = {x, y}
    Val = {0, 1, 2, 3}
    Passes <- MCPasses
    DefaultLimit = 5
    GetLimit = 3
    MaxEvents = 3
INVARIANTS TypeOK ConditionsAreOwn CacheIsAsked RootsAreExact RowsAreExact GetIsOnly CountsMatch RowsOK
PROPERTIES DeletesOnlyMatching WritesAreWhole UpdatesOnlyMatching UpdatesAreStored CreatesAreStored ObjectsAreWhole
CHECK_DEADLOCK FALSE
