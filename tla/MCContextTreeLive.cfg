SPECIFICATION OnceSpec
CONSTANTS
    c1 = c1
    c2 = c2
    c3 = c3
    c4 = c4
    NoCtx = NoCtx
    Ctx <- MCCtx
    Coord <- MCCoord
    Cont = {}
    DirectYieldBudget = 1
    WatchParents = FALSE
PROPERTIES
    KilledExits
CHECK_DEADLOCK FALSE
