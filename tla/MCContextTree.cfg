SPECIFICATION DeepSpec
CONSTANTS
    c1 = c1
    c2 = c2
    c3 = c3
    c4 = c4
    NoCtx = NoCtx
    Ctx <- MCCtx4
    Coord <- MCCoord4
    Cont = {}
    DirectYieldBudget = 0
    WatchParents = TRUE
SYMMETRY Contexts4
INVARIANTS
    TypeOK
    ListsAgree
    NothingDangles
    NoStranded
    KilledBelow
    LastChildHeld
    SweepReachesAll
CHECK_DEADLOCK FALSE
