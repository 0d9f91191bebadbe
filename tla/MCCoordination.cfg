SPECIFICATION Spec
CONSTANTS
    c1 = c1
    c2 = c2
    c3 = c3
    l1 = l1
    l2 = l2
    NoCtx = NoCtx
    External = External
    Ctx <- MCCtx
    Lock <- MCLock
    Coord <- MCCoord
    Cont = {}
    ArgLists <- MCArgLists
    DirectYieldBudget = 1
SYMMETRY Contexts
INVARIANTS
    TypeOK
    ListsAgree
    NoStranded
    HeldIffOwned
    ExactlyOneTaken
    IInv
CHECK_DEADLOCK FALSE
