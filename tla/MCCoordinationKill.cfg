SPECIFICATION FairSpec
CONSTANTS
    c1 = c1
    c2 = c2
    c3 = c3
    l1 = l1
    l2 = l2
    NoCtx = NoCtx
    External = External
    Ctx <- MCCtx
    Lock <- OneLock
    Coord <- OneLockCoord
    Cont = {}
    ArgLists <- OneLockArgs
    DirectYieldBudget = 1
PROPERTIES
    KilledWaiterReturns
CHECK_DEADLOCK FALSE
