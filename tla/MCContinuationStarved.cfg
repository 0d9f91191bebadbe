SPECIFICATION FairSpec
CONSTANTS
    c1 = c1
    c2 = c2
    c3 = c3
    k1 = k1
    NoCtx = NoCtx
    Gate = Gate
    Ctx <- PairCtx
    Cont <- MCCont
    Coord <- PairCoord
    Order <- PairOrder
    Submitted = {}
    DirectYieldBudget = 2
    BatchSize = 2
    IoPresentLimit = 1
    GovernorStride = 2
    DeferMinPendingOps = 1
    DrainBudget = 2
    DrainPeekStride = 1
    Bodies = {"done"}
PROPERTIES
    ContinuationFires
CHECK_DEADLOCK FALSE
