CONSTANTS
    a1 = a1
    a2 = a2
    p1 = p1
    p2 = p2
    p3 = p3
    g = g
    pg1 = pg1
    pg2 = pg2
    pg3 = pg3
    NoPg = NoPg
    NULL = NULL
    NoObj = NoObj
    VAddrs <- MC_VAddrs
    PObjs <- MC_PObjs
    Globals <- MC_Globals
    PtrPgs <- MC_PtrPgs
    NumFields = 1
    MaxCp = 2
    MaxOps = 6
SPECIFICATION Spec
INVARIANTS TypeOK PtrPagesOwned
PROPERTIES PromotedOnlyIfReachable
