CONSTANTS
    NE <- MC_NE
    NI <- MC_NI
    Capacity <- MC_Capacity
    Sizes <- MC_Large
    Vals <- MC_Vals
    MaxPages <- MC_MaxPages
SPECIFICATION Spec
INVARIANTS
    TypeOK
    FreePagesUnowned
    AllocFresh
    AllocationsStayLive

    
