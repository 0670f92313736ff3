CONSTANTS
    NE <- MC_NE
    NI <- MC_NI
    Capacity <- MC_Capacity
    Sizes <- MC_Sizes
    Vals <- MC_NoVals
    MaxPages <- MC_MaxPages
SPECIFICATION Spec
INVARIANT Durable
