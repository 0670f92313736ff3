CONSTANTS
    NE <- MC_One
    NI <- MC_TwoSlots
    Capacity <- MC_One
    Sizes <- MC_Large
    Vals <- MC_NoVals
    MaxPages <- MC_MaxPages
SPECIFICATION Spec
INVARIANT FreePagesUnowned
