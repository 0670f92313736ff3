CONSTANTS
    NumEntries <- MC_NumEntries
    Offsets <- MC_Offsets
    BigIds <- MC_BigIds
SPECIFICATION Spec
INVARIANTS
    PackMatchesReference
