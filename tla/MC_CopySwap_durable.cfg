CONSTANTS
    v1 = v1
    v2 = v2
    Zero = Zero
    Vals <- MC_Vals
    MaxPages = 16
    NumEntries = 2
    MaxCp = 2
    MaxOps = 5
SPECIFICATION Spec
INVARIANT SnapshotDurable
