CONSTANTS
    v1 = v1
    v2 = v2
    Zero = Zero
    Vals <- MC_Vals
    MaxPages = 16
    NumEntries = 3
    MaxCp = 3
    MaxOps = 7
SPECIFICATION Spec
INVARIANTS TypeOK BucketMapped MapperConsistent
PROPERTY ImplementsHeap
