SPECIFICATION Spec
CONSTANTS
    Ascending <- MCAscending
    Foreign <- MCForeign
    Place <- MCPlace
    MaxKeys = 2
    Assignments <- MCTies
    Run = {"r1", "r2"}
    Ids = {"i1", "i2"}
    Tables <- MCTables
    MaxRows = 2
    DimCount = 2
    SampleCap = 3
    Keep = 1
CHECK_DEADLOCK FALSE
INVARIANT ConsistentMeansEqual
