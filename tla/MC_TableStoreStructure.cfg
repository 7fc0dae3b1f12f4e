CONSTANTS
    Table = {t, u}
    RowsPerPage = 1
    MaxPages = 2
    MaxID = 5
    MaxCrashes = 1
    MaxFaults = 1
SYMMETRY Symmetry
VIEW WithoutHistory
SPECIFICATION Spec
INVARIANTS
    ChainIncreases
    LastBelowCount
