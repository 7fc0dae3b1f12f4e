CONSTANTS
    Table = {t, u}
    RowsPerPage = 1
    MaxPages = 2
    MaxID = 8
    MaxCrashes = 0
    MaxFaults = 0
SPECIFICATION Spec
INVARIANT
    ReturnsAllRows
