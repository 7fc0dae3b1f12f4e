CONSTANTS
    Table = {t}
    RowsPerPage = 1
    MaxPages = 2
    MaxID = 7
    MaxCrashes = 1
    MaxFaults = 0
SPECIFICATION FairSpec
INVARIANTS
    StoreSound
    ReturnsAllRows
    SurvivesCrash
    RowsAccounted
PROPERTIES
    OpsReturn
