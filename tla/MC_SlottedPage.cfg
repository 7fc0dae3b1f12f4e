CONSTANTS
    WordMod = 32
    MaxContent = 20
    Reserve = 4
    RowSizes = {1, 3, 5, 17, 31}
    UpdateSizes = {2, 4, 18}
SPECIFICATION PageSpec
INVARIANTS
    PageSound
    RowsIntact
    FragmentedIsDeleted
CHECK_DEADLOCK FALSE
