CONSTANTS
    a = a
    b = b
    Name = {a, b}
    None = None
    MaxID = 5
    MaxKey = 2
    MaxWrites = 2
    MaxCrashes = 1
    MaxFaults = 1
SPECIFICATION Spec
SYMMETRY Symmetry
CONSTRAINT SomethingPromised
INVARIANTS
    RunningSound
    CatalogSurvives
    RowsSurvive
