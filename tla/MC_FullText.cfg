SPECIFICATION Spec
CONSTANTS
    Table = {"t1", "t2"}
    Legacy = {"t1"}
    Text <- const_Text
    Option <- const_Option
    IndexName = {"n1"}
    Level = {0, 2}
    MaxHits = 1
    MaxID = 2
    MaxRestarts = 1
    MaxStatements = 4
    NoRow = NoRow
    NoIndex = NoIndex
    NoFile = NoFile
    Torn = Torn
INVARIANTS
    IndexesSound
    
    
PROPERTIES
    ImplementsSearchIndex
CHECK_DEADLOCK FALSE
