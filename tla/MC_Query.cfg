SPECIFICATION Spec
CONSTANTS
    ColumnNames <- MCColumnNames
    Rows <- MCRows
    Statements <- MCStatements
    Commands <- MCCommands
    MaxRows = 4
INVARIANTS
    ClassesExact
    
    WhereSelects
    Ordered
