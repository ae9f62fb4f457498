SPECIFICATION Spec
CONSTANTS
    Name = {a, b, c}
    NoName = NoName
    First = a
    MaxVersion = 5
INVARIANTS
    TableIsMeant
    
PROPERTIES
    SyncArrives
    RowsStay
CHECK_DEADLOCK FALSE
