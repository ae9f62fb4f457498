SPECIFICATION MCSpec
VIEW WithoutCall

CONSTANTS
    Ids <- MCIds
    Fields <- MCFields
    Primary = "id"
    Kind <- MCKind
    Contents <- MCContents
    Requests <- MCRequests
    Zero = "zero"
    Now = "now"
    NoRow <- MCNoRow
    NoCondition <- MCNoCondition
    InInput <- MCInInput
    Select <- MCSelect
    Types <- MCTypes
    MaxRefusals = 2
    MaxVersion = 4
    Type <- MCType
    Tables <- MCTables
    Instances <- MCInstances
    Unset = "0"
    Numbers = {"0", "1"}
    Null = Null
    NESTED_CHUNK_SIZE = 2
    MaxRows = 2

INVARIANTS
    RowsAreRead
    NestedIsLive

PROPERTIES
    UpdatesAreMeant
    
    InsertsAreWhole
    
