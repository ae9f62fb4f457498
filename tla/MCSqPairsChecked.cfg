\* The build with SQ_PAIRS_CHECK_IF_KEY_EXIST.
CONSTANTS
    Key <- MCKey
    Pair <- MCPair
    KeyOf <- MCKeyOf
    CompareFunc <- MCCompareFunc
    CheckIfKeyExist = TRUE
    NoPair = NoPair
    InitCapacity = 0
SPECIFICATION FairSpec
INVARIANTS
    FitsCapacity
    MissIsInsertingIndex
PROPERTIES
    HalvesWindow
    CallsReturn
    ImplementsMap
