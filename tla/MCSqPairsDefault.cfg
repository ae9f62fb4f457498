\* The default build: appends, and sorts lazily.
CONSTANTS
    Key <- MCKey
    Pair <- MCPair
    KeyOf <- MCKeyOf
    CompareFunc <- MCCompareFunc
    CheckIfKeyExist = FALSE
    NoPair = NoPair
    InitCapacity = 1
SPECIFICATION Spec
INVARIANTS
    InOrderForSearch
    HeldOnce
PROPERTIES
    ImplementsMap
