\* Addresses that an int can tell apart; callers that replace safely; an
\* array that has to grow.
CONSTANTS
    Object = {1, 2, 3, 4}
    Hub = {2, 4}
    Reentry = 2
    Unsynced = 4
    IntMax = 7
    InitCapacity = 3
    MaxCells = 6
    MaxAdds = 3
    OnlySafeReplace = TRUE
SPECIFICATION Spec
INVARIANTS
    CellsOwnedOnce
    NodesAreFound
PROPERTIES
    ImplementsGraph
