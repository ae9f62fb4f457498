\* Three objects that come and go, and two hubs.
CONSTANTS
    a = a
    b = b
    c = c
    Reentry = Reentry
    Unsynced = Unsynced
    Object <- MCObject
    Hub <- MCHub
    NoObject = NoObject
    MaxRelated = 3
SYMMETRY MCSymmetry
SPECIFICATION Spec
INVARIANTS
    Mutual
    FreedIsForgotten
