\* Names are reused freely.
CONSTANTS
    a = a
    b = b
    c = c
    Name <- MCName
    NoName = NoName
    MaxVersion = 4
SYMMETRY MCSymmetry
SPECIFICATION Spec
INVARIANTS
    SchemaIsMeant
    TraceIsUnambiguous
    ReferencesFollow
    PendingIsRecorded
