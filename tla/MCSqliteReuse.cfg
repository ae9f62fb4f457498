\* Names are reused.
CONSTANTS
    a = a
    b = b
    c = c
    Name <- MCThree
    NoName = NoName
    MaxVersion = 4
    MaxFaults = 0
    MaxRefused = 0
    FreshNames = FALSE
    RerunFirst = TRUE
    WholeRelease = FALSE
SYMMETRY MCSymmetry
SPECIFICATION SqliteSpec
PROPERTIES
    SyncArrives
