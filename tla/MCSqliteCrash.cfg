\* Names are never reused; the program may crash anywhere, is started again,
\* and must get there in the end.
CONSTANTS
    a = a
    b = b
    c = c
    Name <- MCThree
    NoName = NoName
    MaxVersion = 3
    MaxFaults = 2
    MaxRefused = 1
    FreshNames = TRUE
    RerunFirst = TRUE
    WholeRelease = TRUE
SPECIFICATION FairSqliteSpec
INVARIANTS
    SyncIsFaithful
    AllOrNothing
PROPERTIES
    NoRowsLost
    ReleasesArrive
    ImplementsSchemaMigration
