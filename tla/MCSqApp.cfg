\* Four migrations, of which the first ones may have been deleted; five
\* commands, and two crashes in them.
CONSTANTS
    MaxVersion = 4
    MaybeDeleted <- MCFirstDeleted
    Step = {0, 1, 2}
    MaxCommands = 5
    MaxCrashes = 2
    CrashIn = {"migrate"}
SPECIFICATION Spec
INVARIANTS
    DatabaseAgrees
    BatchesInOrder
PROPERTIES
    RollbackUndoesBatch
