CONSTANTS
    Table = {"t"}
    Alias = {"x"}
    Columns <- MCColumns
    Condition <- MCCondition
    Joins <- MCJoins
    NoTable = ""
    MaxCalls = 5
    MaxMixed = 3
    Topics <- MCTopics
    MaxScopes = 3
SPECIFICATION Spec
VIEW WithoutCalls
INVARIANTS
    SqlIsMeant
    SourcesAreFound
CHECK_DEADLOCK FALSE
