CONSTANTS
    Product = {"MYSQL", "POSTGRE"}
    Table = {users, posts}
    Column = {id, at}
    NoName = NoName
    First = id
    MaxVersion = 3
    MaxChanges = 3
    MaxFaults = 2
SPECIFICATION FairSpec
INVARIANTS
    
    RefusalsHaveCauses
PROPERTY VersionArrives
