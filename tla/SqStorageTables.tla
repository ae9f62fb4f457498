--------------------------- MODULE SqStorageTables ---------------------------
(***************************************************************************)
(* sq_storage_find_by_type(): SqStorage.tables is a copy of the schema's   *)
(* tables, sorted by their types' names.  It is made again when the schema *)
(* has another version than the copy.                                      *)
(***************************************************************************)
EXTENDS Naturals, FiniteSets

CONSTANTS
    Types,          \* types of tables, each of one table
    MaxVersion      \* bound on the schema's version

ASSUME VersionsAssumption == MaxVersion \in Nat \ {0} /\ IsFiniteSet(Types)

VARIABLES
    live,           \* types of the tables in SqStorage.schema
    version,        \* its version
    tables,         \* types in SqStorage.tables
    length,         \* SqStorage.tables.length
    tablesVersion,  \* SqStorage.tables_version
    found           \* the last search: the type and whether it was found

tablesVars == <<live, version, tables, length, tablesVersion, found>>

\* sq_storage_init().
TablesInit ==
    /\ live = {}
    /\ version = 1
    /\ tables = {}
    /\ length = 0
    /\ tablesVersion = 1
    /\ found = <<>>

\* sq_storage_migrate(): the schema gets or loses tables, and a new version.
Migrate ==
    /\ version < MaxVersion
    /\ version' = version + 1
    /\ live' \in SUBSET Types
    /\ found' = <<>>
    /\ UNCHANGED <<tables, length, tablesVersion>>

\* The slip: the copy is made again only when there are more tables.
RefreshTablesThatGrew ==
    IF Cardinality(live) <= length
    THEN UNCHANGED <<tables, length, tablesVersion>>
    ELSE /\ tablesVersion' = version
         /\ length' = Cardinality(live)
         /\ tables' = live

\* The schema's tables are copied over those the array has.  The array only
\* grows: when there are fewer tables than before, old entries stay behind
\* them, and sorting spreads them.
RefreshTables ==
    IF tablesVersion = version
    THEN UNCHANGED <<tables, length, tablesVersion>>
    ELSE LET count == Cardinality(live)
         IN /\ tablesVersion' = version
            /\ length' = IF count > length THEN count ELSE length
            /\ \E stale \in SUBSET tables :
                  /\ Cardinality(stale) <= length' - count
                  /\ tables' = live \cup stale

FindByType ==
    \E type \in Types :
        /\ RefreshTables
        /\ found' = <<type, type \in tables'>>
        /\ UNCHANGED <<live, version>>

TablesNext == Migrate \/ FindByType

TablesSpec == TablesInit /\ [][TablesNext]_tablesVars

-----------------------------------------------------------------------------
\* A table is found by its type if and only if the schema has it, as long as
\* the schema has not become smaller than the copy was: then the search may
\* return a table that was dropped, which is freed memory
\* (sq_storage_find_by_type()).
FoundIsLive ==
    [][ found' # <<>> =>
        /\ found'[1] \in live => found'[2]
        /\ length' = Cardinality(live) => (found'[2] => found'[1] \in live)
      ]_tablesVars
=============================================================================
