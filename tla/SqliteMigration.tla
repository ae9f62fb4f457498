-------------------------- MODULE SqliteMigration --------------------------
(***************************************************************************)
(* Synchronizing the schema to an SQLite database (SqdbSqlite.c).  The     *)
(* migrations of a release are first included into the schema in memory    *)
(* (SchemaMigration), then sqdb_sqlite_migrate_sync() brings the database  *)
(* up to date: one transaction of statements, and after it the version in  *)
(* a statement of its own.                                                 *)
(*                                                                         *)
(* SQLite is external; it is modelled by what its statements do to the     *)
(* tables.  The program may crash at any step, and a statement may be      *)
(* refused.                                                                *)
(***************************************************************************)
EXTENDS SchemaMigration, FiniteSets

CONSTANTS
    MaxFaults,          \* a bound on crashes and on statements refused without
                        \* reason, and one on the latter alone
    MaxRefused,
    FreshNames,         \* does every new table and every renaming use a new name?
    WholeRelease,       \* does the program synchronize whole releases only?
    RerunFirst          \* is a release whose synchronization was cut short run
                        \* again before the next one is installed?

ASSUME BoundAssumption ==
    /\ MaxFaults \in Nat /\ MaxRefused \in Nat
    /\ FreshNames \in BOOLEAN /\ WholeRelease \in BOOLEAN
    /\ RerunFirst \in BOOLEAN

VARIABLES
    disk,           \* what is committed
    work,           \* what the open transaction sees
    userversion,    \* PRAGMA user_version, as committed
    pc,             \* where the program is
    node, tried,    \* how far the two loops of the synchronization have come
    has_error,
    code,           \* what the last synchronization returned
    interrupted, faults,
    refused         \* what the refused statements were about: the tables, or
                    \* the version

loops   == <<node, tried>>
bounds  == <<interrupted, faults, refused>>
program == <<latest, history, ideal>>
dbvars  == <<vars, disk, work, userversion, pc, loops, has_error, code, bounds>>

-----------------------------------------------------------------------------
(* SQLite: tables by name, and the text of the foreign key of each table.  *)

EmptyDatabase == [table |-> [n \in Name |-> NoTable], foreign |-> NoNames]

Succeeds(d) == [ok |-> TRUE, db |-> d]
Fails(d)    == [ok |-> FALSE, db |-> d]

DropTableIfExists(d, n) ==
    Succeeds([d EXCEPT !.table[n] = NoTable])

(* ALTER TABLE n RENAME TO m also rewrites the references to n.            *)
AlterTableRename(d, n, m) ==
    IF d.table[n] = NoTable \/ d.table[m] # NoTable THEN Fails(d)
    ELSE Succeeds(
        [table   |-> [d.table EXCEPT ![m] = d.table[n], ![n] = NoTable],
         foreign |-> [o \in Version |-> IF d.foreign[o] = n THEN m ELSE d.foreign[o]]])

CreateTable(d, o, n, f) ==
    IF d.table[n] # NoTable THEN Fails(d)
    ELSE Succeeds([d EXCEPT !.table[n] = o, !.foreign[o] = f])

TheVersion == 0

Refuse(o) ==
    /\ faults < MaxFaults /\ Cardinality(refused) < MaxRefused
    /\ faults' = faults + 1
    /\ refused' = refused \cup {o}

(* sqlite3_exec(): every statement overwrites has_error.                   *)
Exec(result, o) ==
    \/ /\ work' = result.db
       /\ has_error' = ~result.ok
       /\ UNCHANGED <<faults, refused>>
    \/ /\ Refuse(o)
       /\ has_error' = TRUE
       /\ UNCHANGED work

-----------------------------------------------------------------------------
SqliteInit ==
    /\ Init
    /\ disk = EmptyDatabase /\ work = EmptyDatabase
    /\ userversion = 0
    /\ pc = "down"
    /\ node = 1 /\ tried = {}
    /\ has_error = FALSE
    /\ code = "NONE"
    /\ interrupted = FALSE /\ faults = 0 /\ refused = {}

(* A release is installed while the program does not run.                  *)
NewNames ==
    history'[latest'].name \in Name =>
        \A v \in 1 .. latest : history[v].name # history'[latest'].name

Install ==
    /\ pc = "down"
    /\ ~(RerunFirst /\ interrupted)
    /\ Releases
    /\ FreshNames => NewNames
    /\ UNCHANGED <<schema, dbversion, disk, work, userversion, pc, loops,
                   has_error, code, bounds>>

(* sqdb_sqlite_open() reads the version.                                   *)
Open ==
    /\ pc = "down"
    /\ pc' = "idle"
    /\ dbversion' = userversion
    /\ UNCHANGED <<program, schema, disk, work, userversion, loops, has_error, code, bounds>>

(* sqdb_sqlite_migrate() with the next schema.                             *)
Migrate ==
    /\ pc = "idle"
    /\ Include
    /\ UNCHANGED <<disk, work, userversion, pc, loops, has_error, code, bounds>>

(* sqdb_sqlite_migrate() without one: sqdb_sqlite_migrate_sync().          *)
SyncRefused ==
    /\ pc = "idle"
    /\ dbversion > schema.version
    /\ code' = "CAN_NOT_SYNC"
    /\ UNCHANGED <<vars, disk, work, userversion, pc, loops, has_error, bounds>>

Completed == WholeRelease => schema.version = latest

SyncNotNeeded ==
    /\ pc = "idle"
    /\ Completed
    /\ dbversion = schema.version
    /\ code' = "OK"
    /\ UNCHANGED <<vars, disk, work, userversion, pc, loops, has_error, bounds>>

SyncBegin ==
    /\ pc = "idle"
    /\ Completed
    /\ BeginSync
    /\ work' = disk
    /\ has_error' = FALSE
    /\ code' = "NONE"
    /\ interrupted' = TRUE
    /\ pc' = "unsynced"
    /\ node' = 1 /\ tried' = {}
    /\ UNCHANGED <<disk, userversion, faults, refused>>

(* One unsynced table, the latest first: dropped, renamed, or left to the  *)
(* next loop.                                                              *)
InUnsynced ==
    /\ pc = "unsynced"
    /\ node <= Len(schema.unsynced)
    /\ node' = node + 1
    /\ UNCHANGED <<vars, disk, userversion, pc, tried, code, interrupted>>

(* A slip: whatever has an old name is dropped.                            *)
ExecDropRenamed ==
    /\ InUnsynced
    /\ LET o == schema.unsynced[node]
       IN  /\ schema.old[o] # NoName
           /\ Exec(DropTableIfExists(work, schema.old[o]), o)

ExecDrop ==
    /\ InUnsynced
    /\ LET o == schema.unsynced[node]
       IN  /\ schema.name[o] = NoName
           /\ Exec(DropTableIfExists(work, schema.old[o]), o)

ExecRename ==
    /\ InUnsynced
    /\ LET o == schema.unsynced[node]
       IN  /\ schema.name[o] # NoName /\ schema.old[o] # NoName
           /\ Exec(AlterTableRename(work, schema.old[o], schema.name[o]), o)

(* A slip: the loop continues without going on to the next node.           *)
SkipCreateAgain ==
    /\ pc = "unsynced"
    /\ node <= Len(schema.unsynced)
    /\ LET o == schema.unsynced[node]
       IN  schema.name[o] # NoName /\ schema.old[o] = NoName
    /\ UNCHANGED dbvars

SkipCreate ==
    /\ InUnsynced
    /\ LET o == schema.unsynced[node]
       IN  schema.name[o] # NoName /\ schema.old[o] = NoName
    /\ UNCHANGED <<work, has_error, faults, refused>>

(* The tables without SQB_TABLE_SQL_CREATED; their order does not matter.  *)
Missing == {o \in Entries(schema) : o \notin schema.created /\ o \notin tried}

CreatePhase ==
    \/ pc = "unsynced" /\ node > Len(schema.unsynced)
    \/ pc = "create"

ExecCreate ==
    /\ CreatePhase
    /\ \E o \in Missing :
          /\ Exec(CreateTable(work, o, schema.name[o], schema.foreign[o]), o)
          /\ tried' = tried \cup {o}
    /\ pc' = "create"
    /\ UNCHANGED <<vars, disk, userversion, node, code, interrupted>>

(* A slip: the records of what is now synchronized are kept.               *)
CommitKeepsRecords ==
    /\ CreatePhase
    /\ Missing = {}
    /\ disk' = work
    /\ schema' = EraseReentry(schema)
    /\ dbversion' = schema.version
    /\ has_error' = FALSE
    /\ pc' = "version"
    /\ UNCHANGED <<program, work, userversion, loops, code, bounds>>

(* COMMIT; from here on the schema counts as synchronized.                 *)
Commit ==
    /\ CreatePhase
    /\ Missing = {}
    /\ disk' = work
    /\ schema' = EraseRecords(schema)
    /\ dbversion' = schema.version
    /\ has_error' = FALSE
    /\ pc' = "version"
    /\ UNCHANGED <<program, work, userversion, loops, code, bounds>>

SetUserVersion ==
    /\ pc = "version"
    /\ \/ /\ userversion' = dbversion
          /\ has_error' = FALSE
          /\ interrupted' = FALSE
          /\ UNCHANGED <<faults, refused>>
       \/ /\ Refuse(TheVersion)
          /\ has_error' = TRUE
          /\ UNCHANGED <<userversion, interrupted>>
    /\ code' = IF has_error' THEN "EXEC_ERROR" ELSE "OK"
    /\ pc' = "idle"
    /\ UNCHANGED <<vars, disk, work, loops>>

(* A slip: without a transaction, what was executed stays.                 *)
DownHalfway ==
    /\ schema' = EmptySchema
    /\ dbversion' = userversion
    /\ work' = work /\ disk' = work
    /\ pc' = "down"
    /\ node' = 1 /\ tried' = {}
    /\ has_error' = FALSE
    /\ code' = "NONE"
    /\ UNCHANGED <<program, userversion, interrupted, refused>>

(* The program ends; what it had not committed is gone.                    *)
Down ==
    /\ schema' = EmptySchema
    /\ dbversion' = userversion
    /\ work' = disk
    /\ pc' = "down"
    /\ node' = 1 /\ tried' = {}
    /\ has_error' = FALSE
    /\ code' = "NONE"
    /\ UNCHANGED <<program, disk, userversion, interrupted, refused>>

Crash ==
    /\ pc # "down"
    /\ faults < MaxFaults
    /\ faults' = faults + 1
    /\ Down

Exit ==
    /\ pc = "idle"
    /\ dbversion = latest /\ schema.version = latest
    /\ Down
    /\ UNCHANGED faults

-----------------------------------------------------------------------------
Statement ==
    \/ ExecDrop \/ ExecRename \/ SkipCreate \/ ExecCreate \/ Commit \/ SetUserVersion

SqliteNext ==
    \/ Install \/ Open \/ Migrate
    \/ SyncRefused \/ SyncNotNeeded \/ SyncBegin
    \/ Statement
    \/ Crash \/ Exit

SqliteSpec == SqliteInit /\ [][SqliteNext]_dbvars

(* The program is started again after it ended, it includes every          *)
(* migration it was released with, calls for a synchronization at the end, *)
(* and a call once entered runs on.                                        *)
FairSqliteSpec ==
    /\ SqliteSpec
    /\ WF_dbvars(Open)
    /\ WF_dbvars(Migrate)
    /\ WF_dbvars(SyncBegin)
    /\ WF_dbvars(Statement)

-----------------------------------------------------------------------------
(* Properties.                                                             *)

SqliteTypeOK ==
    /\ TypeOK
    /\ \A d \in {disk, work} :
          d \in [table : [Name -> 0 .. MaxVersion], foreign : [Version -> Name \cup {NoName}]]
    /\ userversion \in 0 .. MaxVersion
    /\ pc \in {"down", "idle", "unsynced", "create", "version"}
    /\ node \in 1 .. Len(schema.unsynced) + 1 \/ pc \notin {"unsynced", "create"}
    /\ tried \subseteq Version
    /\ has_error \in BOOLEAN
    /\ code \in {"NONE", "OK", "EXEC_ERROR", "CAN_NOT_SYNC"}
    /\ interrupted \in BOOLEAN /\ faults \in 0 .. MaxFaults
    /\ refused \subseteq Version \cup {TheVersion}

(* The tables that no refused statement was about are in the database as   *)
(* version v means them, and their foreign keys name the tables they were  *)
(* declared against.                                                       *)
MatchesBut(d, v, os) ==
    /\ \A o \in Version \ os, n \in Name : d.table[n] = o <=> ideal[v][n] = o
    /\ \A o \in Range(ideal[v]) \ ({NoTable} \cup os), n \in Name :
          ideal[v][n] # NoTable /\ ideal[v][n] = Target(o) /\ Target(o) \notin os
              => d.foreign[o] = n

Matches(d, v) == MatchesBut(d, v, {})

(* A synchronization that returns SQCODE_OK has synchronized: the database *)
(* is what the migrations mean, table by table, and its version says so    *)
(* (doc/Sqdb.md, "Migrate").  When statements were refused on the way,     *)
(* SQCODE_OK is returned all the same; then it is the tables they were     *)
(* about that differ, and no others.                                       *)
SyncIsFaithful ==
    /\ SqliteTypeOK
    /\ code = "OK" =>
        /\ MatchesBut(disk, dbversion, refused)
        /\ userversion = dbversion \/ TheVersion \in refused

(* In particular, the call that runs the statements through to the last    *)
(* and returns SQCODE_OK leaves the tables that its version means.         *)
SyncArrives ==
    [][pc = "version" /\ code' = "OK" => Matches(disk', dbversion')]_dbvars

(* If nothing is refused, nobody ever opens a database that a crash left   *)
(* between two versions.                                                   *)
AllOrNothing == refused = {} => \E v \in 0 .. latest : Matches(disk, v)

IsStored(o) == \E n \in Name : disk.table[n] = o

(* A table with its rows leaves the database only when a migration that    *)
(* was run dropped it.                                                     *)
NoRowsLost ==
    [][\A o \in Version :
          IsStored(o) /\ ~IsStored(o)' =>
              \A n \in Name : ideal[schema.version][n] # o]_dbvars

(* Every release reaches the database, however often the program crashes   *)
(* on the way and whatever is refused, except the statement that stores    *)
(* the version: then SQCODE_EXEC_ERROR is all that tells of it, and the    *)
(* same program does not try again.                                        *)
ReleasesArrive ==
    []<>(userversion = latest \/ TheVersion \in refused)

(* The schema migrates as SchemaMigration says it may.                     *)
ImplementsSchemaMigration == Spec
=============================================================================
