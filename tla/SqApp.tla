------------------------------- MODULE SqApp -------------------------------
(***************************************************************************)
(* Running and rolling back the migrations of an application (SqApp.c,     *)
(* SqMigration.c, and the commands of SqAppCommands-migrate.c), with an    *)
(* SQLite database.                                                        *)
(*                                                                         *)
(* A database says in two places how far it was migrated: user_version,    *)
(* and the rows of the table "migrations", which also tell the batches     *)
(* that migrations were run in.  A third thing is which tables it has.     *)
(* The three are written one after another, each on its own.               *)
(*                                                                         *)
(* Here every migration creates one table, which is named like it, and its *)
(* reverse drops it.  SqliteMigration has the single statements of a       *)
(* synchronization; here it is two steps, COMMIT and the version.          *)
(***************************************************************************)
EXTENDS Integers, FiniteSets, FiniteSetsExt

CONSTANTS
    MaxVersion,         \* the last migration of the last release
    MaybeDeleted,       \* what may be deleted from the array of migrations
    Step,               \* the values of the option --step
    MaxCommands,        \* a bound on the commands that are run
    MaxCrashes,         \* a bound on the crashes
    CrashIn             \* the commands that they happen in

Id == 1 .. MaxVersion

ASSUME AppAssumption ==
    /\ MaxVersion \in Nat \ {0}
    /\ MaybeDeleted \subseteq SUBSET Id
    /\ Step \subseteq Nat
    /\ MaxCommands \in Nat /\ MaxCrashes \in Nat
    /\ CrashIn \subseteq {"migrate", "rollback"}

VARIABLES
    n_migrations,       \* the length of the array; element 0 is not used
    deleted,            \* the elements that are NULL
    userversion,        \* the database: its version,
    stored,             \* its tables,
    rows,               \* and the batch of each row of "migrations", 0 if none
    dbversion,          \* db->version
    schema,             \* storage->schema
    pc, op,             \* where the program is, and in which command
    cur, last,          \* the next migration, and how far the loop goes
    batch,              \* what the rows to insert will say
    changed,            \* schema_changed
    code,               \* what the last command returned
    runs, ran,          \* how often migrations were run; when each was
    before,             \* the tables before the last batch is rolled back
    interrupted, commands, crashes

release  == <<n_migrations, deleted>>
database == <<userversion, stored, rows>>
memory   == <<dbversion, schema>>
loop     == <<op, cur, last, batch, changed>>
ghosts   == <<runs, ran, before, interrupted, commands, crashes>>
vars     == <<release, database, memory, pc, loop, code, ghosts>>

-----------------------------------------------------------------------------
(* The table "migrations".                                                 *)

Recorded == {i \in Id : rows[i] # 0}

(* sq_migration_get_last(): -1 and batch 0 if there is no row.             *)
LastId    == IF Recorded = {} THEN -1 ELSE Max(Recorded)
LastBatch == IF Recorded = {} THEN 0 ELSE rows[LastId]

(* A slip: the batch of the last row is used again.                        *)
SameBatch == Max({1, LastBatch})

(* What sq_app_migrate() passes to sq_migration_insert().                  *)
NextBatch == LastBatch + 1

(* sq_migration_count_batch()                                              *)
CountBatch(b) == Cardinality({i \in Recorded : rows[i] = b})

(* A slip: INSERT OR REPLACE.                                              *)
Replaced(i, b) == [rows EXCEPT ![i] = b]

(* sq_migration_insert(): the id is the primary key, so that a row that is *)
(* there already stays as it is; nobody looks at the error.                *)
Inserted(i, b) == IF rows[i] = 0 THEN [rows EXCEPT ![i] = b] ELSE rows

(* A slip: WHERE id > begin.                                               *)
RemovedAfter(begin) == [i \in Id |-> IF i > begin THEN 0 ELSE rows[i]]

(* sq_migration_remove()                                                   *)
Removed(begin) == [i \in Id |-> IF i >= begin THEN 0 ELSE rows[i]]

-----------------------------------------------------------------------------
(* The schema in memory: its version, its tables, those of them that the   *)
(* database is known to have, and those to be dropped from it.             *)

EmptySchema == [version |-> 0, tables |-> {}, created |-> {}, dropped |-> {}]

(* up() and sqdb_sqlite_migrate()                                          *)
Up(s, i) == [s EXCEPT !.version = i, !.tables = @ \cup {i}]

(* down() and sqdb_sqlite_migrate(): a table that was never synchronized   *)
(* leaves nothing to be executed (SqRelation-migration.c:538).             *)
Down(s, i) ==
    [version |-> i - 1,
     tables  |-> s.tables \ {i},
     created |-> s.created \ {i},
     dropped |-> s.dropped \cup (s.created \cap {i})]

(* sq_schema_erase_records(schema, '=')                                    *)
Synchronized(s) == [s EXCEPT !.created = s.tables, !.dropped = {}]

Live(v) == {i \in Id : i <= v} \ deleted

(* sq_app_make_schema() up to version v.  Only when the migration of that  *)
(* very version is included does the schema count as synchronized.         *)
Made(v) ==
    LET s == [EmptySchema EXCEPT !.version = Max({0} \cup Live(v)), !.tables = Live(v)]
    IN  IF s.version = v THEN Synchronized(s) ELSE s

-----------------------------------------------------------------------------
Init ==
    /\ n_migrations \in 1 .. MaxVersion + 1
    /\ deleted \in MaybeDeleted
    /\ userversion = 0 /\ stored = {} /\ rows = [i \in Id |-> 0]
    /\ dbversion = 0 /\ schema = EmptySchema
    /\ pc = "down" /\ op = "none"
    /\ cur = 0 /\ last = 0 /\ batch = 0 /\ changed = FALSE
    /\ code = "OK"
    /\ runs = 0 /\ ran = [i \in Id |-> 0]
    /\ before = {}
    /\ interrupted = "none" /\ commands = 0 /\ crashes = 0

(* Another release, newer or older, takes the place of this one.  After a  *)
(* crash the command is given again first.                                 *)
Install ==
    /\ pc = "down" /\ interrupted = "none"
    /\ \E n \in 1 .. MaxVersion + 1 : n # n_migrations /\ n_migrations' = n
    /\ UNCHANGED <<deleted, database, memory, pc, loop, code, ghosts>>

(* sq_app_open_database()                                                  *)
Open ==
    /\ pc = "down" /\ commands < MaxCommands
    /\ pc' = "opened"
    /\ dbversion' = userversion
    /\ UNCHANGED <<release, database, schema, loop, code, ghosts>>

(* sq_app_make_schema(app, 0), which every command calls first.  What it   *)
(* returns is not looked at.  Its call to synchronize has no effect: the   *)
(* schema is never newer than the database here.                           *)
MakeSchema ==
    /\ pc = "opened"
    /\ pc' = "idle"
    /\ schema' = IF dbversion = 0 \/ dbversion >= n_migrations
                 THEN EmptySchema ELSE Made(dbversion)
    /\ UNCHANGED <<release, database, dbversion, loop, code, ghosts>>

-----------------------------------------------------------------------------
Command ==
    /\ pc = "idle" /\ commands < MaxCommands
    /\ commands' = commands + 1
    /\ changed' = FALSE
    /\ UNCHANGED <<release, database, memory, interrupted, crashes>>

(* These migrations are not for this database.                             *)
WrongMigrations ==
    /\ Command
    /\ dbversion >= n_migrations
    /\ code' = "WRONG_MIGRATIONS"
    /\ before' = {}
    /\ UNCHANGED <<pc, op, cur, last, batch, runs, ran>>

(* sq_app_migrate()                                                        *)
MigrateBegin(step) ==
    /\ Command
    /\ interrupted = "none" \/ (interrupted = "migrate" /\ step = 0)
    /\ dbversion < n_migrations
    /\ pc' = "running" /\ op' = "migrate"
    /\ batch' = NextBatch
    /\ cur' = dbversion + 1
    /\ last' = IF step > 0 THEN Min({dbversion + step + 1, n_migrations}) ELSE n_migrations
    /\ runs' = runs + 1
    /\ before' = {}
    /\ UNCHANGED <<code, ran>>

MigrateSkip ==
    /\ pc = "running" /\ op = "migrate"
    /\ cur < last /\ cur \in deleted
    /\ changed' = TRUE
    /\ cur' = cur + 1
    /\ UNCHANGED <<release, database, memory, pc, op, last, batch, code, ghosts>>

MigrateOne ==
    /\ pc = "running" /\ op = "migrate"
    /\ cur < last /\ cur \notin deleted
    /\ changed' = TRUE
    /\ schema' = Up(schema, cur)
    /\ rows' = Inserted(cur, batch)
    /\ ran' = [ran EXCEPT ![cur] = runs]
    /\ cur' = cur + 1
    /\ UNCHANGED <<release, userversion, stored, dbversion, pc, op, last, batch, code,
                   runs, before, interrupted, commands, crashes>>

(* sq_app_rollback().  That it compares the last id with 0 to see whether  *)
(* there are rows is of no effect: there is no row 0, and LastId is -1 if  *)
(* there is none.                                                          *)
RollbackBegin(step) ==
    /\ Command
    /\ interrupted \in {"none", "rollback"}
    /\ dbversion < n_migrations
    /\ pc' = "running" /\ op' = "rollback"
    /\ cur' = dbversion
    /\ last' = IF step = 0 THEN CountBatch(LastBatch) ELSE step
    /\ before' = IF step = 0 THEN stored ELSE {}
    /\ UNCHANGED <<batch, code, runs, ran>>

InRollback ==
    /\ pc = "running" /\ op = "rollback"
    /\ cur > 0 /\ last > 0
    /\ changed' = TRUE
    /\ last' = last - 1
    /\ cur' = cur - 1
    /\ UNCHANGED <<release, userversion, stored, pc, op, batch, code, ghosts>>

RollbackSkip ==
    /\ InRollback
    /\ cur \in deleted
    /\ UNCHANGED <<rows, memory>>

RollbackOne ==
    /\ InRollback
    /\ cur \notin deleted
    /\ schema' = Down(schema, cur)
    /\ dbversion' = cur - 2
    /\ rows' = Removed(cur)

-----------------------------------------------------------------------------
(* The end of both loops: sq_storage_migrate(storage, NULL).               *)
LoopDone ==
    /\ pc = "running"
    /\ IF op = "migrate" THEN cur >= last ELSE cur = 0 \/ last = 0

Return(c) ==
    /\ pc' = "idle" /\ op' = "none"
    /\ code' = c
    /\ interrupted' = "none"
    /\ UNCHANGED <<cur, last, batch, changed, runs, ran, before, commands, crashes>>

(* sq_app_rollback() returns SQCODE_OK whatever the synchronization does.  *)
NotSynchronized ==
    /\ LoopDone
    /\ ~changed \/ dbversion >= schema.version
    /\ Return(IF op = "migrate" /\ changed /\ dbversion > schema.version
              THEN "CAN_NOT_SYNC" ELSE "OK")
    /\ UNCHANGED <<release, database, memory>>

Commit ==
    /\ LoopDone
    /\ changed /\ dbversion < schema.version
    /\ stored' = (stored \ schema.dropped) \cup (schema.tables \ schema.created)
    /\ schema' = Synchronized(schema)
    /\ dbversion' = schema.version
    /\ pc' = "version"
    /\ UNCHANGED <<release, userversion, rows, loop, code, ghosts>>

SetUserVersion ==
    /\ pc = "version"
    /\ userversion' = dbversion
    /\ Return("OK")
    /\ UNCHANGED <<release, stored, rows, memory>>

Ended ==
    /\ pc' = "down" /\ op' = "none"
    /\ dbversion' = userversion
    /\ schema' = EmptySchema
    /\ before' = {}
    /\ UNCHANGED <<release, database, cur, last, batch, changed, code, runs, ran, commands>>

(* sq_app_close_database(), and the end of the program.                    *)
Close ==
    /\ pc = "idle"
    /\ Ended
    /\ UNCHANGED <<interrupted, crashes>>

Crash ==
    /\ op \in CrashIn
    /\ crashes < MaxCrashes /\ commands < MaxCommands
    /\ crashes' = crashes + 1
    /\ interrupted' = op
    /\ Ended

Next ==
    \/ Install \/ Open \/ MakeSchema \/ Close \/ Crash
    \/ WrongMigrations
    \/ \E step \in Step : MigrateBegin(step) \/ RollbackBegin(step)
    \/ MigrateSkip \/ MigrateOne
    \/ RollbackSkip \/ RollbackOne
    \/ NotSynchronized \/ Commit \/ SetUserVersion

Spec == Init /\ [][Next]_vars

-----------------------------------------------------------------------------
(* Properties.                                                             *)

TypeOK ==
    /\ n_migrations \in 1 .. MaxVersion + 1 /\ deleted \subseteq Id
    /\ userversion \in 0 .. MaxVersion /\ stored \subseteq Id /\ rows \in [Id -> Nat]
    /\ dbversion \in -1 .. MaxVersion
    /\ schema \in [version : 0 .. MaxVersion, tables : SUBSET Id,
                   created : SUBSET Id, dropped : SUBSET Id]
    /\ pc \in {"down", "opened", "idle", "running", "version"}
    /\ op \in {"none", "migrate", "rollback"}
    /\ cur \in 0 .. MaxVersion + 1 /\ last \in Nat /\ batch \in Nat /\ changed \in BOOLEAN
    /\ code \in {"OK", "WRONG_MIGRATIONS", "CAN_NOT_SYNC"}
    /\ runs \in Nat /\ ran \in [Id -> Nat] /\ before \subseteq Id
    /\ interrupted \in {"none", "migrate", "rollback"} /\ commands \in Nat /\ crashes \in Nat

Settled == op = "none" /\ interrupted = "none"

(* The schema in memory is that of the database, so that another command   *)
(* in the same process may follow (migrate:refresh).                       *)
SchemaIsCurrent ==
    pc = "idle" /\ dbversion < n_migrations =>
        /\ dbversion = userversion
        /\ schema.tables = stored /\ schema.dropped = {}

(* Between commands the table "migrations" has a row for exactly the       *)
(* migrations that the version covers, the database exactly their tables,  *)
(* and the schema what the database has, even if a crash separated them    *)
(* and the command was given again (sq_app_migrate(), sq_app_rollback()).  *)
DatabaseAgrees ==
    /\ TypeOK
    /\ Settled => /\ Recorded = Live(userversion) /\ stored = Live(userversion)
                  /\ SchemaIsCurrent

(* A later migration is never in an earlier batch: the last batch is at    *)
(* the top, where sq_app_rollback() counts it off.                         *)
BatchesInOrder == \A i, j \in Recorded : i < j => rows[i] <= rows[j]

(* What the last call of sq_app_migrate() that left any of these ran.      *)
LatestBatch(S) == {i \in S : \A j \in S : ran[j] <= ran[i]}

LastBatchRolledBack(done) ==
    op = "rollback" /\ op' = "none" /\ before # {} => done

(* A rollback without a number of steps rolls back the last batch          *)
(* (doc/SqApp.md: "sq_app_rollback() will roll back the last "batch" of    *)
(* migrations if 'step' is 0").  After a crash it may be a part of it, but *)
(* never a migration of an earlier batch, whose rows would be lost.        *)
RollbackUndoesBatch ==
    [][LastBatchRolledBack(
           /\ before \ stored' \subseteq LatestBatch(before)
           /\ crashes' = 0 => before \ stored' = LatestBatch(before))]_vars
=============================================================================
