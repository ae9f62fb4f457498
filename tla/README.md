# sqxclib in TLA+

sqxclib converts between C structures and SQL rows or JSON, and migrates the
schema of SQLite, MySQL and PostgreSQL databases. This directory holds TLA+
modules for the parts of it whose correctness depends on long sequences of
calls, on crashes, on refused statements, or on invariants that no single
function shows: the sorted arrays, the relation graph that migrations keep their
records in, the migration of tables and columns in memory, bringing the three
kinds of databases up to date, the commands of an application that run and roll
back migrations, the storage with its chains of converters, and the query
builder. Each is checked with TLC on small instances; the theorems are proved
with TLAPS for instances of any size.

All paths below are relative to `src/sqxc/` unless they begin with `src/`.

## The system

The library runs in one thread; nothing in it is concurrent. What makes it hard
is long-lived mutable structure: pointers kept across a reallocation, records
that outlive what they describe, flags that say "sorted" or "synchronized",
buffers that a refused statement leaves full, a stack that must follow a
document through a parser that looks at no results, and a database that survives
the process and that is updated in more than one transaction.

| Component | State | Operations | What makes it correct |
|---|---|---|---|
| SqArray, SqPairs (`SqArray.c`, `support/SqPairs.c`) | elements, length, capacity; the bits SORTED, FOUND, EXIST | add, get, erase, steal, final; binary search, insertion, removal | searches run on sorted data only; the index of a miss is where to insert; every pair has one owner |
| SqRelation (`SqRelation.c`) | array of nodes sorted by address, each with a list of cells from a pool | add, erase (three modes), replace, find, clear, remove_empty | a node that exists is found; reverse references are complete; no list leads to freed memory; the pool loses no cell |
| Schema migration (`SqRelation-migration.c`, `SqSchema.c`, `SqTable.c`) | tables and columns with name and old name; REENTRY and UNSYNCED records in an SqRelation | include a migration, trace names, erase records, complete | the schema is what the migrations mean; foreign keys follow renamed tables; pending changes are recorded exactly |
| SQLite synchronization (`SqdbSqlite.c`, `Sqdb.c`) | the schema, an open transaction, `user_version` | open, migrate, migrate_sync, close | SQCODE_OK means that the database is what the schema says; no rows are lost; crashes are repaired by the next start |
| MySQL, PostgreSQL (`SqdbMysql.c`, `SqdbPostgre.c`, `Sqdb-migration.c`) | the version, a connection, triggers and indexes named after columns | the same, one migration at a time, without a transaction | a failure damages only what it is about; the version is reached |
| Application (`app/SqApp.c`, `app/SqMigration.c`) | the list of migrations, the `migrations` table with ids and batches, the version | make_schema, migrate, rollback | rows and version agree; a rollback undoes the last batch |
| Sqxc (`Sqxc.c`, `SqxcValue.c`) | a chain of converters, a stack of nested objects per converter | send, broadcast, insert, steal, push/pop nested | pushes and pops pair up; the stack's blocks are freed once; data reach one converter |
| SqxcSql, SqStorage (`SqxcSql.c`, `SqStorage.c`) | buffers, mode, WHERE condition, selected columns | insert, update, get, remove | a call does not depend on what the one before it left behind; what was inserted is read back |
| JSON (`SqxcJsonc.c`, `SqxcCjson.c`) | parser state | read and write JSON through a chain | output nests as the input did |
| SqQuery, SqJoint (`SqQuery.c`, `SqJoint.c`) | a tree of clauses, a stack of scopes | build, print, find tables | the SQL says what the calls did, whatever their order |
| SqType, SqEntry, SqConvert | descriptions of C types | read, write, find entries | a structure is read back as it was written |
| SqBuffer, SqStrArray, SqPtrArray | growing buffers | alloc, write, insert | no write past the capacity |
| Console, tool (`support/SqConsole.c`, `app/SqAppTool.c`, ...) | commands and options, sorted on demand | add, find, parse, run | commands are found |

How they interact: an application gives SqApp its migrations; each fills an
SqSchema, which `sq_storage_migrate()` hands to the driver. The driver includes
it into the schema in memory (`sq_schema_include()`), which keeps its records in
an SqRelation owned by the schema, with a second one per table for its columns;
the cells of all of them come from one pool. At the end the driver is called
without a schema: SQLite then executes everything that is pending. The other
drivers execute each migration when they are given it. SqStorage makes SQL and
runs it with one of two chains of Sqxc elements: the output chain takes a
structure apart, its nested members through JSON, and SqxcSql writes the
statement; the input chain takes the rows of the driver, sends what is JSON
through its parser, and SqxcValue has the types parse it. SqQuery makes the SQL
of joins and finds the tables that their rows are parsed by.

The lines where this can go wrong in a way that a test would hardly reach are in
`PROJECT.json` under `hazards`, each with the properties that cover it or with
the reason why none does.

## The modules

| Modules | What they model |
|---|---|
| PairsMap, SqPairs, SqPairsProofs | SqPairs over the sorted array, and the map its callers see |
| RelationGraph, RelationGraphProofs; SqRelation, SqRelationProofs | the lists of related objects; nodes, cells and pool that implement them |
| SchemaMigration | tables in memory |
| SqliteMigration, SqliteMigrationProofs | SchemaMigration composed with the database and the driver; the proofs of both |
| TableMigration, TableMigrationProofs | columns, indexes and constraints of one table, in memory and to SQLite |
| ServerMigration, ServerMigrationProofs | the MySQL and PostgreSQL drivers |
| SqApp, SqAppProofs | the commands that run and roll back migrations |
| SqStorage, SqStorageProofs; SqStorageTables | the calls of a storage and what they leave in the output chain; the tables found by type |
| SqxcChain | the chains: rows of nested structures to SQL and JSON and back |
| SqQuery | the query builder |

A module `MCx` instantiates x for TLC and has one `.cfg` per run. Every module
has a type invariant or, where the proofs do not need one, shapes that its main
invariant implies; in the runs it is the first conjunct of an invariant
(`DatabaseAgrees`, `TableIsMeant`, `SyncIsFaithful`, `OthersAgree`) unless it is
proved. Definitions named "slip" in a comment are changes of the code that the
properties were tested against (`PROJECT.json`, `mutants`); no specification
uses them.

### PairsMap, SqPairs

`PairsMap` is what the caller of SqPairs sees: a multimap of pairs (a map, in the
build with `SQ_PAIRS_CHECK_IF_KEY_EXIST`), each pair owned by the caller, by the
map, or destroyed.

`SqPairs` is the code. `data`, `length` and `capacity` are the SqArray; `sorted`,
`found` and `exist` are the bits; `low`, `cur` and `high` are the locals of
`sq_array_find_sorted()`, whose loop is modelled one probe per step, in five
actions by outcome. A call is `AddUnchecked`, `AddChecked` or `Find` (get, erase,
steal), then the search, then one finishing action. `qsort()` is any
rearrangement of the elements that is in order, so nothing depends on how equal
keys fall. The comparison function is a constant of which only the sign matters,
and need only be an order (`CompareAssumption`). `sq_ptr_array_search()` and the
other users of the search differ in the element type only.

Fairness (`FairSpec`): a call that was entered runs on. It is a loop in C.

### RelationGraph, SqRelation

`RelationGraph` is what the migration code relies on: for every object the list
of objects it is related to, the latest first; the hubs REENTRY, UNSYNCED and
TRACING (small integers in the code, `SqRelation-migration.h`) that are never
freed; and which objects were freed. Freeing is part of it because the bugs it
guards against are lists that lead to freed tables.

`SqRelation` is the code: the array of nodes sorted by address, its capacity, the
linked cells of the pool with its list of freed cells and its counters. Addresses
are numbers, and `Compare` is the difference of two cut down to an `int` of
`IntMax`, which is what the cast of a pointer difference does (SqRelation.c:287);
the run has addresses that an `int` can tell apart, and with a smaller `IntMax`
TLC finds a node in the array that the search misses. `Find` is the search,
`Chain` the walk along the cells from a pointer. `Swept`, `SweptBothWays` and
`SweptAndFreed` are the loop of `sq_relation_erase()` in its three modes: a round
(`Visited`) unlinks and frees a cell that hits, after the reverse reference was
erased (`Unrelated`) or all references of what the cell names (`Isolated`), each
a loop of its own over another list while this one is being walked.
`EraseOneWay`, `EraseBothWays` and `EraseAndFree` are the function, `Cleared` is
`sq_relation_clear()`. `EraseRecords` composes what `sq_schema_erase_records()` does to
the relation. `Replaced` follows the pointers of `sq_relation_replace()` through
the insertion of a node; when the array is reallocated, `rnode` reads what was
freed, which still holds the old content or the new (both are outcomes).

What callers are assumed to do, and do: they do not relate two objects twice
(they look first), nor an object to itself or two hubs; mode -1 is used only on
the REENTRY hub; a replaced object is freed by the caller. `OnlySafeReplace`
limits replacement to the cases in which the node of the new object exists or is
inserted behind that of the old one without a reallocation; in the others
`sq_relation_replace()` goes on with a pointer into the array that has moved
(SqRelation.c:233), and without the limit TLC finds an object that is freed and
stays listed. A freed cell's object is cleared in the model, since nothing reads
it. The chunks of the pool are a bound on its cells.

### SchemaMigration, SqliteMigration

`SchemaMigration` models the tables of the schema in memory. A table is
identified by the version of the migration that added it, and has at most one
foreign key. `history` is what the developer wrote; `ideal[v]` is what the first
`v` migrations mean, computed on the side by `Meant`. `schema` holds the names,
old names, the bit `SQB_TABLE_SQL_CREATED` and the two lists of records.
`Included` is `sq_schema_include()` for one change: `Add` (SqRelation-migration.c
616-650), `Drop` (525-556), `Rename` (557-614), each with the tracing that comes
before a name is used again (`ReuseName`). `TraceName`, `EraseReentry` and
`EraseRecords` are `sq_schema_trace_name()` and `sq_schema_erase_records()` with
'?' and '='. `Include` is `sqdb_sqlite_migrate()` with a schema: when the database
already has the version, the records are erased at once.

`SqliteMigration` extends it with the database: `disk` is committed, `work` is
what the open transaction sees. `sqdb_sqlite_migrate_sync()` is modelled one
statement per step: BEGIN, the loop over the UNSYNCED list (`ExecDrop`,
`ExecRename`, `SkipCreate`), the loop over the tables that are missing
(`ExecCreate`, in any order), COMMIT, and `PRAGMA user_version`. The process may
crash before any step, and any statement may be refused (the disk is full, the
database is locked): `MaxFaults` bounds both together and `MaxRefused` the
latter; `refused` remembers what the refused statements were about, a table or
(`TheVersion`) the version. Releases with more migrations are installed while
the program is down.

`has_error` is assigned by each statement, so that only the last one counts: a
refused CREATE TABLE that is followed by another statement is forgotten, the
rest is committed, the version stored and SQCODE_OK returned. `SyncIsFaithful`
says that nothing but the tables in `refused` differs then.

`ImplementsSchemaMigration` is the refinement: whatever the driver does, the
schema in memory takes steps of SchemaMigration, so what is proved there holds
here too.

SQLite is external. Assumed of it: DDL is transactional; ALTER TABLE RENAME
rewrites the foreign keys of other tables (since 3.26); DROP TABLE IF EXISTS
finds a table or nothing; CREATE TABLE fails when the table exists; COMMIT
succeeds.

Assumed of the developer: one change per migration (a list of migrations
includes every sequence of changes); a foreign key names a table that exists, or
its own; a table is renamed to a free name. Dropping or renaming what is not
there, and adding what is, are allowed and passed over, as the code does.

Fairness (`FairSqliteSpec`): the program is started again, includes each
migration of its release, asks for a synchronization at the end, and calls that
were entered run on. `sq_app_migrate()` does all of this in one call.

The constants `FreshNames`, `RerunFirst` and `WholeRelease` separate the uses in
which the code is right from those in which it is not. `FreshNames` is needed
where statements may be executed twice or in the wrong order (`sqlite_reuse`).
`RerunFirst` says that after a crash the same release runs again before a newer
one is installed: COMMIT and `PRAGMA user_version` are two transactions, and a
newer release whose migrations rename what was already created would create it a
second time. `WholeRelease` says that a synchronization is asked for only after
the last migration, as SqApp does.

### TableMigration

One table: `table` is the SqTable in memory with its flags and records, `db` the
table in the database with its rows, indexes and constraints. A column, index
or constraint is identified by the version that added it; indexes and
constraints are fake columns, as in the code. `history` and `ideal` are as
before. `Included` is `sq_table_include()` for one change. The synchronization
(`Synchronized`) is one step, since SqliteMigration takes it apart, but in it the
statements are executed one after the other on the table in the database
(`Executed`), each with its own condition for failing, up to the first that does: either `sqdb_sqlite_alter_table()` over the
reversed list of records, or `sqdb_sqlite_recreate_table()`, which copies the
columns that have no record. Which of the two is chosen is computed from the
flags as the code does.

`SyncArrives` holds within five limits on what one synchronization has to do,
each a definition of its own and each necessary: without it TLC finds a
synchronization that goes wrong.

| Limit | What happens outside it |
|---|---|
| `RenamesAreApart` | the table is recreated for another change, and a renamed column counts as new: its rows are not copied, although its old name is kept for that purpose (comment in SqRelation-migration.c:312) |
| `RenamesAreOfStored` | a column that is added and renamed in the same synchronization |
| `RenamesAreSingle` | a column renamed twice keeps one old name; two columns that swap their names |
| `RenamesPrecedeIndexes` | an index on a column that is renamed later is made before the renaming (SqdbSqlite.c:655) |
| `IndexDropsAreNoticed` | a dropped index sets no flag; when nothing else changes it stays (SqRelation-migration.c:266) |

`RowsStay` needs only the first of them, and that the database has the rows under
the names which the schema at its version gives them (`RowsAreNamed`). A
synchronization outside the limits can break that: columns `b` and `c` are added
and swap their names, a renaming fails in the middle, and a later migration drops
one of them; the table is then recreated and the rows of the other are gone. It
takes six migrations to get there. The first synchronization (of version 0, which
creates the table) has no limits.

### ServerMigration

Both drivers, which share `Sqdb-migration.c`: `product` is the one in use. A
migration is a list of changes of tables (create, drop, rename, alter), an
alteration a list of changes of columns. `Begin` starts a migration that the
database has not; `change` and `step` say which change of it and which statement
of that (`Ongoing`) are next. `Statements` makes them from the change and from
the schema as it was before the migration. Each step executes one (`Succeed`) or
not (`Fail`), and what follows a failure (`GiveUp`) depends on the driver and the
statement: the rest of the migration is given up, or the rest of the table, or
nothing. Only the failure of some statements is returned. The version is stored
in any case (`Finish`), the migration is included into the schema, and the program
goes on. `ideal[v]` are the tables that `v` migrations mean.
PostgreSQL's triggers for ON UPDATE CURRENT_TIMESTAMP are part of the database
(by table and column), MySQL's definitions that CHANGE COLUMN repeats are part of
its statements. The program may crash between two statements; it then executes
the whole migration again and fails at the first statement that was executed
before. `tainted` collects the tables that failed or skipped statements were
about.

`OthersAgree` says that the damage stays with those. The migrations that are
released keep to seven limits (`StampsStay`, `RenamesAreOfStored`,
`AltersAreOfStored`, `DropsAreOfStored`, `TableIsWithinLimits`, `IsRepeatable`,
`NoOtherUnstored`), each necessary: without `StampsStay` a table of PostgreSQL cannot be dropped any
more, as its triggers have the names from before a renaming (SqdbPostgre.c:498);
outside `DropsAreOfStored` and `TableIsWithinLimits` the driver looks up a table
that the same migration made, gets NULL and follows it (SqdbPostgre.c:361);
outside `AltersAreOfStored` nothing is executed for the altered column; outside
`RenamesAreOfStored` MySQL renames a column with an empty definition (the old one
is looked up in the stored schema, Sqdb.c:145);
outside `IsRepeatable` a migration whose version was not stored is executed again
and does harm; outside `NoOtherUnstored` so are several, one after the other, and
what refuses each alone need not refuse them in a row: after `x` was renamed to
`y`, `z` to `x` and `y` to `z`, all three are executed once more.

Fairness (`FairSpec`, WF of the program's own steps): a program that was started
runs on and is started again; a crash is never required.

### SqApp

`SqApp` models `sq_app_make_schema()`, `sq_app_migrate()` and
`sq_app_rollback()`, as the commands of the tool call them: open the database,
make the schema, then migrate or roll back, perhaps several times
(`migrate:refresh`). `userversion`, `stored` and `rows` are the database: its
version, its tables, and the batch of each row of the table `migrations`.
`dbversion` and `schema` are `db->version` and `storage->schema`; `schema.created`
are the tables with SQB_TABLE_SQL_CREATED, `schema.dropped` the dropped ones with
an UNSYNCED record. Each turn of the two loops is an action (`MigrateOne`,
`RollbackOne`, and `MigrateSkip`, `RollbackSkip` for elements that are NULL), and
the synchronization at the end is two, `Commit` and `SetUserVersion`: rows,
tables and version are written in different transactions. `runs`, `ran` and
`before` are not in the code; they remember which call ran a migration last, and
what a rollback began with.

The driver is SQLite, reduced to what SqliteMigration shows of it. Each
migration adds one table of its own and its reverse drops it. Migrations are
deleted from the array before any database has run them. After a crash the same
command is given again, without a number of steps, before anything else.

`MaybeDeleted` says which migrations may be NULL in the array. The run deletes
the first ones only. A deleted migration in the middle has no row but uses up a
step of a rollback, which then leaves the first migration of its batch; with
`MaybeDeleted = {{}, {2}}` TLC finds it, against `src/doc/SqApp.md`. `CrashIn`
leaves crashes in a rollback out: the row of a migration is removed before its
table is dropped, and nothing in the code brings the two together again, so that
the next rollback counts the rows of another batch.

### SqStorage, SqStorageTables

`SqStorage` is a table (`rows`) and what the output chain keeps between calls:
`condition` and `columns` of SqxcSql, and `input`, the text in the buffer of the
input chain, into which `condition` may point (SqStorage.c:295). A condition is
the set of ids it selects. `call` is the last call with its arguments and result;
`owed` is history: the ids that refused updates named and that the chain still
remembers. The kinds of columns decide what is left out of a statement and what
the database sets by itself: DEFAULT CURRENT_TIMESTAMP, ON UPDATE, query-only.
The database may refuse a statement that makes sense (`MaxRefusals`), and refuses
those that do not; rows may change behind the storage's back (`Elsewhere`).

What the model shows of the code, besides its properties: after a refused
update the condition and the columns stay in the chain, so the next
`sq_storage_update()` writes the rows of the refused one, and in its columns;
`sq_storage_update_all()` with only unknown names writes all columns; a refused
insertion returns the row id of an earlier one. The properties say how far this
goes: updates are exact when nothing was left (`UpdatesAreMeant`), reach only
rows that a refused update named otherwise (`StrayUpdatesAreOwed`), and
insertions are never touched by it (`InsertsAreWhole`).

`SqStorageTables` is `sq_storage_find_by_type()`. Its copy of the schema's
tables is made again when the version differs, but the array never gets shorter:
after tables were dropped old entries, sorted in among the others, can be found
(SqStorage.c:459). `FoundIsLive` holds while the schema has not become smaller
than the copy was.

### SqxcChain

A storage's two chains with the driver at one end and C structures at the
other. `Type` describes structures: members that are values, objects inside, at
offset 0 or behind a pointer, arrays, and joints of tables; `known` is FALSE for
members that only the program that wrote the rows has. `WriteRow` is
`sq_storage_insert()`; what `sq_type_object_write()` and `sq_type_array_write()`
send (`Sent`) goes to the element of the chain that was used last (`SentOut`):
SqxcSql in a row refuses objects and arrays, the JSON writer behind it takes
them, collects nodes, and hands the document back when its stack is empty.
`Query` is `sq_storage_get()`, `sq_storage_get_all()` or a join; its results come
with the columns in any order, and perhaps with a column that is NULL because it
was added after the rows (`added`). `Send` is one call of `sqxc_send()` by the
driver: SqxcValue has the type on top of its stack parse it; a string that comes
for an object or array is sent through the JSON parser, one event per `Parse`.
Rows that cannot be read abort the query (`Aborts`), and the storage then frees
what was read.

`in.nested` and `out.nested` are stacks of SqxcNested with the block and the slot
that each record is in. `ready` is whether the record has matched its type
(`data3` is the instance) or still waits (SQXC_IS_DOING_TYPE_MATCH). Memory is
addressed by the way from the structure that is read; `Address` makes an object
at offset 0 the same place as the object around it, which is how the code
confuses them.

`RowsAreRead` compares structures as they were written with those that are read
back, less what the reader does not know. It excepts what the code cannot do:

- An object at offset 0 of another is not read (SqType-built-in.c:524): its
  address is that of the record on top of the stack, which has begun already. It
  keeps its initial values, without any error.
- A row with a NULL pointer in a nested object: NULL is written as `false`
  (SqxcJsonc.c:218 lacks a break), which is no object.
- A row in which a column with JSON is NULL: no parser takes the string, and the
  record that waits for it stays (SqxcValue pops it only when the parser
  answered TYPE_NOT_MATCHED, Sqxc.c:264). The columns after it are parsed by the
  wrong type; the next row is refused, the query aborted and everything read so
  far is freed, or the object's missing name reaches `strcmp()` ("crashed").

`Unset`, the content of new memory, is also what `false` is read as. Text that is
JSON by itself (`Numbers`) is parsed when it stands where an object is expected.

### SqQuery

`query` is the tree of SqQuery.c, by number of node, and the stack of scopes
(`SqQueryNested`); `meant` is, for every open scope, what the calls in it said.
Every call of the builder changes both. Words lie in memory in the order in which
a statement has them, and the place of a clause is found by comparing addresses
(`Before`, `Find`); names and conditions are never words. `Sql` walks the tree as
`sq_query_to_sql()` does, `Text` writes what was meant. `TablesAndAliases` is
`sq_query_get_table_as_names()`.

What callers are assumed to do: a scope is popped only when something was put in
it; a group of conditions has only calls of its own clause; ORDER BY is not given
after UNION nor UNION after LIMIT; TRUNCATE only to a query without a command;
`sq_query_on()` after a join or in a group of one; DELETE and TRUNCATE in the
outermost scope. Outside of these the tree still gets its nodes, and the SQL is
another or none: ORDER BY is written before a UNION that was called first, a
TRUNCATE after SELECT loses FROM, an empty group leaves WHERE without a
condition.

## Runs

| Run | Instance | What it shows | States |
|---|---|---|---|
| pairs_default | 3 keys, 4 pairs, two of them with one key, initial capacity 1 | The SORTED bit is never stale; every pair has one owner; implements PairsMap | 63,582 |
| pairs_checked | the same with the key check, initial capacity 0 | The search ends and halves its window; a miss is the inserting index; the array fits its memory; implements PairsMap | 73,727 |
| graph | 3 objects, 2 hubs, lists of up to 3 | Reverse references are complete; nothing freed is listed | 156,887 |
| relation | 2 objects and 2 hubs, 6 cells, 3 calls of add, an array that must grow, safe replacement | The pool loses no cell; nodes are found; implements RelationGraph, with its freed objects | 39,371 |
| schema | 4 migrations over 3 names, every list of changes, restarts and synchronizations at any time | The schema is what the migrations mean; names are traced unambiguously; references follow; pending changes are recorded | 179,947 |
| sqlite_crash | 3 migrations, 2 crashes or refused statements anywhere, whole releases, names not reused | OK means synchronized but for what was refused; without refusals the database is always that of some version; no rows are lost; every release arrives in the end; implements SchemaMigration | 1,138,221 |
| sqlite_reuse | 4 migrations, names are reused | **Violated**: the pending changes are executed in the wrong order | |
| columns | one table, 5 changes over 3 names | The table in memory and its records are what is meant; declarations follow renamed columns; a synchronization arrives within its limits; rows stay | 381,722 |
| server | both servers, 3 migrations with 3 changes of 2 tables and 2 columns, 2 crashes or refused statements | Damage stays with the tables of failed statements; without faults nothing fails; every version is reached | 1,336,090 |
| app | 4 migrations, releases of any length, 5 commands with steps 0 to 2, 2 crashes in migrate, the first migrations perhaps deleted | Rows, version, tables and schema agree between commands; batches are in order; a rollback undoes the last batch and never more | 198,332 |
| storage | 2 rows, 2 columns besides the key, 2 refusals; 3 types of tables, 4 versions; 2 rows of 3 layouts with objects in objects and blocks of 2 records | Updates are exact, or owed to a refused one; insertions are whole; tables found by type exist; rows are read as they were written; the stacks lie in live memory | 71,323 |
| query | 5 calls, the last two on one of three topics, 3 scopes | The SQL has each clause once and in place; tables are found with their aliases | 256,843 |

Why the bounds are enough. Three names are what it takes to swap two (through a
third); four migrations make a name pass through drop or rename, reuse and
rename again, and the fifth change of a table is one after that (with six, which
takes longer than the listed run may, TLC finds nothing else). Two crashes are
one during the repair of another. Four pairs make the array grow twice and the
search take three probes, and two of them share a key, which the two builds
treat differently. Two hubs and two or three objects that come and go are what
`sq_schema_erase_records()` distinguishes: records, tables, and what is in both
lists. Five commands and four migrations are two batches, a rollback of each and
another run between them; two crashes are one when the first is being repaired.
Two refused updates are one that finds what another left. Blocks of two records
make the stack of a row with a child and a grandchild cross the boundary of a
block several times, in every alignment that a row, an array of rows and a joint
give it; eight are as many as the code has. Two rows are one before and one after a
row that cannot be read. Three scopes are a scope within a scope that is not the
outermost; after three calls of any kind two more concern one topic, because
calls of different topics touch different words.

The rows, the tables and the chain of the storage share no variable; the run
checks them side by side (`part` in MCSqStorage).

What the violated run says is in `PROJECT.json` under `findings`:
`sqdb_sqlite_migrate_sync()` walks the list of unsynchronized tables latest
first, while `sqdb_sqlite_alter_table()` reverses the list of columns because it
is stored in reverse order (SqdbSqlite.c:639). Dropping `a` and renaming `b` to
`a` in one synchronization executes the renaming first.

## Proofs

`SqPairsProofs`, for any keys, order, pairs and capacity, and both builds. The
invariant adds to the properties what a running search knows: everything left of
`low` is smaller than the key and everything from `high` on is larger, and that
`cur` is within one of the window. `MissIsInsertingIndex` follows when the window
is empty, `InOrderForSearch` because an insertion at that index keeps the order,
and the refinement of PairsMap because a miss proves that no such key is stored.
`SearchHalves` is a property of single steps.

The first part of `SqliteMigrationProofs` is about SchemaMigration, for any names
and any number of migrations. The invariant has three parts besides the types: `ReleasesInv` (each `ideal[v]`
follows from the one before by a legal change), `SchemaInv` (the schema is what
is meant, no name is traced ambiguously, every foreign key `Leads` to its table,
and the pending records are of tables known so far) and `DatabaseInv` (`created`
and the old names tell exactly what the database has). `Leads` is why it is
inductive: a foreign key holds its table's name, or a name that one record leads
to that table from. Renaming makes such a record; `ReuseName` resolves them all
before a name is given out again, so that a name in use is in no record
(`Unambiguous`).

Its second part is about SqliteMigration, for any number of crashes and refused
statements too. The invariant has three layers, and a theorem states what it
assumes. `BaseInv` assumes nothing: the invariant of SchemaMigration, where in
the program which of the versions may differ (`PlaceInv`), and that the last
renaming on record tells a table's present name (`KeepsNames`), so that tracing
twice is tracing once: the synchronization traces before its first statement and
again with its COMMIT, and the refinement (`Implementation`) is that the second
time changes nothing. `RowsInv` assumes `FreshNames`: a name has one owner ever,
and the database knows it by that owner, so a statement for a name meets the
table it was made for (`RowsKept`). `ContentInv` assumes `WholeRelease` and
`RerunFirst` too, and says how far the two loops have come: a table on the rest
of the list is still under its former name, or all of it was done by a
synchronization whose version was not stored (`UnsyncedDone`, `AllDone`,
`CreateDone`). `SyncFaithful` and `AllOrNothingHolds` follow. Both speak of the
tables in `refused` apart, which is where `has_error` is lost.

`TableMigrationProofs`, for any names and any number of migrations. The invariant
is built like that of SchemaMigration, over columns, and is preserved by every
change because each of `Add`, `Alter`, `Drop` and `Rename` is first described
field by field (`AddFields`, ..., `RenameFields`). `Told` is the part that
`RecordsCorrect` rests on: a column of the table is in the database under its own
name when nothing is on record, and under its old name when there is one. A
second layer (`RowsInv`) says why a table is recreated, that some pending
migration is outside `RenamesAreApart`, and why a column that the database has is
on record, that it was renamed. `RowsCorrect` needs both: when the table is
recreated under its assumptions no column that the database has counts as new,
and the name it is copied from is its own. That no statement loses rows is shown
for each kind (`StatementHolds`) and for the list by induction (`ExecutedKeeps`).

A third layer (`SyncInv`) is about the migrations that are pending. Its `OrderInv`
says, for those that the table is altered for and that keep within the limits,
what the list of records is: one record for each column or index, in the order
of the last migration about it (`Listed`), and names that say what this
migration does (`SaysWhat`); each limit is used there, to show that a later
migration leaves what an earlier one has put on record. `FlagsInv` says that
no flag means dropped indexes only, and none that SQLite has no ALTER TABLE for
that all are such migrations. `SyncCorrect` then follows the three ways a
synchronization can take. A table that is made or made again is what the table
in memory says (`MadeMirrors`), and nothing that is copied is missing or
elsewhere (`RecreatedMirrors`). For the statements of `sqdb_sqlite_alter_table()`
the induction is over versions (`AlterMirrors`): after the statements about the
migrations up to `v` the database has what `v` migrations mean, but for the
indexes (`Lost`) that a later one drops and that were never made; the statement
for the next migration is executed, not refused, and does what it means
(`AddMirrors`, `IndexMirrors`, `RenameMirrors`, `DropMirrors`).

`RelationGraphProofs`, for any objects, hubs and lengths. Every action is first
described by who lists whom after it; the invariant (no self relation, hubs list
only what can be freed, reverse references complete, nothing freed is listed)
then follows in first-order logic. It needs what `Without` does to the range of
a list, which is by induction over its recursive definition.

How induction is done here, and in the other proof modules: an induction
principle for sets of natural numbers (`Induct`, `Least`; each module has what it
needs of the two) is proved from the well-foundedness of their order; with it,
that the recursive function exists, so that it satisfies its defining equation;
with that, what it computes, step by step.

`SqRelationProofs`, for any objects, hubs, cells and calls. The hypotheses of its
theorems are that an `int` holds the difference of any two addresses
(`AddressesAreNear`) and that callers keep the pointers of
`sq_relation_replace()` valid (`OnlySafeReplace`); the run satisfies both. The
invariant `Sound` says that there is a function `own` with the cells of every
object's list, and of the list of freed cells, in their order: each cell that was
handed out is in one of them, once; every list leads along its cells and ends;
the nodes are in the order of their addresses; and the counters agree. Each
function of the module is described by what it does to `own` and to the lists
(`PrependIs`, `WithNodeIs`, `EraseBothWaysIs`, `ReplacedIs`, ...). The loops of
`sq_relation_erase()` are by induction over the list that is being walked, and
the hard one is the mode that frees: while it stands at a cell, it erases other
lists, so the rest of its own must be shown to stay. That follows from what
RelationGraph's invariant says of what may be freed: it is listed by those only
that it lists (`CanFree`). So the two invariants are proved together, and every
action is shown to be a step of RelationGraph (`RelationRefinement`),
`RemoveEmpty` a stuttering one.
`CellsAreOwnedOnce`, `NodesAreAlwaysFound` and `NothingFreedIsNamed` follow.

`ServerMigrationProofs`, for any names, releases and faults, and both servers.
The invariant: what was released is within the limits (`LegalMigration`), the
schema in memory is what is meant, and each table that is not tainted is in the
database what it is meant to be when the `step`-th statement of the `change`-th
change is next (`AgreeAt`), or what the whole migration means if it was executed
before and its version not stored. The core is one lemma per kind of change: the
statement that is next can be executed unless its tables are tainted, and takes
all others to the next place (`Does`, `ChangeDoes`); executed again, it leaves
everything in place (`Repeated`). `DamageIsContained` and `RefusalsAreCaused`
follow, and `ErrorsDoNotSpread`, which no run checks: after faults, too, a
statement is refused only if its change is about a tainted table. The proof found
two flaws of the model: the limit `NoOtherUnstored` was missing (the run is too
small for three renames and a replay of all), and two guards of `AlteredColumn`
overlapped.

`SqStorageProofs`, for any ids, columns, kinds, contents and number of refusals.
The invariant is TypeOK and `Debts`: a condition that is left in the chain, or
the text that it points to, selects only rows in `owed`, and columns are left
only together with a condition. `StrayUpdatesAreOwed` is not inductive without
it: nothing else says that a buffer which several calls write still holds the
condition of a refused update and not another set of rows. `FoundIsLiveAlways` is
about SqStorageTables, from an invariant of its own (`CopyInv`): a copy of the
schema's version has every table of the schema, and is no longer than the schema
only when it has no others.

`SqAppProofs`, for any number of migrations, commands and crashes in
`sq_app_migrate()`, when only the first migrations were deleted and no rollback
crashes (`Supported`; SqApp above has what happens otherwise). Rows, tables,
version and schema agree only between commands, so the invariant has one part
for each place the program can be in (`Resting`, `Migrating`, `RollingBack`,
`Versioning`), which says how far each of the four is ahead of or behind the
others. What a crash leaves is in `Resting`: rows and tables of some versions
`k` and `s`, both between the stored version and the end of the release, so that
the same command, which runs to that end, makes them equal. A second invariant
(`Ran`, `Running`, `Undoing`) relates the batches in the rows to the calls that
ran them. A call after a crash runs migrations again whose rows stay as they
were, so the two agree only up to the stored version, and no batch extends across
it. `Undoing` then says where the last batch begins and that the steps left lead
there; that the rows of the last batch are as many as the versions from there up
is what `BatchesInOrder` and the absence of gaps give.

Assumptions are those named in the modules: `CompareAssumption`,
`PairAssumption`, `NameAssumption`, `VersionAssumption`, `HubAssumption`,
`AddressAssumption`, `SizeAssumption`, `ServerAssumption`, `AppAssumption`, `IdsAssumption`, `FieldsAssumption`, `RequestsAssumption`,
`ContentsAssumption`, `MarksAssumption`, `BoundsAssumption`. TLC evaluates each
in the runs.

Model-checked only:

- everything with fairness (`CallsReturn`, `ReleasesArrive`, `VersionArrives`),
  which is out of the prover's reach;
- SqQuery and SqxcChain (`SqlIsMeant`, `SourcesAreFound`, `RowsAreRead`,
  `NestedIsLive`), whose definitions are RECURSIVE over trees.

## Not modelled

- Triggers of SQLite, and a COMMIT that fails: the transaction then stays open,
  foreign keys stay off, and the version is written inside it (SqdbSqlite.c:257).
- Types and sizes of columns, DEFAULT values and the wording of SQL: a column's
  definition is the change that defined it last. Composite and foreign keys are
  one kind of constraint.
- `sqdb_mysql_exec()` and `sqdb_postgre_exec()`, which hand rows to Sqxc as
  `query_callback()` does; constraints and foreign keys of ServerMigration, whose
  statements take the same ways as those of columns.
- Crashes in a rollback (see SqApp).
- Building chains (`sqxc_new_chain()`, `sqxc_insert()`, `sqxc_steal()`); SqRow and
  its SqTypeRow, whose columns are made while they are parsed; UPDATE of nested
  members (SqxcSql.c:213: members without an entry are written whatever columns
  were selected); SQB_HIDDEN; pointers to values; incomplete JSON and documents
  of other shapes than a program of this library writes; json-c given a NULL
  string.
- Raw text in queries and the formatting of values. `sq_query_c()` on a tree
  without a command writes `SELECT *` into it; where_in with no values prints an
  open bracket; the buffer of a query is doubled only once for a string that may
  be longer (SqQuery.c:950).
- `sq_reentries_remove_null()` with a start behind the first NULL; the flag
  "sorted" of the console's lists (support/SqConsole.c:85); what
  `sq_migration_get_last()` returns for an empty table (-1, against 0 in
  app/SqApp.c:178, without effect on the database).
- SqBuffer, the views of SqArray, the console, the tool, helpers for names and
  times, the empty driver: conversions of one value or one text, for which tests
  are the better tool. The C++ wrappers keep no state of their own.
- Out-of-memory: the code does not handle it.

## Plan

Done, in this order: SqPairs and its proofs; SchemaMigration and its proofs, and
SqliteMigration for tables; RelationGraph and its proofs, and SqRelation; SqApp;
TableMigration; SqStorage and its proofs; ServerMigration; SqQuery; SqxcChain;
the proofs of SqApp, SqliteMigration,
TableMigration, SqRelation and ServerMigration.

Left:

1. SqRow and UPDATE in SqxcChain; building chains.
2. Several tables in TableMigration, with foreign keys between them.
3. Operators checked against a specification: `sq_reentries_remove_null()`.
