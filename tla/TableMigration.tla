--------------------------- MODULE TableMigration ---------------------------
(***************************************************************************)
(* The migration of the columns of one table: sq_table_include() collects  *)
(* the changes of the migrations in memory, and the synchronization to     *)
(* SQLite turns what was collected into statements.                        *)
(*                                                                         *)
(* SQLite can add and rename a column, nothing else.  For every other      *)
(* change sqdb_sqlite_recreate_table() makes a new table, copies the rows  *)
(* and gives it the name of the old one.  Which of the two happens, which  *)
(* columns are copied and from where is decided from flags and records     *)
(* that all changes since the last synchronization share.                  *)
(*                                                                         *)
(* A column, an index or a constraint is identified by the version of the  *)
(* migration that added it.  The primary key is always there and is left   *)
(* out.  That tables come and go is the matter of SchemaMigration, that a  *)
(* synchronization is interrupted the matter of SqliteMigration.           *)
(***************************************************************************)
EXTENDS Integers, Sequences, SequencesExt, Functions

CONSTANTS
    Name,           \* the names of columns, indexes and constraints
    NoName,         \* the NULL pointer
    First,          \* the column the table is created with
    MaxVersion      \* a bound on the number of migrations ever released

ASSUME NameAssumption == NoName \notin Name /\ First \in Name
ASSUME VersionAssumption == MaxVersion \in Nat \ {0}

Version == 1 .. MaxVersion
NoColumn == 0
Emptied == -1

VARIABLES
    latest,     \* the number of migrations in the release that is running
    history,    \* history[v]: what the migration to version v does
    ideal,      \* ideal[v]: the table that v migrations mean
    table,      \* the SqTable in memory and its SqTable::relation
    db,         \* the table in the database
    dbversion   \* Sqdb::version

vars == <<latest, history, ideal, table, db, dbversion>>

-----------------------------------------------------------------------------
(* What a migration asks for, and what it means.  A "special" column is    *)
(* one that SQLite cannot add to a table: UNIQUE, or with a default that   *)
(* is an expression or the current time.                                   *)

Kinds == {"plain", "special", "index", "constraint"}

Change ==
    [do : {"none", "add", "alter", "drop", "rename"}, kind : Kinds,
     old : Name \cup {NoName}, name : Name \cup {NoName}, on : Name \cup {NoName}]

AddColumn(n, k)    == [do |-> "add",    kind |-> k,       old |-> NoName, name |-> n,      on |-> NoName]
AddOn(n, k, m)     == [do |-> "add",    kind |-> k,       old |-> NoName, name |-> n,      on |-> m]
AlterColumn(n)     == [do |-> "alter",  kind |-> "plain", old |-> NoName, name |-> n,      on |-> NoName]
DropColumn(n)      == [do |-> "drop",   kind |-> "plain", old |-> n,      name |-> NoName, on |-> NoName]
RenameColumn(n, m) == [do |-> "rename", kind |-> "plain", old |-> n,      name |-> m,      on |-> NoName]
NoChange           == [do |-> "none",   kind |-> "plain", old |-> NoName, name |-> NoName, on |-> NoName]

Kind(o) == history[o].kind

IsFake(o) == Kind(o) \in {"index", "constraint"}

(* The column an index or a constraint was declared on.                    *)
Target(o) == ideal[o].named[history[o].on]

Meant(i, v, c) ==
    CASE c.do = "add" -> [i EXCEPT !.named[c.name] = v, !.defined[v] = v]
      [] c.do = "alter" -> [i EXCEPT !.defined[i.named[c.name]] = v]
      [] c.do = "drop" -> [i EXCEPT !.named[c.old] = NoColumn]
      [] c.do = "rename" -> [i EXCEPT !.named[c.name] = i.named[c.old], !.named[c.old] = NoColumn]

-----------------------------------------------------------------------------
(* SqTable, its columns and its relation.                                  *)

Flags == {"ALTERED", "RENAMED", "DROPPED", "ADDED", "ADDED_SPECIAL", "ADDED_CONSTRAINT"}

NoNames == [o \in Version |-> NoName]

EmptyTable ==
    [version  |-> 0,
     created  |-> FALSE,                        \* SQB_TABLE_SQL_CREATED
     flags    |-> {},                           \* SQB_TABLE_COL_...
     name     |-> NoNames,                      \* SqColumn::name
     old      |-> NoNames,                      \* SqColumn::old_name
     defined  |-> [o \in Version |-> 0],        \* the migration that defined it last
     on       |-> NoNames,                      \* SqColumn::composite[0]
     unsynced |-> <<>>,                         \* what SQ_TYPE_UNSYNCED relates to
     reentry  |-> <<>>]                         \* what SQ_TYPE_REENTRY relates to

Record(kind, o, n, m) == [kind |-> kind, column |-> o, old |-> n, name |-> m]

Entries(t) == {o \in Version : t.name[o] # NoName}

IsPending(t, o) == Contains(t.unsynced, o)

AddUnsynced(t, o) == <<o>> \o t.unsynced

FirstOf(indices) == CHOOSE i \in indices : \A j \in indices : i <= j

(* sq_relation_trace_reentry(): what the column once called n is called    *)
(* now, NoName if it was dropped.                                          *)
Hits(t, n) == {i \in DOMAIN t.reentry : t.reentry[i].old = n}

IsTraced(t, n) == Hits(t, n) # {}

TracedName(t, n) ==
    LET hit == t.reentry[FirstOf(Hits(t, n))]
        renamings == {i \in DOMAIN t.reentry :
                        t.reentry[i].kind = "renamed" /\ t.reentry[i].column = hit.column}
    IN  CASE hit.kind = "renamed" -> t.name[hit.column]
          [] hit.kind = "dropped" /\ renamings = {} -> NoName
          [] OTHER -> t.reentry[FirstOf(renamings)].name

Resolve(t, n) ==
    IF IsTraced(t, n) /\ TracedName(t, n) # NoName THEN TracedName(t, n) ELSE n

(* sq_schema_trace_name(), the part about composite keys.                  *)
TraceName(t) ==
    [t EXCEPT !.on = [o \in Version |->
        IF o \in Entries(t) THEN Resolve(t, t.on[o]) ELSE t.on[o]]]

(* sq_table_erase_records(table, '?') and (table, '=')                     *)
EraseReentry(t) == [t EXCEPT !.reentry = <<>>]

EraseRecords(t) ==
    [t EXCEPT !.reentry = <<>>, !.unsynced = <<>>, !.old = NoNames,
              !.created = TRUE, !.flags = {}]

-----------------------------------------------------------------------------
(* sq_table_include(), one branch per kind of change.                      *)

(* A slip: the records go before they were followed.                       *)
ReuseUntraced(t, n) == IF IsTraced(t, n) THEN EraseReentry(t) ELSE t

(* A name comes back into use: settle what referred to its former owner.   *)
ReuseName(t, n) == IF IsTraced(t, n) THEN EraseReentry(TraceName(t)) ELSE t

AddedFlag(k) ==
    CASE k = "constraint" -> "ADDED_CONSTRAINT"
      [] k = "special" -> "ADDED_SPECIAL"
      [] OTHER -> "ADDED"

Add(t, o, c) ==
    LET r == ReuseName(t, c.name)
    IN  [r EXCEPT !.name[o] = c.name,
                  !.defined[o] = o,
                  !.on[o] = c.on,
                  !.unsynced = IF r.created \/ c.kind = "index" THEN AddUnsynced(r, o) ELSE r.unsynced,
                  !.flags = r.flags \cup {AddedFlag(c.kind)}]

(* The new column takes the place of the old one, in the records too; it   *)
(* has no old name.                                                        *)
Alter(t, o, v) ==
    [t EXCEPT !.defined[o] = v, !.old[o] = NoName, !.flags = t.flags \cup {"ALTERED"}]

(* A slip: what was on record stays there.                                 *)
DropKeepsRecord(t, o) ==
    [t EXCEPT !.name[o] = NoName,
              !.old[o] = t.name[o],
              !.unsynced = IF Kind(o) = "index" /\ ~IsPending(t, o)
                           THEN AddUnsynced(t, o) ELSE t.unsynced,
              !.flags = IF Kind(o) = "index" THEN t.flags ELSE t.flags \cup {"DROPPED"}]

(* Only a dropped index is put on record for the database.                 *)
Drop(t, o) ==
    LET others == RemoveFirst(t.unsynced, o)
    IN  [t EXCEPT !.name[o] = NoName,
                  !.old[o] = t.name[o],
                  !.reentry = IF t.old[o] = NoName
                              THEN <<Record("dropped", o, t.name[o], NoName)>> \o t.reentry
                              ELSE t.reentry,
                  !.unsynced = IF Kind(o) = "index" THEN <<o>> \o others ELSE others,
                  !.flags = IF Kind(o) = "index" THEN t.flags ELSE t.flags \cup {"DROPPED"}]

Rename(t, o, n) ==
    LET r == ReuseName(t, n)
        first == r.created /\ ~IsPending(r, o)
    IN  [r EXCEPT !.name[o] = n,
                  !.old[o] = IF first /\ r.old[o] = NoName THEN r.name[o] ELSE r.old[o],
                  !.reentry = <<Record("renamed", o, r.name[o], n)>> \o r.reentry,
                  !.unsynced = IF first THEN AddUnsynced(r, o) ELSE r.unsynced,
                  !.flags = r.flags \cup {"RENAMED"}]

(* What is to be changed and is not there is reported on stderr and passed *)
(* over, and so is what is to be added and is there already.               *)
Apply(t, v, c) ==
    LET called(n) == {o \in Entries(t) : t.name[o] = n}
        it(n) == CHOOSE o \in called(n) : TRUE
    IN  CASE c.do = "add" /\ called(c.name) = {} -> Add(t, v, c)
          [] c.do = "alter" /\ called(c.name) # {} -> Alter(t, it(c.name), v)
          [] c.do = "drop" /\ called(c.old) # {} -> Drop(t, it(c.old))
          [] c.do = "rename" /\ called(c.old) # {} -> Rename(t, it(c.old), c.name)
          [] OTHER -> t

Included(t, v, c) == [Apply(t, v, c) EXCEPT !.version = v]

-----------------------------------------------------------------------------
(* The database.  rows[n] tells whose values the column n holds: those of  *)
(* the column it stands for, or none since it was made again.              *)

NoTable ==
    [rows       |-> [n \in Name |-> NoColumn],
     defined    |-> [n \in Name |-> 0],
     index      |-> [n \in Name |-> NoName],    \* the column an index is on
     constraint |-> [n \in Name |-> NoName]]

HasColumn(d, n) == d.rows[n] # NoColumn

Holds(d, o) == \E n \in Name : d.rows[n] = o

(* sqlite3_exec() stops at the first statement that fails; what it has     *)
(* executed stays in the transaction, and the transaction is committed.    *)
Done(d) == [db |-> d, ok |-> TRUE]
Failed(d) == [db |-> d, ok |-> FALSE]

ExecAddColumn(d, o, n, v) ==
    IF HasColumn(d, n) THEN Failed(d)
    ELSE Done([d EXCEPT !.rows[n] = IF Holds(d, o) THEN Emptied ELSE o, !.defined[n] = v])

ExecRenameColumn(d, n, m) ==
    LET moved(on) == [i \in Name |-> IF on[i] = n THEN m ELSE on[i]]
    IN  IF ~HasColumn(d, n) \/ HasColumn(d, m) THEN Failed(d)
        ELSE Done([rows       |-> [d.rows EXCEPT ![n] = NoColumn, ![m] = d.rows[n]],
                   defined    |-> [d.defined EXCEPT ![n] = 0, ![m] = d.defined[n]],
                   index      |-> moved(d.index),
                   constraint |-> moved(d.constraint)])

ExecCreateIndex(d, n, on) ==
    IF d.index[n] # NoName \/ ~HasColumn(d, on) THEN Failed(d)
    ELSE Done([d EXCEPT !.index[n] = on])

ExecDropIndex(d, n) == Done([d EXCEPT !.index[n] = NoName])

(* sqdb_sqlite_alter_table(): one statement for a record.                  *)
Statement(t, d, o) ==
    CASE Kind(o) = "index" /\ t.name[o] = NoName -> ExecDropIndex(d, t.old[o])
      [] Kind(o) = "index" /\ t.name[o] # NoName -> ExecCreateIndex(d, t.name[o], t.on[o])
      [] ~IsFake(o) /\ t.old[o] # NoName -> ExecRenameColumn(d, t.old[o], t.name[o])
      [] OTHER -> ExecAddColumn(d, o, t.name[o], t.defined[o])

(* The statements for the columns in os, up to the first that fails.       *)
Executed(t, d, os) ==
    LET run[i \in 0 .. Len(os)] ==
            IF i = 0 THEN Done(d)
            ELSE IF run[i - 1].ok THEN Statement(t, run[i - 1].db, os[i])
            ELSE run[i - 1]
    IN  run[Len(os)]

(* A slip: the newest record first.                                        *)
AlterTableBackwards(t, d) == Executed(t, d, t.unsynced)

(* The records were put in front one by one; they are executed in the      *)
(* order in which they were made.                                          *)
AlterTable(t, d) == Executed(t, d, Reverse(t.unsynced))

Columns(t) == {o \in Entries(t) : ~IsFake(o)}

At(t, os, f, none) ==
    [n \in Name |-> IF \E o \in os : t.name[o] = n
                    THEN f[CHOOSE o \in os : t.name[o] = n] ELSE none]

(* sqdb_sql_create_table_params() and sqdb_sqlite_create_dependent(): the  *)
(* table as the schema has it, with rows taken from "from".                *)
TableWith(t, from) ==
    LET made(k) == {o \in Entries(t) : Kind(o) = k}
    IN  [rows       |-> At(t, Columns(t), from, NoColumn),
         defined    |-> At(t, Columns(t), t.defined, 0),
         index      |-> At(t, made("index"), t.on, NoName),
         constraint |-> At(t, made("constraint"), t.on, NoName)]

CreateTable(t) == Done(TableWith(t, [o \in Version |-> o]))

(* A slip: a column that was altered counts as new.                        *)
IsCopiedUnaltered(t, o) == ~IsPending(t, o) /\ t.defined[o] = o

(* sqdb_write_exist_column_list(): a column with an UNSYNCED record counts *)
(* as new and is not copied.                                               *)
IsCopied(t, o) == ~IsPending(t, o)

Source(t, o) == IF t.old[o] # NoName THEN t.old[o] ELSE t.name[o]

RecreateTable(t, d) ==
    IF \E o \in Columns(t) : IsCopied(t, o) /\ ~HasColumn(d, Source(t, o)) THEN Failed(d)
    ELSE Done(TableWith(t, [o \in Columns(t) |-> IF IsCopied(t, o) THEN d.rows[Source(t, o)]
                                             ELSE IF Holds(d, o) THEN Emptied ELSE o]))

(* What SQLite has no ALTER TABLE for (version 3.20 and later).            *)
Unsupported == {"ADDED_SPECIAL", "ADDED_CONSTRAINT", "DROPPED", "ALTERED"}

Recreates(t) == t.created /\ t.flags \cap Unsupported # {}

(* The second loop of sqdb_sqlite_migrate_sync(), for this table.          *)
Synchronized(t, d) ==
    CASE ~t.created -> CreateTable(t)
      [] t.created /\ t.flags = {} -> Done(d)
      [] Recreates(t) -> RecreateTable(t, d)
      [] OTHER -> AlterTable(t, d)

-----------------------------------------------------------------------------
Init ==
    /\ latest = 1
    /\ history = [v \in Version |-> IF v = 1 THEN AddColumn(First, "plain") ELSE NoChange]
    /\ ideal = [v \in 0 .. MaxVersion |->
                  [named   |-> [n \in Name |-> IF v = 1 /\ n = First THEN 1 ELSE NoColumn],
                   defined |-> [o \in Version |-> IF v = 1 /\ o = 1 THEN 1 ELSE 0]]]
    /\ table = EmptyTable
    /\ db = NoTable
    /\ dbversion = 0

(* The next release has one more migration.  A name is given to one thing  *)
(* at a time, and a column goes only when nothing is declared on it.       *)
Release(c) ==
    /\ latest < MaxVersion
    /\ latest' = latest + 1
    /\ history' = [history EXCEPT ![latest + 1] = c]
    /\ ideal' = [ideal EXCEPT ![latest + 1] = Meant(ideal[latest], latest + 1, c)]
    /\ UNCHANGED <<table, db, dbversion>>

Releases ==
    LET named == ideal[latest].named
        free(n) == named[n] = NoColumn
        column(n) == ~free(n) /\ ~IsFake(named[n])
        declaredOn(n) == \E m \in Name : /\ ~free(m) /\ IsFake(named[m])
                                         /\ Target(named[m]) = named[n]
    IN  \/ \E n \in Name, k \in {"plain", "special"} : free(n) /\ Release(AddColumn(n, k))
        \/ \E n, m \in Name, k \in {"index", "constraint"} :
              free(n) /\ column(m) /\ Release(AddOn(n, k, m))
        \/ \E n \in Name : column(n) /\ Release(AlterColumn(n))
        \/ \E n \in Name : ~free(n) /\ ~declaredOn(n) /\ Release(DropColumn(n))
        \/ \E n, m \in Name : column(n) /\ free(m) /\ Release(RenameColumn(n, m))

(* sqdb_sqlite_migrate() with the next schema.                             *)
Include ==
    LET v == table.version + 1
        t == Included(table, v, history[v])
    IN  /\ table.version < latest
        /\ table' = IF dbversion = v THEN EraseRecords(TraceName(t)) ELSE t
        /\ UNCHANGED <<latest, history, ideal, db, dbversion>>

(* sqdb_sqlite_migrate_sync()                                              *)
Sync ==
    LET t == TraceName(table)
    IN  /\ dbversion < table.version
        /\ db' = Synchronized(t, db).db
        /\ table' = EraseRecords(t)
        /\ dbversion' = table.version
        /\ UNCHANGED <<latest, history, ideal>>

(* The program is started again, perhaps as the next release.              *)
Restart ==
    /\ table' = EmptyTable
    /\ UNCHANGED <<latest, history, ideal, db, dbversion>>

Next == Releases \/ Include \/ Sync \/ Restart

Spec == Init /\ [][Next]_vars
-----------------------------------------------------------------------------
(* Properties.                                                             *)

TypeOK ==
    /\ latest \in Version
    /\ history \in [Version -> Change]
    /\ table.version \in 0 .. latest
    /\ table.created \in BOOLEAN /\ table.flags \subseteq Flags
    /\ table.name \in [Version -> Name \cup {NoName}]
    /\ table.old \in [Version -> Name \cup {NoName}]
    /\ table.on \in [Version -> Name \cup {NoName}]
    /\ table.defined \in [Version -> 0 .. MaxVersion]
    /\ table.unsynced \in Seq(Version) /\ IsInjective(table.unsynced)
    /\ db.rows \in [Name -> Version \cup {NoColumn, Emptied}]
    /\ dbversion \in 0 .. latest

(* The records tell what the database has.  A column that is on record     *)
(* with an old name is in the database under that name, one without a      *)
(* record under its own, and no record is left of a column that is gone:   *)
(* sqdb_write_exist_column_list() and sqdb_sqlite_alter_table() read names *)
(* of columns in the database off these records.                           *)
RecordsAreTrue ==
    LET stored == ideal[dbversion].named
    IN  table.created /\ table.version >= dbversion =>
          /\ \A o \in Columns(table) :
                /\ ~IsPending(table, o) => stored[table.name[o]] = o
                /\ table.old[o] # NoName => IsPending(table, o) /\ stored[table.old[o]] = o
          /\ \A i \in DOMAIN table.unsynced :
                LET o == table.unsynced[i] IN o \in Entries(table) \/ Kind(o) = "index"

(* Whatever was added, altered, renamed and dropped, the table in memory   *)
(* has what the migrations run so far mean: each column under the name and *)
(* with the definition they give it last, and nothing else                 *)
(* (sq_table_include()).  What a later synchronization reads of it, its    *)
(* records, is true.                                                       *)
TableIsMeant ==
    LET meant == ideal[table.version]
    IN  /\ TypeOK
        /\ RecordsAreTrue
        /\ \A o \in Version :
              /\ \A n \in Name : table.name[o] = n <=> meant.named[n] = o
              /\ o \in Entries(table) => table.defined[o] = meant.defined[o]

(* An index or a constraint still leads, by tracing, to the column it was  *)
(* declared on, under the name that column has now: also when the name was *)
(* given to another column in the meantime (sq_schema_trace_name(), which  *)
(* must run before a name comes back into use).                            *)
DeclarationsFollow ==
    \A o \in Entries(table) :
        IsFake(o) => Resolve(table, table.on[o]) = table.name[Target(o)]

-----------------------------------------------------------------------------
(* What a synchronization reaches.                                         *)

(* The tables agree: what migrations up to v mean is in the database.      *)
Matches(d, v) ==
    LET named == ideal[v].named
        nameOf(o) == CHOOSE n \in Name : named[n] = o
        is(n, kinds) == named[n] # NoColumn /\ Kind(named[n]) \in kinds
        column(n) == is(n, {"plain", "special"})
    IN  \A n \in Name :
          /\ d.rows[n] = IF column(n) THEN named[n] ELSE NoColumn
          /\ d.defined[n] = IF column(n) THEN ideal[v].defined[named[n]] ELSE 0
          /\ d.index[n] = IF is(n, {"index"}) THEN nameOf(Target(named[n])) ELSE NoName
          /\ d.constraint[n] = IF is(n, {"constraint"}) THEN nameOf(Target(named[n])) ELSE NoName

(* The migrations that a synchronization has to bring to the database, and *)
(* what each of them is about.                                             *)
Pending == dbversion + 1 .. table.version

Does(v, d) == history[v].do = d

Concerns(v) ==
    CASE Does(v, "add") -> v
      [] Does(v, "drop") -> ideal[v - 1].named[history[v].old]
      [] OTHER -> ideal[v].named[history[v].name]

Renames == {v \in Pending : Does(v, "rename")}

DropsIndex(v) == Does(v, "drop") /\ Kind(Concerns(v)) = "index"

(* The table is not recreated for another change.                          *)
RenamesAreApart ==
    Renames # {} =>
        \A v \in Pending : \/ Does(v, "rename")
                           \/ Does(v, "add") /\ Kind(v) \in {"plain", "index"}
                           \/ DropsIndex(v)

RenamesAreOfStored == \A v \in Renames : Concerns(v) \notin Pending

RenamesAreSingle == \A v, w \in Renames : Concerns(v) = Concerns(w) => v = w

RenamesPrecedeIndexes ==
    \A v \in Renames, w \in Pending :
        Does(w, "add") /\ Kind(w) = "index" /\ Target(w) = Concerns(v) => v < w

IndexDropsAreNoticed == (\E v \in Pending : DropsIndex(v)) => \E v \in Pending : ~DropsIndex(v)

WithinLimits ==
    \/ dbversion = 0
    \/ /\ RenamesAreApart /\ RenamesAreOfStored /\ RenamesAreSingle
       /\ RenamesPrecedeIndexes /\ IndexDropsAreNoticed

(* A synchronization brings the table in the database from one version to  *)
(* the next: columns, definitions, rows, indexes and constraints, whether  *)
(* it alters or recreates it, for every sequence of changes within the     *)
(* limits above.  Each limit is needed.                                    *)
SyncArrives ==
    [][dbversion' # dbversion /\ WithinLimits /\ Matches(db, dbversion)
          => Matches(db', dbversion')]_vars

(* The values that the database has are where the schema at its version    *)
(* has their column.                                                       *)
RowsAreNamed ==
    \A n \in Name, o \in Version : db.rows[n] = o => ideal[dbversion].named[n] = o

(* Whatever else goes wrong, indexes and constraints that are not made and *)
(* statements that fail, a column that stays in the schema keeps its rows, *)
(* if they are where they are looked for, and no column is renamed in a    *)
(* synchronization that recreates the table.                               *)
RowsStay ==
    [][RowsAreNamed /\ RenamesAreApart =>
          \A o \in Columns(table) : Holds(db, o) => Holds(db', o)]_vars
=============================================================================
