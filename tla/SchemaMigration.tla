-------------------------- MODULE SchemaMigration --------------------------
(***************************************************************************)
(* The migration of the schema a program keeps in memory, as               *)
(* SqRelation-migration.c does it.  A program is released with a list of   *)
(* migrations; running them with sq_schema_include() must leave the        *)
(* schema the developer meant, and must remember, in SqSchema::relation,   *)
(*   - under SQ_TYPE_REENTRY which names went away, so that foreign keys   *)
(*     written against an old name still find their table, and             *)
(*   - under SQ_TYPE_UNSYNCED which tables the database does not have yet  *)
(*     in their present form.                                              *)
(*                                                                         *)
(* A table is identified by the version of the migration that added it.    *)
(* Columns are abstracted: a table has at most one foreign key.  This      *)
(* module leaves open when the database is brought up to date;             *)
(* SqliteMigration composes it with the database.                          *)
(***************************************************************************)
EXTENDS Integers, Sequences, Functions

CONSTANTS
    Name,           \* the names of tables
    NoName,         \* the NULL pointer
    MaxVersion      \* a bound on the number of migrations ever released

ASSUME NameAssumption == NoName \notin Name
ASSUME VersionAssumption == MaxVersion \in Nat

Version == 1 .. MaxVersion
NoTable == 0

VARIABLES
    latest,     \* the number of migrations in the release that is running
    history,    \* history[v]: what the migration to version v does
    ideal,      \* ideal[v]: who is called what after v migrations were run
    schema,     \* the schema in memory
    dbversion   \* Sqdb::version, the version of the database

vars == <<latest, history, ideal, schema, dbversion>>

-----------------------------------------------------------------------------
(* What a migration asks for, and what it means: the schema a developer    *)
(* reads off the list of migrations.  Each one holds one change.           *)

AddTable(n, f)    == [do |-> "add",    old |-> NoName, name |-> n,      foreign |-> f]
DropTable(n)      == [do |-> "drop",   old |-> n,      name |-> NoName, foreign |-> NoName]
RenameTable(n, m) == [do |-> "rename", old |-> n,      name |-> m,      foreign |-> NoName]

NoChange          == [do |-> "none",   old |-> NoName, name |-> NoName, foreign |-> NoName]

Change ==
    [do : {"none", "add", "drop", "rename"}, old : Name \cup {NoName},
     name : Name \cup {NoName}, foreign : Name \cup {NoName}]

Meant(named, v, c) ==
    CASE c.do = "add"  /\ named[c.name] = NoTable -> [named EXCEPT ![c.name] = v]
      [] c.do = "drop" -> [named EXCEPT ![c.old] = NoTable]
      [] c.do = "rename" /\ named[c.old] # NoTable ->
            [named EXCEPT ![c.name] = named[c.old], ![c.old] = NoTable]
      [] OTHER -> named

(* The table that the foreign key of table o was declared against.         *)
Target(o) ==
    IF history[o].foreign = NoName THEN NoTable ELSE ideal[o][history[o].foreign]

-----------------------------------------------------------------------------
(* SqSchema, its tables and its relation.                                  *)

NoNames == [o \in Version |-> NoName]

EmptySchema ==
    [version  |-> 0,
     name     |-> NoNames,      \* SqTable::name, NULL for a dropped table
     old      |-> NoNames,      \* SqTable::old_name
     created  |-> {},           \* the tables with SQB_TABLE_SQL_CREATED
     foreign  |-> NoNames,      \* SqColumn::foreign[0]
     unsynced |-> <<>>,         \* what SQ_TYPE_UNSYNCED relates to
     reentry  |-> <<>>]         \* what SQ_TYPE_REENTRY relates to

(* A record of a renaming, or the dropped table that records itself.       *)
Record(kind, o, n, m) == [kind |-> kind, table |-> o, old |-> n, name |-> m]

Records ==
    [kind : {"renamed", "dropped"}, table : Version, old : Name, name : Name \cup {NoName}]

Schemas ==
    [version : 0 .. MaxVersion,
     name : [Version -> Name \cup {NoName}],
     old : [Version -> Name \cup {NoName}],
     created : SUBSET Version,
     foreign : [Version -> Name \cup {NoName}],
     unsynced : Seq(Version),
     reentry : Seq(Records)]

IsEntry(s, o) == s.name[o] # NoName

Entries(s) == {o \in Version : IsEntry(s, o)}

(* sq_relation_add() puts the new relation in front of the others.         *)
AddUnsynced(s, o) == <<o>> \o s.unsynced

FirstOf(indices) == CHOOSE i \in indices : \A j \in indices : i <= j

(* sq_relation_trace_reentry(): the name that a table once called n has    *)
(* now, NoName if it was dropped.  A dropped table that was renamed before *)
(* it was ever created leads to the record of that renaming.               *)
Hits(s, n) == {i \in DOMAIN s.reentry : s.reentry[i].old = n}

IsTraced(s, n) == Hits(s, n) # {}

TracedName(s, n) ==
    LET hit == s.reentry[FirstOf(Hits(s, n))]
        renamings == {i \in DOMAIN s.reentry :
                        s.reentry[i].kind = "renamed" /\ s.reentry[i].table = hit.table}
    IN  CASE hit.kind = "renamed" -> s.name[hit.table]
          [] hit.kind = "dropped" /\ renamings = {} -> NoName
          [] OTHER -> s.reentry[FirstOf(renamings)].name

Resolve(s, n) ==
    IF IsTraced(s, n) /\ TracedName(s, n) # NoName THEN TracedName(s, n) ELSE n

(* sq_schema_trace_name() follows the foreign key of every table that is   *)
(* still in the schema.                                                    *)
TraceName(s) ==
    [s EXCEPT !.foreign = [o \in Version |->
        IF IsEntry(s, o) THEN Resolve(s, s.foreign[o]) ELSE s.foreign[o]]]

(* sq_schema_erase_records(schema, '?')                                    *)
EraseReentry(s) == [s EXCEPT !.reentry = <<>>]

(* sq_schema_erase_records(schema, '='): the database has it all.  What    *)
(* was dropped is freed, the old names are forgotten.                      *)
EraseRecords(s) ==
    [s EXCEPT !.reentry = <<>>, !.unsynced = <<>>, !.old = NoNames, !.created = Entries(s)]

-----------------------------------------------------------------------------
(* sq_schema_include(), one branch per kind of change.                     *)

(* Slips: nothing is settled; the records go before they were followed.    *)
ReuseAsIs(s, n) == s

ReuseUntraced(s, n) == IF IsTraced(s, n) THEN EraseReentry(s) ELSE s

(* A name comes back into use: settle who referenced its former owner.     *)
ReuseName(s, n) == IF IsTraced(s, n) THEN EraseReentry(TraceName(s)) ELSE s

(* A slip: a table is added whether or not its name is taken.              *)
AddAnyway(s, o, c) ==
    LET r == ReuseName(s, c.name)
    IN  [r EXCEPT !.name[o] = c.name,
                  !.foreign[o] = c.foreign,
                  !.unsynced = AddUnsynced(r, o)]

Add(s, o, c) ==
    IF \E p \in Version : s.name[p] = c.name THEN s
    ELSE LET r == ReuseName(s, c.name)
         IN  [r EXCEPT !.name[o] = c.name,
                       !.foreign[o] = c.foreign,
                       !.unsynced = AddUnsynced(r, o)]

Drop(s, o) ==
    [s EXCEPT !.name[o] = NoName,
              !.old[o] = IF s.old[o] = NoName THEN s.name[o] ELSE s.old[o],
              !.reentry = IF s.old[o] = NoName
                          THEN <<Record("dropped", o, s.name[o], NoName)>> \o s.reentry
                          ELSE s.reentry,
              !.unsynced = IF o \in s.created /\ o \notin Range(s.unsynced)
                           THEN AddUnsynced(s, o) ELSE s.unsynced]

(* A slip: a second renaming overwrites the name in the database.          *)
RenameForgetsFirst(s, o, n) ==
    LET r == ReuseName(s, n)
    IN  [r EXCEPT !.name[o] = n,
                  !.old[o] = IF o \in r.created THEN r.name[o] ELSE r.old[o],
                  !.reentry = <<Record("renamed", o, r.name[o], n)>> \o r.reentry,
                  !.unsynced = IF o \in r.created /\ o \notin Range(r.unsynced)
                               THEN AddUnsynced(r, o) ELSE r.unsynced]

Rename(s, o, n) ==
    LET r == ReuseName(s, n)
        first == o \in r.created /\ o \notin Range(r.unsynced)
    IN  [r EXCEPT !.name[o] = n,
                  !.old[o] = IF first /\ r.old[o] = NoName THEN r.name[o] ELSE r.old[o],
                  !.reentry = <<Record("renamed", o, r.name[o], n)>> \o r.reentry,
                  !.unsynced = IF first THEN AddUnsynced(r, o) ELSE r.unsynced]

(* A table that is to be dropped or renamed and is not there is reported   *)
(* on stderr and passed over.                                              *)
Apply(s, v, c) ==
    IF c.do = "add" THEN Add(s, v, c)
    ELSE IF \A o \in Version : s.name[o] # c.old THEN s
    ELSE LET o == CHOOSE o \in Version : s.name[o] = c.old
         IN  IF c.do = "drop" THEN Drop(s, o) ELSE Rename(s, o, c.name)

Included(s, v, c) == [Apply(s, v, c) EXCEPT !.version = v]

-----------------------------------------------------------------------------
Init ==
    /\ latest = 0
    /\ history = [v \in Version |-> NoChange]
    /\ ideal = [v \in 0 .. MaxVersion |-> [n \in Name |-> NoTable]]
    /\ schema = EmptySchema
    /\ dbversion = 0

(* The next release has one more migration.  A foreign key refers to a     *)
(* table that exists, and a table is renamed to a name that is free: the   *)
(* code relies on both.                                                    *)
Release(c) ==
    /\ latest < MaxVersion
    /\ latest' = latest + 1
    /\ history' = [history EXCEPT ![latest + 1] = c]
    /\ ideal' = [ideal EXCEPT ![latest + 1] = Meant(ideal[latest], latest + 1, c)]

Releases ==
    LET named == ideal[latest]
        exists(n) == named[n] # NoTable
    IN  \/ \E n \in Name :
              \/ Release(AddTable(n, NoName))
              \/ Release(DropTable(n))
        \/ \E n, f \in Name :
              /\ ~exists(n)
              /\ f = n \/ exists(f)
              /\ Release(AddTable(n, f))
        \/ \E n, m \in Name :
              /\ ~exists(m) /\ n # m
              /\ Release(RenameTable(n, m))

(* sqdb_sqlite_migrate() with the next schema.                             *)
Include ==
    LET v == schema.version + 1
        s == Included(schema, v, history[v])
    IN  /\ schema.version < latest
        /\ schema' = IF dbversion = v THEN EraseRecords(TraceName(s)) ELSE s
        /\ UNCHANGED <<latest, history, ideal, dbversion>>

(* A slip: foreign keys are not traced.                                    *)
BeginUntraced ==
    /\ dbversion < schema.version
    /\ UNCHANGED vars

(* What a synchronization does to the schema: before the first statement   *)
(* it traces, after the last it erases.  What was traced stays traced.     *)
BeginSync ==
    /\ dbversion < schema.version
    /\ schema' = TraceName(schema)
    /\ UNCHANGED <<latest, history, ideal, dbversion>>

EndSync ==
    /\ dbversion < schema.version
    /\ schema' = EraseRecords(TraceName(schema))
    /\ dbversion' = schema.version
    /\ UNCHANGED <<latest, history, ideal>>

(* The program starts again and opens a database of some earlier version.  *)
Restart ==
    /\ schema' = EmptySchema
    /\ dbversion' \in 0 .. dbversion
    /\ UNCHANGED <<latest, history, ideal>>

Next ==
    \/ Releases /\ UNCHANGED <<schema, dbversion>>
    \/ Include
    \/ BeginSync
    \/ EndSync
    \/ Restart

Spec == Init /\ [][Next]_vars

-----------------------------------------------------------------------------
(* Properties.                                                             *)

TypeOK ==
    /\ latest \in 0 .. MaxVersion
    /\ history \in [Version -> Change]
    /\ ideal \in [0 .. MaxVersion -> [Name -> 0 .. MaxVersion]]
    /\ schema \in Schemas
    /\ dbversion \in 0 .. MaxVersion

(* Whatever was added, renamed and dropped, and however often the records  *)
(* were erased on the way, the schema in memory holds the tables that the  *)
(* migrations run so far mean, each under the name they give it.           *)
SchemaIsMeant ==
    \A n \in Name, o \in Version :
        schema.name[o] = n <=> ideal[schema.version][n] = o

(* sq_relation_trace_reentry() never mistakes a table of today for one     *)
(* that lost its name: the name of an entry of the schema is not traced,   *)
(* and a lost name is traced to one record only.                           *)
TraceIsUnambiguous ==
    /\ \A o \in Entries(schema) : ~IsTraced(schema, schema.name[o])
    /\ \A i, j \in DOMAIN schema.reentry :
          schema.reentry[i].old = schema.reentry[j].old => i = j

(* A foreign key still leads, by tracing, to the table it was declared     *)
(* against, under the name that table has now, as long as both exist:      *)
(* also when its name was given to another table in the meantime.          *)
ReferencesFollow ==
    \A o, t \in Entries(schema) :
        Target(o) = t => Resolve(schema, schema.foreign[o]) = schema.name[t]

InDatabase(o) == \E n \in Name : ideal[dbversion][n] = o

(* What has still to be told to the database is on record, once: nothing   *)
(* for a table that is there unchanged, its name in the database for one   *)
(* that was renamed or dropped since, and every table that is missing.     *)
PendingIsRecorded ==
    LET pending == Range(schema.unsynced)
    IN  /\ \A i, j \in DOMAIN schema.unsynced :
              schema.unsynced[i] = schema.unsynced[j] => i = j
        /\ \A o \in Entries(schema) \ schema.created :
              o \in pending /\ schema.old[o] = NoName
        /\ schema.version >= dbversion =>
              /\ \A o \in Version : o \in schema.created <=> InDatabase(o)
              /\ \A n \in Name, o \in Version :
                    ideal[dbversion][n] = o =>
                       \/ o \in pending /\ schema.old[o] = n
                       \/ o \notin pending /\ schema.old[o] = NoName /\ schema.name[o] = n
=============================================================================
