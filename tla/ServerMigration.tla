--------------------------- MODULE ServerMigration ---------------------------
(***************************************************************************)
(* The migration of a MySQL or PostgreSQL database.  Unlike SQLite, every  *)
(* migration is executed at once, statement by statement and in no         *)
(* transaction, and included into the schema in memory afterwards.         *)
(*                                                                         *)
(* The statements are made from the migration and from the schema as it    *)
(* was before it.  What happens after one that fails depends on the driver *)
(* and on the statement: the rest of the migration is given up, the rest   *)
(* of the table, or nothing.  The version is stored in any case.           *)
(*                                                                         *)
(* Left out: constraints and foreign keys, whose statements take the same  *)
(* ways; comments, which are a build option.                               *)
(***************************************************************************)
EXTENDS Integers, Sequences, SequencesExt, Functions, TLC

CONSTANTS
    Product,        \* the servers: a subset of {"MYSQL", "POSTGRE"}
    Table, Column,  \* the names of tables and of columns
    NoName,         \* the NULL pointer
    First,          \* the column that every table is created with
    MaxVersion,     \* a bound on the migrations released
    MaxChanges,     \* a bound on the changes they make
    MaxFaults       \* a bound on crashes and refused statements

ASSUME ServerAssumption ==
    /\ Product \subseteq {"MYSQL", "POSTGRE"}
    /\ First \in Column /\ NoName \notin Table \cup Column
    /\ MaxVersion \in Nat \ {0} /\ MaxChanges \in Nat /\ MaxFaults \in Nat

VARIABLES
    product,        \* the driver in use
    history,        \* history[v]: the changes of the migration to version v
    ideal,          \* ideal[v]: the tables that v migrations mean
    stored,         \* the row of the table "sqdb_migrations"
    db,             \* the tables of the database
    dbversion,      \* Sqdb::version
    schema,         \* the schema in memory
    pc,             \* "down", "idle" or "running" a migration
    change, step,   \* the change of it, and the statement, that are next
    has_error,      \* as in the code
    code,           \* what the last migration returned
    tainted,        \* the tables that failed or skipped statements were about
    unstored,       \* a migration that was executed and whose version was not
                    \* stored; 0 if none
    faults

vars == <<product, history, ideal, stored, db, dbversion, schema, pc, change, step,
          has_error, code, tainted, unstored, faults>>

latest == Len(history)

-----------------------------------------------------------------------------
(* Changes.  A column is "stamped" if it is ON UPDATE CURRENT_TIMESTAMP.   *)
(* def tells which change defined a column last.                           *)

Create(t, stamped, indexed) ==
    [do |-> "create", table |-> t, stamped |-> stamped, indexed |-> indexed]
DropTable(t) == [do |-> "drop", table |-> t]
RenameTable(t, u) == [do |-> "rename", table |-> t, to |-> u]
Alter(t, cs) == [do |-> "alter", table |-> t, columns |-> cs]

AddColumn(n, stamped) == [do |-> "add", name |-> n, stamped |-> stamped]
AlterColumn(n, stamped) == [do |-> "alter", name |-> n, stamped |-> stamped]
DropColumn(n) == [do |-> "drop", name |-> n]
RenameColumn(n, m) == [do |-> "rename", name |-> n, to |-> m]

Def(v, i, j) == <<v, i, j>>
Undeclared == <<0, 0, 0>>       \* VARCHAR NOT NULL, of a column with no type

Declared(d, stamped) == [def |-> d, stamped |-> stamped]

With(f, k, e) == [x \in DOMAIN f \cup {k} |-> IF x = k THEN e ELSE f[x]]
Without(f, k) == Restrict(f, DOMAIN f \ {k})
Moved(f, k, m) == With(Without(f, k), m, f[k])

-----------------------------------------------------------------------------
(* The schema in memory: sq_schema_update(), which passes over what is not *)
(* there.  An index is kept until sqdb_migrate() is called without a       *)
(* schema; here to the end, to tell what the database should have.         *)

EmptySchema == [version |-> 0, tables |-> <<>>]

UpdatedColumns(t, c, d) ==
    LET cs == t.columns
        named(from, to) == IF t.index = from THEN to ELSE t.index
        there == c.name \in DOMAIN cs
    IN  CASE c.do = "alter" /\ there ->
                [t EXCEPT !.columns = With(cs, c.name, Declared(d, c.stamped))]
          [] c.do = "drop" /\ there ->
                [columns |-> Without(cs, c.name), index |-> named(c.name, NoName)]
          [] c.do = "rename" /\ there ->
                [columns |-> Moved(cs, c.name, c.to), index |-> named(c.name, c.to)]
          [] c.do = "add" /\ ~there ->
                [t EXCEPT !.columns = With(cs, c.name, Declared(d, c.stamped))]
          [] OTHER -> t

(* The table after each of the changes of its columns.                     *)
TableAfter(t, c, v, i) ==
    LET after[j \in 0 .. Len(c.columns)] ==
            IF j = 0 THEN t ELSE UpdatedColumns(after[j - 1], c.columns[j], Def(v, i, j))
    IN  after

UpdatedTable(t, c, v, i) == TableAfter(t, c, v, i)[Len(c.columns)]

NewTable(c, d) ==
    [columns |-> [n \in {First} |-> Declared(d, c.stamped)],
     index   |-> IF c.indexed THEN First ELSE NoName]

UpdatedTables(ts, c, v, i) ==
    LET there == c.table \in DOMAIN ts
    IN  CASE c.do = "alter" /\ there ->
                With(ts, c.table, UpdatedTable(ts[c.table], c, v, i))
          [] c.do = "drop" /\ there -> Without(ts, c.table)
          [] c.do = "rename" /\ there -> Moved(ts, c.table, c.to)
          [] c.do = "create" /\ ~there -> With(ts, c.table, NewTable(c, Def(v, i, 0)))
          [] OTHER -> ts

(* The tables after each change of m, the migration to version v.          *)
TablesAfter(ts, m, v) ==
    LET after[i \in 0 .. Len(m)] ==
            IF i = 0 THEN ts ELSE UpdatedTables(after[i - 1], m[i], v, i)
    IN  after

UpdatedTo(ts, m, v) == TablesAfter(ts, m, v)[Len(m)]

Updated(s, v) == [version |-> v, tables |-> UpdatedTo(s.tables, history[v], v)]

-----------------------------------------------------------------------------
(* The statements of a migration.                                          *)
(*   after |-> what is given up when it fails: "migration", "table" (the   *)
(*   rest of this table's columns) or "none"                               *)

StampedOf(t) == {n \in DOMAIN t.columns : t.columns[n].stamped}

(* The columns that the schema has, of a table that it perhaps has not.    *)
Known(ts, t) == IF t \in DOMAIN ts THEN ts[t].columns ELSE <<>>

(* "CREATE TABLE" and what depends on it.  MySQL: the result of            *)
(* sqdb_exec_create_index() is not looked at; PostgreSQL: indexes and      *)
(* triggers are one more query.                                            *)
CreateStatements(c, d) ==
    LET create == [sql |-> "CREATE TABLE", table |-> c.table, after |-> "migration",
                   name |-> First, column |-> Declared(d, c.stamped)]
        depend == [sql |-> "CREATE INDEX", table |-> c.table,
                   after |-> IF product = "MYSQL" THEN "none" ELSE "migration",
                   index |-> IF c.indexed THEN First ELSE NoName,
                   triggers |-> IF product = "POSTGRE" /\ c.stamped
                                THEN {<<c.table, First>>} ELSE {}]
    IN  IF depend.index = NoName /\ depend.triggers = {} THEN <<create>> ELSE <<create, depend>>

(* PostgreSQL drops the triggers of the table first, as the schema has it. *)
DropStatement(ts, c) ==
    [sql |-> "DROP TABLE", table |-> c.table, after |-> "migration",
     triggers |-> IF product = "POSTGRE" THEN {<<c.table, n>> : n \in StampedOf(ts[c.table])}
                  ELSE {}]

RenameStatement(c) ==
    [sql |-> "RENAME TABLE", table |-> c.table, to |-> c.to, after |-> "migration"]

(* MySQL leaves the loop over the columns at the first that fails.         *)
AfterColumn == IF product = "MYSQL" THEN "table" ELSE "none"

(* A slip: MySQL gives a renamed column the definition of the record.      *)
RenamedBare(ts, t, c) ==
    [sql |-> "RENAME COLUMN", table |-> t, after |-> AfterColumn, name |-> c.name, to |-> c.to,
     column |-> Declared(Undeclared, FALSE)]

(* MySQL's CHANGE COLUMN repeats the definition, which is looked up in the *)
(* schema by the old names.                                                *)
RenamedColumn(ts, t, c) ==
    [sql |-> "RENAME COLUMN", table |-> t, after |-> AfterColumn, name |-> c.name, to |-> c.to,
     column |-> IF c.name \in DOMAIN Known(ts, t) THEN Known(ts, t)[c.name]
                ELSE Declared(Undeclared, FALSE)]

(* A slip: PostgreSQL drops a column without its trigger.                  *)
DroppedAlone(ts, t, c) ==
    [sql |-> "DROP COLUMN", table |-> t, after |-> AfterColumn, name |-> c.name, triggers |-> {}]

DroppedColumn(ts, t, c) ==
    [sql |-> "DROP COLUMN", table |-> t, after |-> AfterColumn, name |-> c.name,
     triggers |-> IF product = "POSTGRE" /\ c.name \in DOMAIN Known(ts, t)
                     /\ Known(ts, t)[c.name].stamped
                  THEN {<<t, c.name>>} ELSE {}]

AddedColumn(t, c, d) ==
    [sql |-> "ADD COLUMN", table |-> t, after |-> AfterColumn, name |-> c.name,
     column |-> Declared(d, c.stamped),
     triggers |-> IF product = "POSTGRE" /\ c.stamped THEN {<<t, c.name>>} ELSE {}]

(* PostgreSQL's ALTER COLUMN writes what differs from the column in the    *)
(* schema; without that column the statement is empty, and without the     *)
(* table it leaves the loop over the columns.                              *)
AlteredColumn(ts, t, c, d) ==
    [sql |-> CASE product = "MYSQL" \/ c.name \in DOMAIN Known(ts, t) -> "ALTER COLUMN"
               [] product = "POSTGRE" /\ t \notin DOMAIN ts -> "unknown"
               [] OTHER -> "nothing",
     table |-> t, after |-> IF t \notin DOMAIN ts THEN "table" ELSE AfterColumn,
     name |-> c.name, column |-> Declared(d, c.stamped)]

ColumnStatement(ts, t, c, d) ==
    CASE c.do = "alter" -> AlteredColumn(ts, t, c, d)
      [] c.do = "drop" -> DroppedColumn(ts, t, c)
      [] c.do = "rename" -> RenamedColumn(ts, t, c)
      [] c.do = "add" -> AddedColumn(t, c, d)

(* The statements for the i-th change of a migration.                      *)
Statements(ts, c, v, i) ==
    CASE c.do = "create" -> CreateStatements(c, Def(v, i, 0))
      [] c.do = "drop" -> <<DropStatement(ts, c)>>
      [] c.do = "rename" -> <<RenameStatement(c)>>
      [] c.do = "alter" -> [j \in DOMAIN c.columns |->
                              ColumnStatement(ts, c.table, c.columns[j], Def(v, i, j))]

-----------------------------------------------------------------------------
(* What the server makes of a statement.  It refuses to make what is there *)
(* and to touch what is not; several statements in one query of            *)
(* PostgreSQL are one transaction.                                         *)

CanExecute(d, s) ==
    LET there == s.table \in DOMAIN d
        has(n) == there /\ n \in DOMAIN d[s.table].columns
    IN  CASE s.sql = "CREATE TABLE" -> ~there
          [] s.sql = "CREATE INDEX" -> /\ there /\ s.triggers \cap d[s.table].triggers = {}
                                       /\ s.index # NoName => has(s.index)
          [] s.sql = "DROP TABLE" -> there /\ s.triggers \subseteq d[s.table].triggers
          [] s.sql = "RENAME TABLE" -> there /\ s.to \notin DOMAIN d
          [] s.sql = "ADD COLUMN" -> there /\ ~has(s.name) /\ s.triggers \cap d[s.table].triggers = {}
          [] s.sql = "ALTER COLUMN" -> has(s.name)
          [] s.sql = "DROP COLUMN" -> has(s.name) /\ s.triggers \subseteq d[s.table].triggers
          [] s.sql = "RENAME COLUMN" -> has(s.name) /\ ~has(s.to)
          [] s.sql = "nothing" -> TRUE
          [] s.sql = "unknown" -> FALSE

(* Only MySQL knows of ON UPDATE in a column.                              *)
InServer(column) == [column EXCEPT !.stamped = @ /\ product = "MYSQL"]

ExecutedTable(t, s) ==
    LET cs == t.columns
        named(to) == IF t.index = s.name THEN to ELSE t.index
    IN  CASE s.sql = "CREATE INDEX" ->
                [t EXCEPT !.index = s.index, !.triggers = @ \cup s.triggers]
          [] s.sql = "ADD COLUMN" ->
                [t EXCEPT !.columns = With(cs, s.name, InServer(s.column)),
                          !.triggers = @ \cup s.triggers]
          [] s.sql = "ALTER COLUMN" ->
                [t EXCEPT !.columns = With(cs, s.name, InServer(s.column))]
          [] s.sql = "DROP COLUMN" ->
                [columns |-> Without(cs, s.name), index |-> named(NoName),
                 triggers |-> t.triggers \ s.triggers]
          [] s.sql = "RENAME COLUMN" ->
                [t EXCEPT !.columns = IF product = "MYSQL"
                                      THEN With(Without(cs, s.name), s.to, s.column)
                                      ELSE Moved(cs, s.name, s.to),
                          !.index = named(s.to)]

Executed(d, s) ==
    CASE s.sql = "CREATE TABLE" ->
            With(d, s.table, [columns |-> [n \in {s.name} |-> InServer(s.column)],
                              index |-> NoName, triggers |-> {}])
      [] s.sql = "DROP TABLE" -> Without(d, s.table)
      [] s.sql = "RENAME TABLE" -> Moved(d, s.table, s.to)
      [] s.sql = "nothing" -> d
      [] OTHER -> With(d, s.table, ExecutedTable(d[s.table], s))

About(c) == IF c.do = "rename" THEN {c.table, c.to} ELSE {c.table}

-----------------------------------------------------------------------------
Init ==
    /\ product \in Product
    /\ history = <<>> /\ ideal = [v \in {0} |-> <<>>]
    /\ stored = 0 /\ db = <<>>
    /\ dbversion = 0 /\ schema = EmptySchema
    /\ pc = "down" /\ change = 1 /\ step = 1 /\ has_error = FALSE /\ code = "OK"
    /\ tainted = {} /\ unstored = 0 /\ faults = 0

release == <<product, history, ideal>>
memory == <<dbversion, schema>>
server == <<stored, db>>
running == <<change, step, has_error, code>>
ghosts == <<tainted, unstored, faults>>

(* A new program opens the database.                                       *)
Open ==
    /\ pc = "down"
    /\ pc' = "idle"
    /\ dbversion' = stored
    /\ schema' = EmptySchema
    /\ UNCHANGED <<release, server, running, ghosts>>

(* sqdb_migrate() with a migration that the database has already.          *)
Include ==
    LET v == schema.version + 1
    IN  /\ pc = "idle" /\ v <= latest
        /\ dbversion >= v
        /\ schema' = Updated(schema, v)
        /\ code' = "OK"
        /\ UNCHANGED <<release, server, dbversion, pc, change, step, has_error, ghosts>>

(* ...and with one that is new.                                            *)
Begin ==
    LET v == schema.version + 1
    IN  /\ pc = "idle" /\ v <= latest
        /\ dbversion < v
        /\ pc' = "running"
        /\ change' = 1 /\ step' = 1
        /\ has_error' = FALSE
        /\ UNCHANGED <<release, server, memory, code, ghosts>>

Migration == history[schema.version + 1]
Ongoing == Statements(schema.tables, Migration[change], schema.version + 1, change)

IsThrough == change > Len(Migration)

Advance ==
    IF step < Len(Ongoing) THEN change' = change /\ step' = step + 1
    ELSE change' = change + 1 /\ step' = 1

(* What a statement that was executed leaves to be wrong.                  *)
Untainted(s) ==
    CASE s.sql = "DROP TABLE" -> tainted \ {s.table}
      [] s.sql = "RENAME TABLE" /\ s.table \in tainted -> (tainted \ {s.table}) \cup {s.to}
      [] OTHER -> tainted

Succeed ==
    LET s == Ongoing[step]
    IN  /\ pc = "running" /\ ~IsThrough
        /\ CanExecute(db, s)
        /\ db' = Executed(db, s)
        /\ Advance
        /\ tainted' = Untainted(s)
        /\ UNCHANGED <<release, stored, memory, pc, has_error, code, unstored, faults>>

(* What is given up when s fails.                                          *)
GiveUp(s) ==
    CASE s.after = "migration" -> change' = Len(Migration) + 1 /\ step' = 1
      [] s.after = "table" -> change' = change + 1 /\ step' = 1
      [] s.after = "none" -> Advance

Lost(s) ==
    LET last == IF s.after = "migration" THEN Len(Migration) ELSE change
    IN  UNION {About(Migration[i]) : i \in change .. last}

(* A statement cannot be executed, or is refused for another reason.  That *)
(* nothing is lost when it was executed already is IsRepeatable.           *)
Fail ==
    LET s == Ongoing[step]
    IN  /\ pc = "running" /\ ~IsThrough
        /\ \/ ~CanExecute(db, s) /\ faults' = faults
           \/ CanExecute(db, s) /\ faults < MaxFaults /\ faults' = faults + 1
        /\ GiveUp(s)
        /\ has_error' = (has_error \/ s.after = "migration")
        /\ tainted' = IF unstored = schema.version + 1 THEN tainted ELSE tainted \cup Lost(s)
        /\ UNCHANGED <<release, server, memory, pc, code, unstored>>

(* The limits within which a migration may be executed again: it is one    *)
(* statement, which the server then refuses, and the only one to be        *)
(* executed again.  (After x was renamed to y, z to x and y to z, none of  *)
(* the three would be refused.)                                            *)
IsRepeatable(v) ==
    Len(history[v]) = 1 /\ Len(Statements(schema.tables, history[v][1], v, 1)) = 1
NoOtherUnstored(v) == unstored \in {0, v}

FinishWith(v, version) ==
    /\ pc = "running" /\ IsThrough
    /\ dbversion' = v
    /\ stored' = version
    /\ unstored' = IF version = v THEN 0 ELSE v
    /\ schema' = Updated(schema, v)
    /\ code' = IF has_error THEN "EXEC_ERROR" ELSE "OK"
    /\ pc' = IF has_error THEN "down" ELSE "idle"
    /\ change' = 1 /\ step' = 1
    /\ UNCHANGED <<release, db, has_error, tainted>>

(* A slip: the version of a migration that failed is not stored.           *)
FinishIfExecuted ==
    /\ FinishWith(schema.version + 1, IF has_error THEN stored ELSE schema.version + 1)
    /\ UNCHANGED faults

(* The version is stored and the schema updated whatever has failed.  A    *)
(* program that is told of an error ends.                                  *)
Finish ==
    /\ FinishWith(schema.version + 1, schema.version + 1)
    /\ UNCHANGED faults

(* The statement that stores the version is refused: nobody looks.         *)
FinishUnstored ==
    /\ pc = "running"
    /\ IsRepeatable(schema.version + 1) /\ NoOtherUnstored(schema.version + 1)
    /\ faults < MaxFaults /\ faults' = faults + 1
    /\ FinishWith(schema.version + 1, stored)

(* The program ends, having included its release.                          *)
Close ==
    /\ pc = "idle" /\ schema.version = latest
    /\ pc' = "down"
    /\ UNCHANGED <<release, server, memory, running, ghosts>>

(* The process dies, and the database keeps what was executed.             *)
Crash ==
    LET v == schema.version + 1
    IN  /\ pc = "running"
        /\ IsRepeatable(v) \/ (change = 1 /\ step = 1)
        /\ IsThrough /\ ~has_error => NoOtherUnstored(v)
        /\ faults < MaxFaults /\ faults' = faults + 1
        /\ pc' = "down"
        /\ change' = 1 /\ step' = 1 /\ has_error' = FALSE
        /\ unstored' = IF IsThrough /\ ~has_error THEN v ELSE unstored
        /\ UNCHANGED <<release, server, memory, code, tainted>>

-----------------------------------------------------------------------------
(* The next release has one more migration, of one change or two.  What is *)
(* made has a free name, and what is changed is there.                     *)

ColumnChanges(t) ==
    LET cs == DOMAIN t.columns
    IN  {AddColumn(n, st) : n \in Column \ cs, st \in BOOLEAN}
        \cup {AlterColumn(n, st) : n \in cs, st \in BOOLEAN}
        \cup {DropColumn(n) : n \in cs}
        \cup {RenameColumn(n, m) : n \in cs, m \in Column \ cs}

(* The limits within which a change is executed as it is meant, with       *)
(*   ts |-> the schema that the statements are made from                   *)
(*   t  |-> the table when the change is made                              *)

(* MySQL: a renamed column is still what the schema has by its name, or    *)
(* its definition is lost.                                                 *)
RenamesAreOfStored(ts, name, t, c) ==
    product = "MYSQL" /\ c.do = "rename" =>
        c.name \in DOMAIN Known(ts, name) /\ Known(ts, name)[c.name] = t.columns[c.name]

(* PostgreSQL: an altered column is one that the schema has, or nothing is *)
(* executed.                                                               *)
AltersAreOfStored(ts, name, t, c) ==
    product = "POSTGRE" /\ c.do = "alter" => c.name \in DOMAIN Known(ts, name)

(* PostgreSQL: a table that is dropped or loses a column is one that the   *)
(* schema has (a NULL pointer is followed otherwise), with its triggers.   *)
DropsAreOfStored(ts, name, t, c) ==
    product = "POSTGRE" /\ c.do = "drop" =>
        /\ name \in DOMAIN ts
        /\ StampedOf(ts[name]) = StampedOf(t)

(* PostgreSQL: triggers and their functions keep the names that they were  *)
(* made with, and altering a column makes and drops none.                  *)
StampsStay(ts, name, t, c) ==
    product = "POSTGRE" =>
        /\ c.do = "rename" => c.name \notin StampedOf(t)
        /\ c.do = "alter" => (c.stamped <=> c.name \in StampedOf(t))

IsWithinLimits(ts, name, t, c) ==
    /\ RenamesAreOfStored(ts, name, t, c)
    /\ AltersAreOfStored(ts, name, t, c)
    /\ DropsAreOfStored(ts, name, t, c)
    /\ StampsStay(ts, name, t, c)

TableIsWithinLimits(ts, t, c) ==
    product = "POSTGRE" =>
        /\ c.do = "drop" => c.table \in DOMAIN ts /\ StampedOf(ts[c.table]) = StampedOf(t)
        /\ c.do = "rename" => StampedOf(t) = {}

Alterations(ts, now, name, v, i) ==
    LET t == now[name]
        first == {c \in ColumnChanges(t) : IsWithinLimits(ts, name, t, c)}
        then(c) == UpdatedColumns(t, c, Def(v, i, 1))
    IN  {Alter(name, <<c>>) : c \in first}
        \cup UNION {{Alter(name, <<c, d>>) :
                        d \in {d \in ColumnChanges(then(c)) :
                                 IsWithinLimits(ts, name, then(c), d)}} : c \in first}

Changes(ts, now, v, i) ==
    LET free == Table \ DOMAIN now
        whole == {DropTable(t) : t \in DOMAIN now}
                 \cup {RenameTable(t, u) : t \in DOMAIN now, u \in free}
    IN  {Create(t, st, ix) : t \in free, st \in BOOLEAN, ix \in BOOLEAN}
        \cup {c \in whole : TableIsWithinLimits(ts, now[c.table], c)}
        \cup UNION {Alterations(ts, now, t, v, i) : t \in DOMAIN now}

Weight(c) == IF c.do = "alter" THEN Len(c.columns) ELSE 1

WeightOf(m) == FoldLeft(LAMBDA n, c : n + Weight(c), 0, m)

Weights == FoldLeft(LAMBDA n, m : n + WeightOf(m), 0, history)

Release(m) ==
    /\ Weights + WeightOf(m) <= MaxChanges
    /\ history' = Append(history, m)
    /\ ideal' = With(ideal, latest + 1, UpdatedTo(ideal[latest], m, latest + 1))
    /\ UNCHANGED <<product, server, memory, pc, running, ghosts>>

ReleaseSome ==
    LET v == latest + 1
        ts == ideal[latest]
    IN  /\ pc = "down" /\ latest < MaxVersion /\ Weights < MaxChanges
        /\ \E c \in Changes(ts, ts, v, 1) :
            \/ Release(<<c>>)
            \/ /\ Weights + Weight(c) < MaxChanges
               /\ \E d \in Changes(ts, UpdatedTables(ts, c, v, 1), v, 2) :
                    Release(<<c, d>>)

Program == Open \/ Include \/ Begin \/ Succeed \/ Fail \/ Finish \/ Close

Next == ReleaseSome \/ Program \/ FinishUnstored \/ Crash

Spec == Init /\ [][Next]_vars

(* The program is started again after it ended and runs as far as it gets. *)
FairSpec == Spec /\ WF_vars(Program)

-----------------------------------------------------------------------------
(* Properties.                                                             *)

(* The types of the variables; a version is stored only when a migration   *)
(* ended, and an error is known only while one runs.                       *)
TypeOK ==
    /\ product \in Product
    /\ latest <= MaxVersion
    /\ stored \in 0 .. latest /\ dbversion \in 0 .. latest
    /\ schema.version \in 0 .. latest
    /\ pc \in {"down", "idle", "running"}
    /\ has_error \in BOOLEAN /\ code \in {"OK", "EXEC_ERROR"}
    /\ DOMAIN schema.tables \subseteq Table /\ DOMAIN db \subseteq Table
    /\ \A t \in DOMAIN db :
          /\ DOMAIN db[t].columns \subseteq Column
          /\ db[t].index \in DOMAIN db[t].columns \cup {NoName}
    /\ tainted \subseteq Table
    /\ unstored \in 0 .. latest /\ faults \in 0 .. MaxFaults

(* A table of the database that is what the schema says.                   *)
AsInSchema(name, t) ==
    [columns  |-> [n \in DOMAIN t.columns |-> InServer(t.columns[n])],
     index    |-> t.index,
     triggers |-> IF product = "POSTGRE" THEN {<<name, n>> : n \in StampedOf(t)} ELSE {}]

(* When the migrations of the release are done, the database has the       *)
(* tables of the schema, each with its columns as they were defined last,  *)
(* its index and its triggers, except the tables that a failed or skipped  *)
(* statement was about: a failure damages only those, and a crash none.    *)
OthersAgree ==
    /\ TypeOK
    /\ pc = "idle" /\ schema.version = latest =>
        \A t \in Table \ tainted :
            /\ t \in DOMAIN db <=> t \in DOMAIN schema.tables
            /\ t \in DOMAIN db => db[t] = AsInSchema(t, schema.tables[t])

(* Whatever is released within the limits, no statement is refused before  *)
(* there was a fault: each finds what it changes, with the name and the    *)
(* triggers that it has by then, and finds free what it makes.             *)
RefusalsHaveCauses == faults = 0 => tainted = {} /\ ~has_error /\ code = "OK"

(* A program always reaches the version of its release, whatever failed:   *)
(* it does not run into the same failure at every start.                   *)
VersionArrives == <>[](stored = latest)
=============================================================================
