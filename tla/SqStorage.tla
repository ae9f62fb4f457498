------------------------------ MODULE SqStorage ------------------------------
(***************************************************************************)
(* SqStorage: rows of a table as C structures, written through the output  *)
(* chain (SqxcSql.c) and read through the input chain.                     *)
(*                                                                         *)
(* Every call of SqStorage.c is one action: nothing in the library runs    *)
(* concurrently.  What one call leaves behind for the next is the hazard:  *)
(* the output chain keeps a WHERE condition and a list of columns in       *)
(* SqxcSql, the condition of sq_storage_update() points into the buffer    *)
(* of the INPUT chain, and all of it is reset only on the path of          *)
(* SQXC_CTRL_FINISH that an accepted statement takes.                      *)
(*                                                                         *)
(* The database is external: it executes a statement whole or refuses it,  *)
(* because the statement makes no sense or for reasons of its own.         *)
(***************************************************************************)
EXTENDS Integers, FiniteSets

CONSTANTS
    Ids,            \* primary keys, positive
    Fields,         \* the columns other than the primary key
    Primary,        \* the primary key column, SQB_COLUMN_AUTOINCREMENT
    Kind,           \* plain; created (CURRENT), updated (CURRENT_ALL); query
    Contents,       \* what a column holds
    Zero, Now,      \* a zero value, and what CURRENT_TIMESTAMP puts there
    NoRow,
    NoCondition,    \* SqxcSql.condition is NULL
    Requests,       \* columns that calls of update_all name
    InInput,        \* it points to the memory of the input chain's buffer
    Select,         \* that buffer holds a SELECT statement
    MaxRefusals     \* bound on refusals that are the database's own

Kinds == {"plain", "created", "updated", "query"}

ASSUME IdsAssumption == Ids \subseteq Nat \ {0} /\ IsFiniteSet(Ids)
ASSUME FieldsAssumption == Primary \notin Fields /\ Kind \in [Fields -> Kinds]
ASSUME RequestsAssumption == Requests \subseteq SUBSET (Fields \cup {Primary})
ASSUME ContentsAssumption == {Zero, Now} \subseteq Contents
ASSUME MarksAssumption ==
    /\ NoRow \notin [Fields -> Contents]
    /\ {NoCondition, InInput, Select} \cap SUBSET Ids = {}
    /\ NoCondition # InInput /\ NoCondition # Select /\ InInput # Select
ASSUME BoundsAssumption == MaxRefusals \in Nat

Columns == Fields \cup {Primary}
Row == [Fields -> Contents]
Calls == {"none", "get", "insert", "update", "updateAll", "remove", "elsewhere"}

VARIABLES
    rows,           \* the table: id -> row
    condition,      \* SqxcSql.condition
    columns,        \* SqxcSql.columns
    input,          \* text in the input chain's buffer: WHERE these ids
    refusals,
    owed,           \* history: ids that refused updates named and the
                    \* chain was not cleared of
    call            \* the last call, its arguments and its result

chain == <<condition, columns, input, owed>>
vars == <<rows, chain, refusals, call>>

\* The result of a call whose statement did not run is what the database
\* last reported, the id or the number of changes of an earlier statement;
\* no id, whatever it was.
Earlier == -1

Blank == [f \in Fields |-> Zero]
Present == {i \in Ids : rows[i] # NoRow}

\* sq_storage_init(), on an open database.
Init ==
    /\ rows = [i \in Ids |-> NoRow]
    /\ condition = NoCondition
    /\ columns = {}
    /\ input = Select
    /\ refusals = 0
    /\ owed = {}
    /\ call = [op |-> "none", refused |-> FALSE, where |-> {}, asked |-> {},
               row |-> Blank, ret |-> 0]

Called(op, refused, where, asked, row, ret) ==
    call' = [op |-> op, refused |-> refused, where |-> where,
             asked |-> asked, row |-> row, ret |-> ret]

-----------------------------------------------------------------------------
(***************************************************************************)
(* What SqxcSql writes of a structure (sqxc_sql_send_insert_command(),     *)
(* sqxc_sql_send_update_command()).                                        *)
(***************************************************************************)

\* Columns that SQL does not get: query-only ones, and times left to
\* DEFAULT CURRENT_TIMESTAMP.
IsLeftOut(f, value) ==
    \/ Kind[f] = "query"
    \/ Kind[f] \in {"created", "updated"} /\ value = Zero

\* The slip: the columns of an earlier update select those of an insert too.
InsertedOfColumns(row) ==
    {f \in Fields : ~IsLeftOut(f, row[f]) /\ (columns = {} \/ f \in columns)}

Inserted(row) == {f \in Fields : ~IsLeftOut(f, row[f])}

\* The columns an UPDATE sets, when the chain was given `cols'.
Updated(row, cols) ==
    {f \in Fields : ~IsLeftOut(f, row[f]) /\ (cols = {} \/ f \in cols)}

\* DEFAULT CURRENT_TIMESTAMP and the trigger of a column that is current on
\* update, in the database.
StoredRow(row) ==
    [f \in Fields |->
        IF f \in Inserted(row) THEN row[f]
        ELSE IF Kind[f] = "query" THEN Zero ELSE Now]

UpdatedRow(old, row, cols) ==
    [f \in Fields |->
        IF Kind[f] = "updated" THEN Now
        ELSE IF f \in Updated(row, cols) THEN row[f] ELSE old[f]]

-----------------------------------------------------------------------------
(***************************************************************************)
(* SQXC_CTRL_FINISH and sqdb_sqlite_exec().                                *)
(***************************************************************************)

\* FINISH after an accepted statement resets what an update was given.
ClearChain ==
    /\ condition' = NoCondition
    /\ columns' = {}
    /\ owed' = {}

\* FINISH after a refused one returns before the reset.
KeepChain(cond, cols, where) ==
    /\ condition' = cond
    /\ columns' = cols
    /\ owed' = owed \cup where

\* The database may refuse a statement that makes sense: a constraint, a
\* trigger, a lock, a full disk.
MayRefuse ==
    /\ refusals < MaxRefusals
    /\ refusals' = refusals + 1

\* The WHERE of the statement, as the pointer reads when it is sent.
TextAt(cond, buffer) == IF cond = InInput THEN buffer ELSE cond

Affected(text) == text \cap Present

AcceptUpdate(text, row, cols) ==
    /\ rows' = [i \in Ids |-> IF i \in Affected(text)
                              THEN UpdatedRow(rows[i], row, cols) ELSE rows[i]]
    /\ ClearChain
    /\ UNCHANGED refusals

\* UPDATE with the condition and the columns the chain now has.  A statement
\* that sets nothing, or whose WHERE reads as a SELECT, is not SQL: it does
\* not start, and the changes reported are those of the statement before.
SendUpdate(op, where, asked, row, cond, cols, buffer) ==
    LET text == TextAt(cond, buffer)
        makesSense == text # Select /\ Updated(row, cols) # {}
    IN /\ input' = buffer
       /\ \/ /\ makesSense
             /\ AcceptUpdate(text, row, cols)
             /\ Called(op, FALSE, where, asked, row, Cardinality(Affected(text)))
          \/ /\ makesSense
             /\ MayRefuse
             /\ rows' = rows
             /\ KeepChain(cond, cols, where)
             /\ Called(op, TRUE, where, asked, row, 0)
          \/ /\ ~makesSense
             /\ UNCHANGED <<rows, refusals>>
             /\ KeepChain(cond, cols, where)
             /\ Called(op, TRUE, where, asked, row, Earlier)

-----------------------------------------------------------------------------
(***************************************************************************)
(* The calls.                                                              *)
(***************************************************************************)

\* sq_storage_insert(): the id of the structure is written unless it is 0,
\* when the database gives one.  The result is last_insert_rowid, which a
\* refused statement does not move.
Insert ==
    \E row \in Row, id \in Ids :
        \/ /\ rows[id] = NoRow
           /\ rows' = [rows EXCEPT ![id] = StoredRow(row)]
           /\ ClearChain
           /\ Called("insert", FALSE, {id}, {}, row, id)
           /\ UNCHANGED <<input, refusals>>
        \/ /\ IF rows[id] # NoRow THEN UNCHANGED refusals ELSE MayRefuse
           /\ Called("insert", TRUE, {id}, {}, row, Earlier)
           /\ UNCHANGED <<rows, chain>>

\* The slip: a condition in the buffer is taken for a fresh one.
UpdateWhereItWas ==
    \E row \in Row, id \in Ids :
        SendUpdate("update", {id}, {}, row, InInput, columns,
                   IF input = Select THEN {id} ELSE input)

\* sq_storage_update(): WHERE primary key = id is made in the input chain's
\* buffer, unless the chain has a condition already.
Update ==
    \E row \in Row, id \in Ids :
        IF condition = NoCondition
        THEN SendUpdate("update", {id}, {}, row, InInput, columns, {id})
        ELSE SendUpdate("update", {id}, {}, row, condition, columns, input)

\* sq_storage_update_all(), sq_storage_update_field(): the condition is
\* always set; the named columns are added to those the chain has.
UpdateAll ==
    \E row \in Row, where \in SUBSET Ids, asked \in Requests :
        SendUpdate("updateAll", where, asked, row, where,
                   columns \cup asked, input)

\* sq_storage_get(), sq_storage_get_all(), sq_storage_query(): the SELECT is
\* written over the input chain's buffer.  When the buffer grows it may move,
\* and a condition that pointed into it reads the freed memory: what was
\* there, as long as nothing else is.
Get ==
    /\ input' = Select
    /\ condition' \in IF condition = InInput THEN {InInput, input} ELSE {condition}
    /\ Called("get", FALSE, {}, {}, Blank, 0)
    /\ UNCHANGED <<rows, columns, owed, refusals>>

\* sq_storage_remove(), sq_storage_remove_all(): the statement is made in the
\* output chain's buffer and sent past the chain.
Remove ==
    \E where \in SUBSET Ids :
        /\ \/ /\ rows' = [i \in Ids |-> IF i \in where THEN NoRow ELSE rows[i]]
              /\ Called("remove", FALSE, where, {}, Blank, 0)
              /\ UNCHANGED refusals
           \/ /\ MayRefuse
              /\ Called("remove", TRUE, where, {}, Blank, 0)
              /\ UNCHANGED rows
        /\ UNCHANGED chain

\* sq_storage_rollback_trans(), and other connections to the database, put
\* other rows there behind the chain's back.
Elsewhere ==
    /\ rows' \in [Ids -> Row \cup {NoRow}]
    /\ Called("elsewhere", FALSE, {}, {}, Blank, 0)
    /\ UNCHANGED <<chain, refusals>>

Next ==
    \/ Insert
    \/ Update
    \/ UpdateAll
    \/ Get
    \/ Remove
    \/ Elsewhere

Spec == Init /\ [][Next]_vars

-----------------------------------------------------------------------------
(***************************************************************************)
(* Properties.                                                             *)
(***************************************************************************)

Conditions == {NoCondition, InInput, Select} \cup SUBSET Ids

\* The type invariant of the storage, its chains and the database.
TypeOK ==
    /\ rows \in [Ids -> Row \cup {NoRow}]
    /\ condition \in Conditions
    /\ columns \subseteq Columns
    /\ input \in {Select} \cup SUBSET Ids
    /\ refusals \in Nat
    /\ owed \subseteq Ids
    /\ call.op \in Calls /\ call.refused \in BOOLEAN
    /\ call.where \subseteq Ids /\ call.asked \subseteq Columns
    /\ call.row \in Row
    /\ call.ret \in Int

IsUpdate(op) == op \in {"update", "updateAll"}

\* What a column of a row must hold after a structure was written to it.
Takes(new, old, f, row, asked) ==
    CASE Kind[f] = "updated" -> new[f] = Now
      [] Kind[f] = "query"   -> new[f] = old[f]
      [] Kind[f] = "created" ->
            new[f] = IF row[f] # Zero /\ (asked = {} \/ f \in asked)
                     THEN row[f] ELSE old[f]
      [] OTHER -> new[f] = IF asked = {} \/ f \in asked THEN row[f] ELSE old[f]

\* An accepted statement of the output chain leaves nothing of itself to the
\* next one (SqxcSql.c, SQXC_CTRL_FINISH).
AcceptedLeavesNothing ==
    [][ call'.op \in {"insert", "update", "updateAll"} /\ ~call'.refused =>
        condition' = NoCondition /\ columns' = {} ]_vars

\* With nothing left in the chain by a refused update, an update changes the
\* rows it was asked to, in the columns it was asked to, and no others
\* (sq_storage_update(), sq_storage_update_all()).
UpdatesAreMeant ==
    [][ IsUpdate(call'.op) /\ ~call'.refused /\ condition = NoCondition =>
        \A i \in Ids :
            IF i \in call'.where /\ rows[i] # NoRow
            THEN \A f \in Fields :
                    Takes(rows'[i], rows[i], f, call'.row, call'.asked)
            ELSE rows'[i] = rows[i] ]_vars

\* With something left, an update may change other rows than its own: those
\* that refused updates since the last accepted statement named, however the
\* buffers were used in between, and never others.
StrayUpdatesAreOwed ==
    [][ IsUpdate(call'.op) =>
        \A i \in Ids : rows'[i] # rows[i] => i \in call'.where \cup owed ]_vars

\* An insertion adds one row, of the structure's values and the defaults, and
\* returns its id, whatever updates left in the chain (sq_storage_insert()).
InsertsAreWhole ==
    [][ call'.op = "insert" /\ ~call'.refused =>
        \E i \in Ids :
            /\ rows[i] = NoRow
            /\ call'.ret = i
            /\ \A j \in Ids \ {i} : rows'[j] = rows[j]
            /\ \A f \in Fields :
                  IF Kind[f] \in {"created", "updated"} /\ call'.row[f] = Zero
                  THEN rows'[i][f] = Now
                  ELSE Kind[f] # "query" => rows'[i][f] = call'.row[f] ]_vars
=============================================================================
