------------------------------ MODULE SqxcChain ------------------------------
(***************************************************************************)
(* A chain of Sqxc elements: C structures become rows and rows become C    *)
(* structures again.  Objects and arrays in a row are JSON.                *)
(*                                                                         *)
(* On the way out SqxcSql takes the row and its values; what it does not   *)
(* support goes to the JSON writer behind it, which collects a document    *)
(* until its last object or array ends and hands it back as a string.      *)
(*                                                                         *)
(* On the way in SqxcValue parses with the type on top of its stack of     *)
(* nested objects.  A string that comes for an object or an array does not *)
(* match: the element is on the stack already, but waiting, and the JSON   *)
(* parser behind SqxcValue gets the string and sends it what is in it.     *)
(* Nobody looks at the results of that: it is the stack alone that must    *)
(* know where the document is and where the row goes on.                   *)
(*                                                                         *)
(* A document is a sequence of nodes; strings and numbers are contents.    *)
(* The database, the JSON libraries and malloc() are external.             *)
(***************************************************************************)
EXTENDS Naturals, Sequences, FiniteSets
LOCAL INSTANCE SequencesExt

CONSTANTS
    Type,       \* descriptions of the C types, by name:
                \*   kind  |-> "value", "array", "object" or "joint" (SqTypeJoint)
                \*   of    |-> the type of an array's elements
                \*   entry |-> a sequence of SqEntry:
                \*       name, type
                \*       at    |-> "inside", "first" (inside, at offset 0) or "pointer"
                \*       known |-> FALSE if only the program that wrote has it
    Tables,     \* the types of rows
    Instances,  \* Instances[t]: the structures of type t that are written
    Unset,      \* the content of new memory
    Numbers,    \* contents that are JSON; other text is not
    Null,       \* a NULL pointer
    NESTED_CHUNK_SIZE,
    MaxRows     \* a bound on the rows written

ASSUME ChunkAssumption == NESTED_CHUNK_SIZE \in Nat \ {0}

VARIABLES
    pc,         \* "idle", "writing", "sending" (a row), "parsing" (a document in it),
                \* "done" or "crashed"
    table,      \* the type of the rows
    written,    \* the structures written
    events,     \* what is still to be sent by the C structure or by the driver
    out,        \* the output chain: SqxcSql and the JSON writer
    stored,     \* the rows in the database: a text for each column
    query,      \* how the rows are read, the column that they do not have yet,
                \* and whether the query was aborted
    document,   \* what the JSON parser has still to send
    in          \* the input chain: SqxcValue

chainVars == <<pc, table, written, events, out, stored, query, document, in>>

Event(type, name, value) == [type |-> type, name |-> name, value |-> value]

Starts == {"OBJECT", "ARRAY"}
Ends == {"OBJECT_END", "ARRAY_END"}
NoName == <<>>

Indices(s, Test(_)) == SelectSeq([i \in DOMAIN s |-> i], Test)

-----------------------------------------------------------------------------
(* SqxcNested: a stack in blocks of records.                               *)

NoNested == [list |-> <<>>, nested_count |-> 0, blocks |-> {}]

Pushed(s, data, data2, ready) ==
    LET new == s.nested_count % NESTED_CHUNK_SIZE = 0
        block == IF new THEN CHOOSE b \in 1 .. Cardinality(s.blocks) + 1 : b \notin s.blocks
                 ELSE Last(s.list).block
    IN  [list |-> Append(s.list,
                    [data |-> data, data2 |-> data2, ready |-> ready, block |-> block,
                     slot |-> IF new THEN 1 ELSE Last(s.list).slot + 1]),
         nested_count |-> s.nested_count + 1,
         blocks |-> s.blocks \cup {block}]

(* The slip: the count is looked at before a record is taken off.          *)
PoppedLate(s) ==
    IF s.list = <<>> THEN s
    ELSE [list |-> Front(s.list),
          nested_count |-> s.nested_count - 1,
          blocks |-> IF s.nested_count % NESTED_CHUNK_SIZE = 0
                     THEN s.blocks \ {Last(s.list).block} ELSE s.blocks]

(* The block is freed through the record that is first in it.              *)
Popped(s) ==
    IF s.list = <<>> THEN s
    ELSE [list |-> Front(s.list),
          nested_count |-> s.nested_count - 1,
          blocks |-> IF (s.nested_count - 1) % NESTED_CHUNK_SIZE = 0
                     THEN s.blocks \ {Last(s.list).block} ELSE s.blocks]

(* sqxc_erase_nested(): what the inner records hold moves outwards.        *)
Erased(s, at) ==
    Popped([s EXCEPT !.list = [i \in DOMAIN @ |->
        IF i < at \/ i = Len(@) THEN @[i]
        ELSE [@[i] EXCEPT !.data = s.list[i + 1].data, !.data2 = s.list[i + 1].data2,
                          !.ready = s.list[i + 1].ready]]])

RECURSIVE Cleared(_)
Cleared(s) == IF s.list = <<>> THEN s ELSE Cleared(Popped(s))

-----------------------------------------------------------------------------
(* Writing.                                                                *)

(* What SqType::write() sends for a structure: sq_type_object_write() and  *)
(* sq_type_array_write().                                                  *)
RECURSIVE Sent(_, _, _)
Sent(v, t, name) ==
    LET member(e) == IF v[e.name] = Null THEN <<Event("NULL", <<e.name>>, Null)>>
                     ELSE Sent(v[e.name], e.type, <<e.name>>)
    IN  CASE Type[t].kind = "value" -> <<Event("VALUE", name, v)>>
          [] Type[t].kind = "array" ->
                <<Event("ARRAY", name, Null)>>
                \o FlattenSeq([i \in DOMAIN v |-> Sent(v[i], Type[t].of, NoName)])
                \o <<Event("ARRAY_END", name, Null)>>
          [] Type[t].kind = "object" ->
                <<Event("OBJECT", name, Null)>>
                \o FlattenSeq([i \in DOMAIN Type[t].entry |-> member(Type[t].entry[i])])
                \o <<Event("OBJECT_END", name, Null)>>

(* Texts in a row.                                                         *)
NoText == [kind |-> "null"]
Plain(content) == [kind |-> "plain", content |-> content]
Document(nodes) == [kind |-> "document", nodes |-> nodes]

(* SqxcSql is the first element and the JSON writer the second.  `dest' is *)
(* the one that the structure sends to, jNested the node that gets what is *)
(* sent, 0 for NULL.                                                       *)
OutInit == [dest |-> "SqxcSql", inRow |-> FALSE, row |-> <<>>,
            nodes |-> <<>>, jRootName |-> NoName, jNested |-> 0, nested |-> NoNested]

(* sqxc_sql_send_insert_command() of a value, or the begin or end of a row *)
InRow(o, e) ==
    CASE e.type = "OBJECT" -> [o EXCEPT !.inRow = TRUE]
      [] e.type = "OBJECT_END" -> [o EXCEPT !.inRow = FALSE]
      [] e.type = "NULL" -> [o EXCEPT !.row = Append(@, [name |-> e.name, text |-> NoText])]
      [] e.type = "VALUE" -> [o EXCEPT !.row = Append(@, [name |-> e.name, text |-> Plain(e.value)])]
      [] e.type = "STR" -> [o EXCEPT !.row = Append(@, [name |-> e.name, text |-> e.value])]

(* SqxcSql.supported_type, in a row and outside.                           *)
SqlSupports(o, e) == o.inRow => e.type \notin Starts

(* sqxc_jsonc_send_out() and sqxc_cjson_send_out() lack a break: a NULL    *)
(* becomes a boolean, false.                                               *)
Node(o, e) ==
    [parent |-> o.jNested, name |-> e.name,
     type |-> IF e.type \in Starts THEN e.type ELSE "VALUE",
     value |-> IF e.type = "NULL" THEN Unset ELSE e.value]

(* An ending pops; the node below it gets what comes next.                 *)
NodeEnded(o) ==
    LET nested == Popped(o.nested)
    IN  [o EXCEPT !.nested = nested,
                  !.jNested = IF nested.list = <<>> THEN 0 ELSE Last(nested.list).data]

NodeAdded(o, e) ==
    LET n == Len(o.nodes) + 1
        added == [o EXCEPT !.nodes = Append(@, Node(o, e)),
                           !.jRootName = IF n = 1 THEN e.name ELSE @]
    IN  IF e.type \in Starts
        THEN [added EXCEPT !.nested = Pushed(@, n, e.type, TRUE), !.jNested = n] ELSE added

(* check_nested_0: the document is complete and goes to the destination.   *)
DocumentSent(o) ==
    IF o.nested.nested_count # 0 THEN [o EXCEPT !.dest = "SqxcJson"]
    ELSE [InRow(o, Event("STR", o.jRootName, Document(o.nodes)))
            EXCEPT !.nodes = <<>>, !.dest = "SqxcSql"]

(* sqxc_send() down the output chain, from the element that was last used. *)
SentOut(o, e) ==
    IF o.dest = "SqxcSql" /\ SqlSupports(o, e) THEN InRow(o, e)
    ELSE DocumentSent(IF e.type \in Ends THEN NodeEnded(o) ELSE NodeAdded(o, e))

-----------------------------------------------------------------------------
(* Memory.  A place is the way to it from the structure that is read: the  *)
(* names of members and the indices of elements.                           *)

(* An object at offset 0 has the address of the object around it.          *)
RECURSIVE Address(_)
Address(place) == IF place = <<>> \/ ~Last(place).first THEN place ELSE Address(Front(place))

Member(place, e) == Append(place, [key |-> e.name, first |-> e.at = "first"])
Element(place, i) == Append(place, [key |-> i, first |-> FALSE])

RECURSIVE At(_, _)
At(v, place) == IF place = <<>> THEN v ELSE At(v[Head(place).key], Tail(place))

RECURSIVE Put(_, _, _)
Put(v, place, x) ==
    IF place = <<>> THEN x
    ELSE [v EXCEPT ![Head(place).key] = Put(@, Tail(place), x)]

KnownEntries(t) == SelectSeq(Type[t].entry, LAMBDA e : e.known)
EntryOf(t, name) == CHOOSE e \in ToSet(KnownEntries(t)) : e.name = name
Names(t) == {e.name : e \in ToSet(KnownEntries(t))}

(* sq_type_init_instance() allocates the objects that members point to.    *)
RECURSIVE New(_)
New(t) == CASE Type[t].kind = "value" -> Unset
            [] Type[t].kind = "array" -> <<>>
            [] OTHER -> [name \in Names(t) |-> New(EntryOf(t, name).type)]

-----------------------------------------------------------------------------
(* Reading: SqxcValue and SqType::parse().                                 *)

InInit(t) == [type |-> t, instance |-> New(t), nested |-> NoNested, code |-> "OK"]

Code(i, code) == [i EXCEPT !.code = code]
Top(i) == Last(i.nested.list)
Opened(i) == i.nested.list # <<>>

(* SqxcNested.data and .data3 are the address that is parsed.              *)
IsAt(i, place) == Opened(i) /\ Address(Top(i).data) = Address(place)
IsReady(i, place) == IsAt(i, place) /\ Top(i).ready

(* The first call for an object or an array: it is pushed and waits for    *)
(* its beginning.                                                          *)
Matched(i, e, type) ==
    IF e.type # type THEN Code(i, "TYPE_NOT_MATCHED")
    ELSE Code([i EXCEPT !.nested.list[Len(i.nested.list)].ready = TRUE], "OK")

Begun(i, t, place, e) ==
    Matched(IF IsAt(i, place) THEN i ELSE [i EXCEPT !.nested = Pushed(@, place, t, FALSE)],
            e, IF Type[t].kind = "array" THEN "ARRAY" ELSE "OBJECT")

(* A scalar: sq_type_int_parse(), sq_type_str_parse() and the like.        *)
ContentOf(e) == IF e.type = "STR" /\ e.value.kind = "plain" THEN e.value.content
                ELSE IF e.type = "VALUE" THEN e.value ELSE Unset

ValueParsed(i, place, e) ==
    IF e.type \in Starts THEN Code(i, "TYPE_NOT_MATCHED")
    ELSE Code([i EXCEPT !.instance = Put(@, place, ContentOf(e))], "OK")

RECURSIVE Parsed(_, _, _, _)

(* sq_type_array_parse()                                                   *)
ElementParsed(i, t, place, e) ==
    LET elements == At(i.instance, place)
        grown == [i EXCEPT !.instance = Put(@, place, Append(elements, New(Type[t].of)))]
    IN  Parsed(grown, Type[t].of, Element(place, Len(elements) + 1), [e EXCEPT !.name = NoName])

(* sq_type_object_parse(): without a name, strcmp() gets NULL.             *)
MemberParsed(i, t, place, e) ==
    CASE e.name = NoName -> Code(i, "CRASHED")
      [] e.name # NoName /\ Head(e.name) \in Names(t) /\ Len(e.name) = 1 ->
            Parsed(i, EntryOf(t, Head(e.name)).type, Member(place, EntryOf(t, Head(e.name))), e)
      [] OTHER -> Code(i, "ENTRY_NOT_FOUND")

(* sq_type_joint_parse(): the object of a joined table is on the stack     *)
(* while the member of it is parsed, which may push in its turn.           *)
JointParsed(i, t, place, e) ==
    LET entry == EntryOf(t, Head(e.name))
        pushed == [i EXCEPT !.nested = Pushed(@, Member(place, entry), entry.type, TRUE)]
        parsed == Parsed(pushed, entry.type, Member(place, entry), [e EXCEPT !.name = Tail(@)])
    IN  CASE e.name = NoName -> Code(i, "CRASHED")
          [] e.name # NoName /\ Len(e.name) = 2 /\ Head(e.name) \in Names(t) ->
                [parsed EXCEPT !.nested = Erased(@, Len(i.nested.list) + 1)]
          [] OTHER -> Code(i, "ENTRY_NOT_FOUND")

Parsed(i, t, place, e) ==
    CASE Type[t].kind = "value" -> ValueParsed(i, place, e)
      [] Type[t].kind # "value" /\ ~IsReady(i, place) -> Begun(i, t, place, e)
      [] Type[t].kind = "array" /\ IsReady(i, place) -> ElementParsed(i, t, place, e)
      [] Type[t].kind = "object" /\ IsReady(i, place) -> MemberParsed(i, t, place, e)
      [] Type[t].kind = "joint" /\ IsReady(i, place) -> JointParsed(i, t, place, e)

(* sqxc_value_send().  SQ_TYPE_UNKNOWN knows no member; what is pushed for *)
(* it has no address.                                                      *)
Unknown == "UNKNOWN"

(* The slip: an unknown object is skipped like an unknown value.           *)
UnknownSkipped(i, e) == i

UnknownPushed(i, e) ==
    IF i.code = "ENTRY_NOT_FOUND" /\ e.type \in Starts
    THEN [i EXCEPT !.nested = Pushed(@, <<>>, Unknown, FALSE)] ELSE i

ValueSent(i, e) ==
    CASE ~Opened(i) -> Parsed(i, i.type, <<>>, e)
      [] Opened(i) /\ e.type \in Ends -> Code([i EXCEPT !.nested = Popped(@)], "OK")
      [] Opened(i) /\ e.type \notin Ends /\ Top(i).data2 = Unknown ->
            UnknownPushed(Code(i, "ENTRY_NOT_FOUND"), e)
      [] OTHER -> UnknownPushed(Parsed(i, Top(i).data2, Top(i).data, e), e)

(* The end of sqxc_send(): what still waits did not match.                 *)
Unmatched(i) ==
    IF i.code = "TYPE_NOT_MATCHED" /\ Opened(i) /\ ~Top(i).ready /\ Top(i).data2 # Unknown
    THEN [i EXCEPT !.nested = Popped(@)] ELSE i

(* What the JSON parser makes of a text: sqxc_jsonc_send_value_in() and    *)
(* sqxc_cjson_send_value_in().                                             *)
RECURSIVE Walked(_, _, _)
Walked(nodes, n, name) ==
    LET children == Indices(nodes, LAMBDA k : nodes[k].parent = n)
    IN  IF nodes[n].type = "VALUE" THEN <<Event("VALUE", name, nodes[n].value)>>
        ELSE <<Event(nodes[n].type, name, Null)>>
             \o FlattenSeq([k \in DOMAIN children |->
                    Walked(nodes, children[k], nodes[children[k]].name)])
             \o <<Event(IF nodes[n].type = "ARRAY" THEN "ARRAY_END" ELSE "OBJECT_END", name, Null)>>

IsJson(text) == text.kind = "document" \/ (text.kind = "plain" /\ text.content \in Numbers)

JsonEvents(e) ==
    IF e.value.kind = "document" THEN Walked(e.value.nodes, 1, e.name)
    ELSE <<Event("VALUE", e.name, e.value.content)>>

-----------------------------------------------------------------------------
(* The storage and the driver.                                             *)

NoQuery == [how |-> "none", added |-> "none", aborted |-> FALSE]

ChainInit ==
    /\ pc = "idle"
    /\ table \in Tables
    /\ written = <<>> /\ stored = <<>>
    /\ events = <<>> /\ document = <<>>
    /\ out = OutInit
    /\ query = NoQuery
    /\ in = [type |-> "none"]

(* sq_storage_insert()                                                     *)
WriteRow(v) ==
    /\ pc = "idle" /\ Len(written) < MaxRows
    /\ pc' = "writing"
    /\ written' = Append(written, v)
    /\ events' = Sent(v, table, NoName)
    /\ out' = [OutInit EXCEPT !.nested = out.nested]
    /\ UNCHANGED <<table, stored, query, document, in>>

Write ==
    /\ pc = "writing" /\ events # <<>>
    /\ out' = SentOut(out, Head(events))
    /\ events' = Tail(events)
    /\ UNCHANGED <<pc, table, written, stored, query, document, in>>

(* SQXC_CTRL_FINISH: the row is stored.                                    *)
Execute ==
    /\ pc = "writing" /\ events = <<>>
    /\ pc' = "idle"
    /\ stored' = Append(stored, out.row)
    /\ out' = [out EXCEPT !.nested = Cleared(@)]
    /\ UNCHANGED <<table, written, events, query, document, in>>

(* The columns of a result: in any order, which is that of the table in    *)
(* the database; a column that was added after the rows is NULL.           *)
TextIn(row, name, added) ==
    IF name = added THEN NoText
    ELSE row[CHOOSE k \in DOMAIN row : row[k].name = <<name>>].text

RowColumns(row, order, added, alias) ==
    [k \in DOMAIN order |->
        Event("STR", alias \o <<order[k]>>, TextIn(row, order[k], added))]

Orders(t) ==
    LET names == {e.name : e \in ToSet(Type[t].entry)}
    IN  {order \in [1 .. Cardinality(names) -> names] : ToSet(order) = names}

RowEvents(columns) == <<Event("OBJECT", NoName, Null)>> \o columns \o <<Event("OBJECT_END", NoName, Null)>>

Alternately(a, b) == FlattenSeq([k \in DOMAIN a |-> <<a[k], b[k]>>])

(* What sqdb_sqlite_exec() and its callback send.                          *)
Results(how, order, added) ==
    LET columns(k, alias) == RowColumns(stored[k], order, added, alias)
    IN  CASE how = "row" -> RowEvents(columns(1, <<>>))
          [] how = "rows" ->
                <<Event("ARRAY", NoName, Null)>>
                \o FlattenSeq([k \in DOMAIN stored |-> RowEvents(columns(k, <<>>))])
                \o <<Event("ARRAY_END", NoName, Null)>>
          [] how = "joint" -> RowEvents(Alternately(columns(1, <<"a">>), columns(2, <<"b">>)))

(* The type that a query is parsed by: that of the row, an array of it, or *)
(* the joint of two tables.                                                *)
Receiver(how) ==
    CHOOSE t \in DOMAIN Type :
        CASE how = "row" -> t = table
          [] how = "rows" -> Type[t].kind = "array" /\ Type[t].of = table
          [] how = "joint" -> Type[t].kind = "joint" /\ Type[t].entry[1].type = table

(* sq_storage_get(), sq_storage_get_all() and sq_storage_query_join():     *)
(* SQXC_CTRL_READY.                                                        *)
Query(how, order, added) ==
    /\ pc = "idle" /\ stored # <<>>
    /\ how = "joint" => Len(stored) > 1
    /\ pc' = "sending"
    /\ query' = [how |-> how, added |-> added, aborted |-> FALSE]
    /\ in' = InInit(Receiver(how))
    /\ events' = Results(how, order, added)
    /\ UNCHANGED <<table, written, out, stored, document>>

(* query_callback() aborts the query when the beginning of a row is        *)
(* refused: what is left of the rows is not sent.                          *)
Aborts(i, e) == e.type = "OBJECT" /\ i.code # "OK"

(* sqxc_send() down the input chain: SqxcValue, then the JSON parser.      *)
Send ==
    /\ pc = "sending" /\ events # <<>>
    /\ LET e == Head(events)
           i == ValueSent(in, e)
           toParser == i.code = "TYPE_NOT_MATCHED" /\ e.type = "STR" /\ IsJson(e.value)
       IN  /\ in' = i
           /\ pc' = CASE i.code = "CRASHED" -> "crashed"
                      [] toParser -> "parsing"
                      [] OTHER -> "sending"
           /\ document' = IF toParser THEN JsonEvents(e) ELSE <<>>
           /\ query' = [query EXCEPT !.aborted = @ \/ Aborts(i, e)]
           /\ events' = IF Aborts(i, e)
                        THEN SelectSeq(events, LAMBDA f : f.type = "ARRAY_END") ELSE Tail(events)
    /\ UNCHANGED <<table, written, out, stored>>

(* The parser sends to SqxcValue itself and goes on whatever the result.   *)
Parse ==
    /\ pc = "parsing"
    /\ LET i == ValueSent(in, Head(document))
           over == Len(document) = 1
       IN  /\ in' = IF over THEN Unmatched(i) ELSE i
           /\ pc' = CASE i.code = "CRASHED" -> "crashed"
                      [] i.code # "CRASHED" /\ over -> "sending"
                      [] OTHER -> "parsing"
    /\ document' = Tail(document)
    /\ UNCHANGED <<table, written, events, out, stored, query>>

(* SQXC_CTRL_FINISH; after an error the storage frees all that was read.   *)
Finish ==
    /\ pc = "sending" /\ events = <<>>
    /\ pc' = "done"
    /\ in' = [in EXCEPT !.nested = Cleared(@),
                        !.instance = IF query.aborted THEN Null ELSE @]
    /\ UNCHANGED <<table, written, events, out, stored, query, document>>

(* The next call; after a crash, the next process.                         *)
Return ==
    /\ pc \in {"done", "crashed"}
    /\ pc' = "idle"
    /\ query' = NoQuery
    /\ in' = [type |-> "none"]
    /\ events' = <<>> /\ document' = <<>>
    /\ UNCHANGED <<table, written, out, stored>>

ChainNext ==
    \/ \E v \in Instances[table] : WriteRow(v)
    \/ Write \/ Execute
    \/ \E how \in {"row", "rows", "joint"}, order \in Orders(table) :
          \E added \in Names(table) \cup {"none"} : Query(how, order, added)
    \/ Send \/ Parse \/ Finish \/ Return

ChainSpec == ChainInit /\ [][ChainNext]_chainVars

-----------------------------------------------------------------------------
(* Properties.                                                             *)

(* What the structure of a reader should be: without the members that it   *)
(* does not know.  An object at offset 0 is lost, without any error.       *)
RECURSIVE Known(_, _)
Known(v, t) ==
    CASE Type[t].kind = "value" -> v
      [] Type[t].kind = "array" -> [k \in DOMAIN v |-> Known(v[k], Type[t].of)]
      [] OTHER -> [name \in Names(t) |->
            LET e == EntryOf(t, name)
            IN  IF e.at = "first" /\ Type[e.type].kind # "value" THEN New(e.type)
                ELSE Known(v[name], e.type)]

RECURSIVE Complete(_, _)
Complete(v, t) ==
    /\ v # Null
    /\ Type[t].kind = "array" => \A k \in DOMAIN v : Complete(v[k], Type[t].of)
    /\ Type[t].kind = "object" =>
          \A e \in ToSet(Type[t].entry) : Complete(v[e.name], e.type)

(* A row that can be read: no pointer in it is NULL, and no column that    *)
(* holds JSON was added after it was written.                              *)
Readable(v) ==
    /\ Complete(v, table)
    /\ query.added \in Names(table) => Type[EntryOf(table, query.added).type].kind = "value"

Expected(v) ==
    [name \in Names(table) |-> IF name = query.added THEN Unset ELSE Known(v, table)[name]]

(* Structures are read back as they were written, through the SQL row, the *)
(* JSON in it and whatever the writer knew and the reader does not, alone, *)
(* among other rows, or joined, with the columns in any order              *)
(* (sq_type_object_write() against sq_type_object_parse()).  A row that    *)
(* cannot be read may take the rows after it along, or all of them and the *)
(* result is NULL, but it never makes an earlier one another.              *)
RowsAreRead ==
    LET readable(n) == \A k \in 1 .. n : Readable(written[k])
    IN  pc \in {"done", "crashed"} =>
          CASE query.how = "row" -> readable(1) => pc = "done" /\ in.instance = Expected(written[1])
            [] query.how = "joint" ->
                  readable(2) => /\ pc = "done"
                                 /\ in.instance["a"] = Expected(written[1])
                                 /\ in.instance["b"] = Expected(written[2])
            [] query.how = "rows" /\ in.instance = Null -> ~readable(Len(written))
            [] query.how = "rows" /\ in.instance # Null ->
                  /\ \A n \in DOMAIN written :
                        readable(n) => /\ n <= Len(in.instance)
                                       /\ in.instance[n] = Expected(written[n])
                  /\ readable(Len(written)) => pc = "done" /\ Len(in.instance) = Len(written)

(* Every record of a stack lies in a block that is allocated, in a slot of *)
(* its own, every block has a record, and a call leaves none               *)
(* (sqxc_push_nested(), sqxc_pop_nested(), sqxc_erase_nested()).           *)
StackIsLive(s) ==
    /\ s.nested_count = Len(s.list)
    /\ s.blocks = {r.block : r \in ToSet(s.list)}
    /\ \A k \in DOMAIN s.list : s.list[k].slot <= NESTED_CHUNK_SIZE
    /\ \A k, l \in DOMAIN s.list :
          k # l => <<s.list[k].block, s.list[k].slot>> # <<s.list[l].block, s.list[l].slot>>

NestedIsLive ==
    /\ StackIsLive(out.nested)
    /\ pc \in {"sending", "parsing", "done"} => StackIsLive(in.nested)
    /\ pc = "idle" => out.nested = NoNested
    /\ pc = "done" => in.nested = NoNested
=============================================================================
