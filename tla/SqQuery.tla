------------------------------- MODULE SqQuery -------------------------------
(***************************************************************************)
(* The query builder.  A query is a tree of nodes, each with a string; SQL *)
(* is written by walking the tree.  Calls may come in any order: the words *)
(* of SQL lie in memory in the order in which a statement has them, and a  *)
(* node for a word is inserted behind the last smaller one.  A subquery, a *)
(* group of conditions and what follows UNION are scopes: they are pushed  *)
(* by one call and popped by another, and calls in between go there.       *)
(*                                                                         *)
(* Names, conditions and numbers are strings that stand for themselves.    *)
(* Left out: raw text (sq_query_append() and the *_raw() functions), CREATE *)
(* TABLE and the other commands that have no function yet, and printf      *)
(* formatting of values.                                                   *)
(***************************************************************************)
EXTENDS Naturals, FiniteSets, Sequences, SequencesExt

CONSTANTS
    Table, Alias,   \* names
    Columns,        \* the lists of columns that are given in one call
    Condition,      \* conditions:
                    \*   link  |-> how it is linked to the one before, "AND" or "OR"
                    \*   not   |-> whether it is negated
                    \*   text  |-> the condition itself
                    \*   opens |-> what follows: "nothing", a "subquery" or, in place of
                    \*             the text, a "group" of conditions
    Joins,          \* the kinds of JOIN in use
    NoTable,        \* the NULL pointer: a subquery follows
    MaxCalls,       \* a bound on the calls
    MaxMixed,       \* calls of any kind; those after them use the words of one topic
    Topics,         \* sets of words
    MaxScopes       \* a bound on the open scopes, the outermost included

VARIABLES
    query,      \* the tree and the stack of scopes
    meant,      \* for each open scope, what the calls in it mean
    calls

vars == <<query, meant, calls>>

-----------------------------------------------------------------------------
(* Words: constStringGroup, in the order of their addresses.  NONE is "".  *)

Word == <<"NONE", "TRUNCATE TABLE", "DELETE", "SELECT",
          "FROM", "JOIN", "LEFT JOIN", "CROSS JOIN", "WHERE", "GROUP BY", "HAVING",
          "ORDER BY", "UNION", "UNION ALL", "LIMIT",
          "DISTINCT", "AS", "OR", "AND", "NOT", "EXISTS", "ON", "ASC", "DESC", "OFFSET">>

Address == [w \in Range(Word) |-> CHOOSE i \in DOMAIN Word : Word[i] = w]

(* The symbols lie behind the words; all other strings are on the heap.    *)
IsWord(s) == s \in Range(Word)
Before(s, word) == IsWord(s) /\ Address[s] < Address[word]

-----------------------------------------------------------------------------
(* Nodes are numbers, 1 is the root and 0 is NULL.  str[n] is the string   *)
(* of a node and kids[n] the list of its children.                         *)

NoScope == [parent |-> 0, command |-> 0, name |-> 0, aliasable |-> 0, joinon |-> 0]

Empty == [str |-> <<"root">>, kids |-> << <<>> >>, nested |-> <<[NoScope EXCEPT !.parent = 1]>>]

Newest(q) == Len(q.str)
Current(q) == Last(q.nested)
Parent(q) == Current(q).parent
Set(q, field, n) == [q EXCEPT !.nested[Len(q.nested)][field] = n]
Child(q, n) == Head(q.kids[n])

(* sq_query_node_insert(): a new node, behind prev or as the first.        *)
Insert(q, parent, prev, s) ==
    LET n == Newest(q) + 1
        at == IF prev = 0 THEN 1 ELSE CHOOSE i \in DOMAIN q.kids[parent] : q.kids[parent][i] = prev
    IN  [q EXCEPT !.str = Append(@, s),
                  !.kids = Append([@ EXCEPT ![parent] =
                                     InsertAt(@, IF prev = 0 THEN 1 ELSE at + 1, n)], <<>>)]

Prepended(q, parent, s) == Insert(q, parent, 0, s)
Appended(q, parent, s) ==
    Insert(q, parent, IF q.kids[parent] = <<>> THEN 0 ELSE Last(q.kids[parent]), s)
Below(q, s) == Prepended(q, Newest(q), s)

(* A slip: a missing clause goes to the end.                               *)
FindOrAppend(q, parent, word) ==
    LET words == SelectSeq(q.kids[parent], LAMBDA n : IsWord(q.str[n]))
        same == SelectSeq(words, LAMBDA n : q.str[n] = word)
    IN  [node |-> IF same = <<>> THEN 0 ELSE Head(same),
         prev |-> IF words = <<>> THEN 0 ELSE Last(words)]

(* sq_query_node_find(): the search ends at the first word that is not     *)
(* smaller, which is the one or shows that it is not there.                *)
Find(q, parent, word) ==
    LET words == SelectSeq(q.kids[parent], LAMBDA n : IsWord(q.str[n]))
        smaller == {i \in DOMAIN words : \A j \in 1 .. i : Before(q.str[words[j]], word)}
        k == Cardinality(smaller)
    IN  [node |-> IF k < Len(words) /\ q.str[words[k + 1]] = word THEN words[k + 1] ELSE 0,
         prev |-> IF k = 0 THEN 0 ELSE words[k]]

(* Finds the node of a clause or inserts it: the query and the node.       *)
FoundOrNew(q, parent, word, found) ==
    IF found.node # 0 THEN [query |-> q, node |-> found.node]
    ELSE [query |-> Insert(q, parent, found.prev, word), node |-> Newest(q) + 1]

WithClause(q, parent, word) == FoundOrNew(q, parent, word, Find(q, parent, word))

(* sq_query_push_nested()                                                  *)
Pushed(q, parent) == [q EXCEPT !.nested = Append(@, [NoScope EXCEPT !.parent = parent])]
Entered(q) == Pushed(q, Newest(q))

-----------------------------------------------------------------------------
(* The functions of the builder.                                           *)

(* sq_query_insert_table_node()                                            *)
Aliasable(q) == Set(q, "aliasable", Newest(q))
Named(q, table) == IF table = NoTable THEN Entered(q) ELSE Below(q, table)
WithTable(q, node, table) == Named(Aliasable(Prepended(q, node, "NONE")), table)

(* The newest node is FROM or JOIN, and the scope's.                       *)
TableFor(q, field, table) == WithTable(Set(q, field, Newest(q)), Newest(q), table)

FromTable(q, table) ==
    LET command == Current(q).command
        word == IF command # 0 /\ Before(q.str[command], "DELETE") THEN "NONE" ELSE "FROM"
    IN  IF Current(q).name # 0 THEN q
        ELSE TableFor(Insert(q, Parent(q), command, word), "name", table)

ParentOf(q, node) == CHOOSE p \in DOMAIN q.kids : node \in ToSet(q.kids[p])

(* A slip: the alias goes to the end, behind ON.                           *)
WithAliasAppended(q, name) ==
    LET node == Current(q).aliasable
    IN  IF node = 0 THEN q
        ELSE Set(Below(Appended(q, ParentOf(q, node), "AS"), name), "aliasable", 0)

WithAlias(q, name) ==
    LET node == Current(q).aliasable
    IN  IF node = 0 THEN q
        ELSE Set(Below(Insert(q, ParentOf(q, node), node, "AS"), name), "aliasable", 0)

(* sq_query_insert_column_list()                                           *)
WithComma(q, node) == IF q.kids[Last(q.kids[node])] = <<>> THEN q ELSE Appended(q, node, ",")
Column(q, node, name) == Set(Prepended(q, node, name), "aliasable", node)
LastColumn(q, node, name) == Column(q, Last(q.kids[node]), name)

WithColumns(q, node, names) ==
    FoldLeft(LAMBDA a, name : LastColumn(WithComma(a, node), node, name),
             IF q.kids[node] = <<>> THEN Prepended(q, node, "NONE") ELSE q, names)

Commanding(q) == Set(q, "command", Newest(q))
WithCommand(q, word) ==
    IF Current(q).command # 0 THEN q ELSE Commanding(Prepended(q, Parent(q), word))

(* The first child of SELECT is kept for DISTINCT.                         *)
WithSelect(q) ==
    IF Current(q).command # 0 THEN q ELSE Below(WithCommand(q, "SELECT"), "NONE")

IsSelect(q) == q.str[Current(q).command] = "SELECT"

ColumnsSelected(q, names) ==
    IF IsSelect(q) THEN WithColumns(q, Current(q).command, names) ELSE q

SelectList(q, names) == ColumnsSelected(WithSelect(q), names)

Distinguished(q) ==
    IF IsSelect(q) THEN [q EXCEPT !.str[Child(q, Current(q).command)] = "DISTINCT"] ELSE q

DistinctRows(q) == Distinguished(WithSelect(q))

(* sq_query_clause_logical(): the newest node is where the condition goes. *)
Negated(q, not) ==
    CASE ~not -> q
      [] not /\ q.str[Newest(q)] = "NONE" -> [q EXCEPT !.str[Newest(q)] = "NOT"]
      [] OTHER -> Below(q, "NOT")

Linked(clause, c) ==
    Negated(Appended(clause.query, clause.node,
                     IF clause.query.kids[clause.node] = <<>> THEN "NONE" ELSE c.link), c.not)

WithLink(q, parent, word, c) == Linked(WithClause(q, parent, word), c)

(* sq_query_condition()                                                    *)
Worded(q, c) == IF c.opens = "group" THEN q ELSE Below(q, c.text)
Opening(q, c) == IF c.opens = "nothing" THEN q ELSE Entered(q)
WithCondition(q, parent, word, c) == Opening(Worded(WithLink(q, parent, word, c), c), c)

WithExists(q, c) == Entered(Below(WithLink(q, Parent(q), "WHERE", c), "EXISTS"))

(* sq_query_column_in(): NOT goes behind the column.                       *)
WithRange(q, c, not, value) ==
    LET a == Below(WithLink(q, Parent(q), "WHERE", [c EXCEPT !.not = FALSE]), c.text)
    IN  Below(IF not THEN Below(a, "NOT") ELSE a, value)

NullTest(c) == IF c.not THEN "IS NOT NULL" ELSE "IS NULL"

(* The condition of a JOIN itself is neither linked nor negated.           *)
First(c) == [c EXCEPT !.not = FALSE]

(* After the last JOIN of the scope, or before the clauses behind JOIN.    *)
JoinAdded(q, word) ==
    LET joinon == Current(q).joinon
    IN  Insert(q, Parent(q), IF joinon # 0 THEN joinon ELSE Find(q, Parent(q), "JOIN").prev, word)

JoinedOn(q, word, table, c) ==
    IF table = NoTable \/ word = "CROSS JOIN" THEN q
    ELSE WithCondition(q, Current(q).joinon, "ON", First(c))

WithJoin(q, word, table, c) ==
    JoinedOn(TableFor(JoinAdded(q, word), "joinon", table), word, table, c)

(* Where sq_query_on() puts its condition.                                 *)
Joined(q) == IF Current(q).joinon # 0 THEN Current(q).joinon ELSE Parent(q)

(* GROUP BY and ORDER BY.                                                  *)
ColumnsListed(clause, names) ==
    Set(WithColumns(clause.query, clause.node, names), "aliasable", 0)
WithList(q, word, names) == ColumnsListed(WithClause(q, Parent(q), word), names)

ChildPut(q, node, s) ==
    IF q.kids[node] = <<>> THEN Prepended(q, node, s) ELSE [q EXCEPT !.str[Child(q, node)] = s]

SortedBy(q, order) ==
    LET clause == Find(q, Parent(q), "ORDER BY").node
    IN  IF clause = 0 THEN q ELSE ChildPut(q, Child(q, Last(q.kids[clause])), order)

WithUnion(q, word) == Entered(Appended(q, Parent(q), word))

LimitPut(clause, count) == ChildPut(clause.query, clause.node, count)
Limited(q, count) == LimitPut(WithClause(q, Parent(q), "LIMIT"), count)

OffsetPut(q, count, index) ==
    IF q.kids[count] = <<>> THEN Below(Prepended(q, count, "OFFSET"), index)
    ELSE [q EXCEPT !.str[Child(q, Child(q, count))] = index]
OffsetOf(q, index) == OffsetPut(q, Child(q, Find(q, Parent(q), "LIMIT").node), index)
WithOffset(q, index) ==
    OffsetOf(IF Find(q, Parent(q), "LIMIT").node = 0 THEN Limited(q, "1") ELSE q, index)

FromErased(q, name) ==
    IF name # 0 /\ q.str[name] = "FROM" THEN [q EXCEPT !.str[name] = "NONE"] ELSE q
Truncated(q) == FromErased(WithCommand(q, "TRUNCATE TABLE"), Current(q).name)

(* A table without a command: both sq_query_c() and the end of a subquery  *)
(* write "SELECT *" into the tree.                                         *)
Completed(q) ==
    IF Current(q).name # 0 /\ Current(q).command = 0 THEN SelectList(q, <<"*">>) ELSE q

(* sq_query_pop_nested(): in a group, the word of the clause goes.         *)
Bracketed(q, p) ==
    IF q.str[p] \in {"UNION", "UNION ALL"} THEN q
    ELSE Appended(Prepended(q, p, "("), p, ")")

GroupOrComplete(q, p) ==
    IF Current(q).name = 0 /\ ~Before(q.str[Child(q, p)], "WHERE")
    THEN [q EXCEPT !.str[Child(q, p)] = "NONE"] ELSE Completed(q)

Popped(q) == [Bracketed(GroupOrComplete(q, Parent(q)), Parent(q)) EXCEPT !.nested = Front(@)]

(* node_to_buf()                                                           *)
RECURSIVE Walked(_, _)
Walked(q, nodes) ==
    FlattenSeq([i \in DOMAIN nodes |->
        (IF q.str[nodes[i]] = "NONE" THEN <<>> ELSE <<q.str[nodes[i]]>>)
        \o Walked(q, q.kids[nodes[i]])])

(* sq_query_c()                                                            *)
Printed(q) == Walked(q, q.kids[1])
Sql(q) == Printed(Completed(q))

(* get_table(): the table of FROM or JOIN, or that of its subquery.        *)
RECURSIVE TableOf(_, _)
TableOf(q, node) ==
    LET item == Child(q, node)
        inner == Find(q, item, "FROM").node
    IN  IF q.str[Child(q, item)] # "(" THEN q.str[Child(q, item)]
        ELSE IF inner = 0 THEN NoTable ELSE TableOf(q, inner)

AliasOf(q, node) ==
    LET as == Find(q, node, "AS").node IN IF as = 0 THEN NoTable ELSE q.str[Child(q, as)]

(* sq_query_get_table_as_names()                                           *)
TablesAndAliases(q) ==
    LET nodes == SelectSeq(q.kids[1], LAMBDA n : q.str[n] \in {"FROM"} \cup Joins)
    IN  IF \E i \in DOMAIN nodes : TableOf(q, nodes[i]) = NoTable THEN <<>>
        ELSE [i \in DOMAIN nodes |-> <<TableOf(q, nodes[i]), AliasOf(q, nodes[i])>>]

-----------------------------------------------------------------------------
(* What the calls mean: a statement is its clauses, in the order that SQL  *)
(* has them in, and a clause what was said of it, in the order of calls.   *)
(* A finished scope is text in the clause that it was opened for.          *)

Statement(place, group) ==
    [place |-> place,       \* the clause of the outer scope that it goes into
     group |-> group,       \* whether it is a group of conditions of that clause
     command |-> <<>>, distinct |-> FALSE, columns |-> <<>>, table |-> <<>>,
     source |-> NoTable, joins |-> <<>>, where |-> <<>>, groupby |-> <<>>, having |-> <<>>,
     orderby |-> <<>>, union |-> <<>>, limit |-> <<>>, offset |-> <<>>,
     named |-> "nothing"]   \* what an alias would be for

Top == Last(meant)
Changed(m) == Append(Front(meant), m)
Opened(m, place, group) == Append(Changed(m), Statement(place, group))

OnLast(joins, field, text) == [joins EXCEPT ![Len(joins)][field] = @ \o text]
InLast(items, text) == [items EXCEPT ![Len(items)] = @ \o text]

Said(m, place, text) ==
    CASE m.group /\ place \in {"on", "where", "having"} -> [m EXCEPT !.where = @ \o text]
      [] place = "on" /\ ~m.group -> [m EXCEPT !.joins = OnLast(@, "on", text)]
      [] place = "joined" -> [m EXCEPT !.joins = OnLast(@, "table", text)]
      [] place = "columns" -> [m EXCEPT !.columns = InLast(@, text)]
      [] place = "nothing" -> m
      [] OTHER -> [m EXCEPT ![place] = @ \o text]

NothingSaid(m, place) ==
    CASE m.group -> m.where = <<>>
      [] place = "on" /\ ~m.group -> Last(m.joins).on = <<>>
      [] OTHER -> m[place] = <<>>

SaidIf(m, place, c, text) ==
    Said(m, place, (IF NothingSaid(m, place) THEN <<>> ELSE <<c.link>>)
                   \o (IF c.not THEN <<"NOT">> ELSE <<>>) \o text)

(* A condition, and the scope that it may open.                            *)
SaidOrOpened(m, place, c) ==
    LET said == SaidIf(m, place, c, IF c.opens = "group" THEN <<>> ELSE <<c.text>>)
    IN  IF c.opens = "nothing" THEN Changed(said) ELSE Opened(said, place, c.opens = "group")

WithAll(m) ==
    IF m.table # <<>> /\ m.command = <<>>
    THEN [m EXCEPT !.command = <<"SELECT">>, !.columns = << <<"*">> >>, !.named = "columns"] ELSE m

Listed(items) ==
    FlattenSeq([i \in DOMAIN items |-> IF i = 1 THEN items[i] ELSE <<",">> \o items[i]])

Clause(word, text) == IF text = <<>> THEN <<>> ELSE <<word>> \o text

Text(m) ==
    IF m.group THEN m.where
    ELSE m.command
         \o (IF m.distinct THEN <<"DISTINCT">> ELSE <<>>) \o Listed(m.columns)
         \o (IF m.command = <<"TRUNCATE TABLE">> THEN m.table ELSE Clause("FROM", m.table))
         \o FlattenSeq([i \in DOMAIN m.joins |->
                <<m.joins[i].word>> \o m.joins[i].table \o Clause("ON", m.joins[i].on)])
         \o Clause("WHERE", m.where) \o Clause("GROUP BY", Listed(m.groupby))
         \o Clause("HAVING", m.having) \o Clause("ORDER BY", Listed(m.orderby))
         \o m.union \o Clause("LIMIT", m.limit) \o Clause("OFFSET", m.offset)

(* The table of a subquery counts as that of the outer FROM or JOIN.       *)
Sourced(m, place, source) ==
    CASE place = "table" -> [m EXCEPT !.source = source]
      [] place = "joined" -> [m EXCEPT !.joins[Len(m.joins)].source = source]
      [] OTHER -> m

Closed ==
    LET outer == meant[Len(meant) - 1]
        text == Text(WithAll(Top))
        m == Said(outer, Top.place, IF Top.place = "union" THEN text ELSE <<"(">> \o text \o <<")">>)
    IN  Append(SubSeq(meant, 1, Len(meant) - 2), Sourced(m, Top.place, Top.source))

-----------------------------------------------------------------------------
Init ==
    /\ query = Empty
    /\ meant = <<Statement("nothing", FALSE)>>
    /\ calls = 0

Call(q, m) ==
    /\ calls < MaxCalls /\ calls' = calls + 1
    /\ calls < MaxMixed \/ \E words \in Topics : ToSet(q.str) \cap UNION Topics \subseteq words
    /\ query' = q
    /\ meant' = m

Opens == Len(meant) < MaxScopes

From(table) ==
    LET m == [Top EXCEPT !.named = "table"]
    IN  /\ ~Top.group
        /\ table = NoTable => Opens /\ Top.table = <<>>
        /\ Call(FromTable(query, table),
                CASE Top.table # <<>> -> meant
                  [] table = NoTable -> Opened(m, "table", FALSE)
                  [] OTHER -> Changed([m EXCEPT !.table = <<table>>, !.source = table]))

As(name) ==
    /\ ~Top.group
    /\ Call(WithAlias(query, name),
            Changed([Said(Top, Top.named, <<"AS", name>>) EXCEPT !.named = "nothing"]))

Selects(m) == m.command \in {<<>>, <<"SELECT">>}

Select(names) ==
    /\ ~Top.group
    /\ Call(SelectList(query, names),
            Changed(IF Selects(Top)
                    THEN [Top EXCEPT !.command = <<"SELECT">>, !.named = "columns",
                                     !.columns = @ \o [i \in DOMAIN names |-> <<names[i]>>]]
                    ELSE Top))

Distinct ==
    /\ ~Top.group
    /\ Call(DistinctRows(query),
            Changed(IF Selects(Top) THEN [Top EXCEPT !.command = <<"SELECT">>, !.distinct = TRUE]
                    ELSE Top))

(* In a group, only conditions of its own clause.                          *)
Allows(place) == Top.group => Top.place = place

Where(c) ==
    /\ Allows("where")
    /\ c.opens # "nothing" => Opens
    /\ Call(WithCondition(query, Parent(query), "WHERE", c),
            SaidOrOpened(Top, "where", c))

WhereExists(c) ==
    /\ Allows("where") /\ Opens
    /\ Call(WithExists(query, c),
            Opened(SaidIf(Top, "where", c, <<"EXISTS">>), "where", FALSE))

(* BETWEEN and IN; a NULL test has its NOT in the value.                   *)
WhereRange(c, value) ==
    /\ Allows("where")
    /\ Call(WithRange(query, c, c.not, value),
            Changed(SaidIf(Top, "where", [c EXCEPT !.not = FALSE],
                           <<c.text>> \o (IF c.not THEN <<"NOT">> ELSE <<>>) \o <<value>>)))

WhereNull(c) ==
    /\ Allows("where")
    /\ Call(WithRange(query, c, FALSE, NullTest(c)),
            Changed(SaidIf(Top, "where", [c EXCEPT !.not = FALSE], <<c.text, NullTest(c)>>)))

Join(word, table, c) ==
    LET new == [word |-> word, table |-> IF table = NoTable THEN <<>> ELSE <<table>>,
                source |-> table, on |-> <<>>]
        m == [Top EXCEPT !.joins = Append(@, new), !.named = "joined"]
    IN  /\ ~Top.group
        /\ table = NoTable \/ (word # "CROSS JOIN" /\ c.opens # "nothing") => Opens
        /\ Call(WithJoin(query, word, table, c),
                CASE table = NoTable -> Opened(m, "joined", FALSE)
                  [] table # NoTable /\ word = "CROSS JOIN" -> Changed(m)
                  [] OTHER -> SaidOrOpened(m, "on", First(c)))

On(c) ==
    /\ Allows("on") /\ (Top.group \/ Top.joins # <<>>)
    /\ c.opens # "nothing" => Opens
    /\ Call(WithCondition(query, Joined(query), "ON", c),
            SaidOrOpened(Top, "on", c))

GroupBy(names) ==
    /\ ~Top.group
    /\ Call(WithList(query, "GROUP BY", names),
            Changed([Top EXCEPT !.groupby = @ \o [i \in DOMAIN names |-> <<names[i]>>],
                                !.named = "nothing"]))

Having(c) ==
    /\ Allows("having")
    /\ c.opens # "nothing" => Opens
    /\ Call(WithCondition(query, Parent(query), "HAVING", c),
            SaidOrOpened(Top, "having", c))

(* Not after a UNION: ORDER BY would be written in front of it.            *)
OrderBy(names) ==
    /\ ~Top.group /\ Top.union = <<>>
    /\ Call(WithList(query, "ORDER BY", names),
            Changed([Top EXCEPT !.orderby = @ \o [i \in DOMAIN names |-> <<names[i]>>],
                                !.named = "nothing"]))

OrderSorted(order) ==
    /\ ~Top.group
    /\ Call(SortedBy(query, order),
            Changed(IF Top.orderby = <<>> THEN Top
                    ELSE [Top EXCEPT !.orderby[Len(Top.orderby)] = <<Head(@), order>>]))

(* Not after LIMIT, which would be written in front.                       *)
Union(word) ==
    /\ ~Top.group /\ Top.limit = <<>> /\ Opens
    /\ Call(WithUnion(query, word),
            Opened([Top EXCEPT !.union = Append(@, word)], "union", FALSE))

Limit(count) ==
    /\ ~Top.group
    /\ Call(Limited(query, count), Changed([Top EXCEPT !.limit = <<count>>]))

Offset(index) ==
    /\ ~Top.group
    /\ Call(WithOffset(query, index),
            Changed([Top EXCEPT !.limit = IF @ = <<>> THEN <<"1">> ELSE @, !.offset = <<index>>]))

(* Only of the outermost statement.                                        *)
Delete ==
    /\ Len(meant) = 1
    /\ Call(WithCommand(query, "DELETE"),
            Changed(IF Top.command = <<>> THEN [Top EXCEPT !.command = <<"DELETE">>] ELSE Top))

(* Only when there is no command yet: FROM would be lost otherwise.        *)
Truncate ==
    /\ Len(meant) = 1 /\ Top.command = <<>>
    /\ Call(Truncated(query), Changed([Top EXCEPT !.command = <<"TRUNCATE TABLE">>]))

(* The end of a scope: of a group with a condition, or of a statement that *)
(* has a table or a list of columns.                                       *)
Pop ==
    /\ Len(meant) > 1
    /\ IF Top.group THEN Top.where # <<>> ELSE Top.table # <<>> \/ Top.columns # <<>>
    /\ Call(Popped(query), Closed)

(* Writing the SQL of the outermost statement completes it.                *)
ToSql ==
    /\ Len(meant) = 1
    /\ Call(Completed(query), Changed(WithAll(Top)))

Clear ==
    /\ calls > 0
    /\ Call(Empty, <<Statement("nothing", FALSE)>>)

Next ==
    \/ \E t \in Table \cup {NoTable} : From(t)
    \/ \E n \in Alias : As(n)
    \/ \E ns \in Columns : Select(ns) \/ GroupBy(ns) \/ OrderBy(ns)
    \/ Distinct
    \/ \E c \in Condition : Where(c) \/ On(c) \/ Having(c)
    \/ \E c \in Condition : c.opens = "subquery" /\ WhereExists(c)
    \/ \E c \in Condition : c.opens = "nothing" /\ (WhereRange(c, "IN (1)") \/ WhereNull(c))
    \/ \E w \in Joins, t \in Table \cup {NoTable}, c \in Condition : Join(w, t, c)
    \/ \E o \in {"ASC", "DESC"} : OrderSorted(o)
    \/ \E w \in {"UNION", "UNION ALL"} : Union(w)
    \/ Limit("2") \/ Offset("3")
    \/ Delete \/ Truncate \/ Pop \/ ToSql \/ Clear

Spec == Init /\ [][Next]_vars

-----------------------------------------------------------------------------
(* Properties.                                                             *)

(* Whatever the order of the calls, and however its scopes were opened and *)
(* closed in between, the SQL of a complete query has each clause once, in *)
(* the order that SQL asks for, with what was said of it in the order in   *)
(* which it was said; conditions are linked and grouped as they were, and  *)
(* brackets pair up (sq_query_c()).                                        *)
SqlIsMeant == Len(meant) = 1 => Sql(query) = Text(WithAll(Top))

(* Rows are parsed by the tables and aliases that are found in the tree    *)
(* (sq_query_get_table_as_names(), for SqStorage-query.c): they are those  *)
(* of FROM and of every JOIN, in order, also when other calls came between *)
(* a table and its alias, or the table is that of a subquery.              *)
SourcesAreFound ==
    LET s == Top.source
        from == IF Top.table = <<>> \/ Top.command = <<"TRUNCATE TABLE">> THEN <<>>
                ELSE << <<s, Top.table>> >>
        joined == [i \in DOMAIN Top.joins |-> <<Top.joins[i].source, Top.joins[i].table>>]
        all == from \o joined
        alias(t) == IF Len(t) > 2 /\ t[Len(t) - 1] = "AS" THEN Last(t) ELSE NoTable
    IN  Len(meant) = 1 =>
          TablesAndAliases(query) =
            IF \E i \in DOMAIN all : all[i][1] = NoTable THEN <<>>
            ELSE [i \in DOMAIN all |-> <<all[i][1], alias(all[i][2])>>]
=============================================================================
