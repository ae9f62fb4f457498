------------------------------ MODULE MCSqQuery ------------------------------
EXTENDS SqQuery

MCColumns == {<<"a", "b">>}
MCCondition ==
    {[link |-> "AND", not |-> FALSE, text |-> "p", opens |-> "nothing"],
     [link |-> "OR", not |-> TRUE, text |-> "q", opens |-> "nothing"],
     [link |-> "AND", not |-> TRUE, text |-> "c IN", opens |-> "subquery"],
     [link |-> "OR", not |-> FALSE, text |-> "", opens |-> "group"]}
\* Conditions and their scopes; tables and their aliases; the rest of a
\* statement.
MCTopics ==
    {{"FROM", "WHERE", "EXISTS"}, {"FROM", "LEFT JOIN", "CROSS JOIN", "ON", "AS"},
     {"SELECT", "AS", "GROUP BY", "HAVING", "ORDER BY", "UNION", "UNION ALL", "LIMIT"}}
MCJoins == {"LEFT JOIN", "CROSS JOIN"}

\* Nodes are numbered as they were made; the same tree made in another order
\* is the same query.
RECURSIVE Preorder(_, _)
Preorder(q, n) == <<n>> \o FlattenSeq([i \in DOMAIN q.kids[n] |-> Preorder(q, q.kids[n][i])])

Shape ==
    LET nodes == Preorder(query, 1)
        number == [n \in 0 .. Len(nodes) |->
                      IF n = 0 THEN 0 ELSE CHOOSE i \in DOMAIN nodes : nodes[i] = n]
    IN  <<[i \in DOMAIN nodes |-> <<query.str[nodes[i]], Len(query.kids[nodes[i]])>>],
          [s \in DOMAIN query.nested |->
             [f \in DOMAIN query.nested[s] |-> number[query.nested[s][f]]]]>>

WithoutCalls == <<Shape, meant>>
=============================================================================
