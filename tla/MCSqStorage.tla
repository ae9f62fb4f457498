---------------------------- MODULE MCSqStorage ----------------------------
(***************************************************************************)
(* Two rows of a column that any update writes and a time that is current  *)
(* when the row is made; two types of tables; a chain that writes and      *)
(* reads rows of objects in objects.                                       *)
(*                                                                         *)
(* The rows, the tables and the chain of a storage share no variable, so   *)
(* one run checks them side by side without their product.                 *)
(***************************************************************************)
EXTENDS SqStorage, SqStorageTables, SqxcChain, TLC

VARIABLE part       \* the part of the storage that this behaviour is about

MCInit == part \in {"rows", "tables", "chain"} /\ Init /\ TablesInit /\ ChainInit

MCNext ==
    \/ part = "rows" /\ Next /\ UNCHANGED <<tablesVars, chainVars, part>>
    \/ part = "tables" /\ TablesNext /\ UNCHANGED <<vars, chainVars, part>>
    \/ part = "chain" /\ ChainNext /\ UNCHANGED <<vars, tablesVars, part>>

MCSpec == MCInit /\ [][MCNext]_<<vars, tablesVars, chainVars, part>>

\* Calls leave nothing in the state beside `call', which only the properties
\* read, and they read it as call' in the step that sets it.
WithoutCall == <<rows, chain, refusals, tablesVars, chainVars, part>>

MCIds == {1, 2}
MCFields == {"name", "stamp"}
MCKind == [f \in MCFields |-> IF f = "name" THEN "plain" ELSE "created"]
MCContents == {"zero", "now"}
MCRequests == {{}, {"name"}, {"stamp"}, {"id"}}
\* Marks that TLC can compare with sets of ids and with rows.
MCNoCondition == {-1}
MCInInput == {-2}
MCSelect == {-3}
MCNoRow == <<>>
MCTypes == {"user", "city", "post"}

\* A row has a child, a value and an array of values; the child has two
\* values, a member that the reader does not know, an array of objects and a
\* pointer to an object.  The child is inside the row, behind a pointer, or
\* inside at offset 0.
Entry(name, type, at) == [name |-> name, type |-> type, at |-> at, known |-> name # "old"]
Structure(entries) == [kind |-> "object", entry |-> entries]
RowWith(at) == Structure(
    <<Entry("child", "child", at), Entry("x", "value", "inside"), Entry("tags", "tags", "inside")>>)
ArrayOf(t) == [kind |-> "array", of |-> t]
JointOf(t) == [kind |-> "joint", entry |-> <<Entry("a", t, "pointer"), Entry("b", t, "pointer")>>]

MCType ==
    "value" :> [kind |-> "value"]
    @@ "item" :> Structure(<<Entry("x", "value", "inside")>>)
    @@ "items" :> ArrayOf("item")
    @@ "tags" :> ArrayOf("value")
    @@ "child" :> Structure(
        <<Entry("x", "value", "inside"), Entry("old", "item", "inside"),
          Entry("items", "items", "inside"), Entry("next", "item", "pointer"),
          Entry("y", "value", "inside")>>)
    @@ "inside" :> RowWith("inside") @@ "pointer" :> RowWith("pointer") @@ "first" :> RowWith("first")
    @@ "insides" :> ArrayOf("inside") @@ "pointers" :> ArrayOf("pointer") @@ "firsts" :> ArrayOf("first")
    @@ "inside2" :> JointOf("inside") @@ "pointer2" :> JointOf("pointer") @@ "first2" :> JointOf("first")
MCTables == {"inside", "pointer", "first"}

ItemOf(content) == [x |-> content]
ChildOf(x, items, next) ==
    [x |-> x, old |-> ItemOf("1"), items |-> items, next |-> next, y |-> "1"]
Full == [child |-> ChildOf("1", <<ItemOf("1"), ItemOf("0")>>, ItemOf("1")),
         x |-> "word", tags |-> <<"1", "word">>]
Sparse == [child |-> ChildOf("0", <<>>, ItemOf("0")), x |-> "1", tags |-> <<>>]
NoNext == [child |-> ChildOf("1", <<ItemOf("1")>>, Null), x |-> "1", tags |-> <<"1">>]
NoChild == [child |-> Null, x |-> "1", tags |-> <<"1">>]
MCInstances ==
    [t \in MCTables |->
        CASE t = "inside" -> {Full, Sparse, NoNext}
          [] t = "pointer" -> {Full, NoChild}
          [] t = "first" -> {Full, Sparse}]
=============================================================================
