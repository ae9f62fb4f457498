--------------------------- MODULE SqStorageProofs ---------------------------
(***************************************************************************)
(* Proofs about SqStorage, for every table, structure and set of requests. *)
(*                                                                         *)
(* What makes the properties inductive is Debts: whatever the chain still  *)
(* has was named by a refused update, and the list of columns never stays  *)
(* without its condition, so that a chain without a condition is clean.    *)
(***************************************************************************)
EXTENDS SqStorage, SqStorageTables, FiniteSetTheorems, TLAPS

USE IdsAssumption, FieldsAssumption, ContentsAssumption, RequestsAssumption,
    MarksAssumption, BoundsAssumption
    DEF IdsAssumption, FieldsAssumption, ContentsAssumption, RequestsAssumption,
        MarksAssumption, BoundsAssumption

\* What refused updates left behind in the chain is theirs: the history
\* `owed' covers the condition, as it stands or as the buffer holds it, and
\* columns stay only beside a condition (SqxcSql.c, SQXC_CTRL_FINISH).
Debts ==
    /\ condition \in SUBSET Ids => condition \subseteq owed
    /\ condition = InInput /\ input # Select => input \subseteq owed
    /\ columns # {} => condition # NoCondition

IInv == TypeOK /\ Debts

-----------------------------------------------------------------------------
\* A row that an insertion or an update stores is a row.
(* What is stored and what is updated are rows.                            *)
LEMMA RowsStayRows ==
    ASSUME NEW row \in Row
    PROVE  /\ StoredRow(row) \in Row
           /\ \A old \in Row, cols \in SUBSET Columns :
                 UpdatedRow(old, row, cols) \in Row
<1>1. StoredRow(row) \in Row
  BY DEF StoredRow, Row, Inserted
<1>2. ASSUME NEW old \in Row, NEW cols \in SUBSET Columns
      PROVE  UpdatedRow(old, row, cols) \in Row
  BY DEF UpdatedRow, Row, Updated
<1> QED  BY <1>1, <1>2

\* The record of a call is of its type.
(* What is noted of a call.                                                *)
LEMMA CalledTyped ==
    ASSUME NEW op \in Calls, NEW refused \in BOOLEAN,
           NEW where \in SUBSET Ids, NEW asked \in SUBSET Columns,
           NEW row \in Row, NEW ret \in Int,
           Called(op, refused, where, asked, row, ret)
    PROVE  /\ call'.op \in Calls /\ call'.refused \in BOOLEAN
           /\ call'.where \subseteq Ids /\ call'.asked \subseteq Columns
           /\ call'.row \in Row /\ call'.ret \in Int
  BY DEF Called

\* Of what an update sends: the type of the next state, and its debts.
(* An update that is sent keeps the invariant, with whatever condition,    *)
(* columns and buffer, if the rows that these select are owed or asked     *)
(* for.                                                                    *)
LEMMA SendKeeps ==
    ASSUME IInv,
           NEW op \in {"update", "updateAll"},
           NEW where \in SUBSET Ids, NEW asked \in SUBSET Columns,
           NEW row \in Row,
           NEW cond \in Conditions, cond # NoCondition,
           NEW cols \in SUBSET Columns,
           NEW buffer \in {Select} \cup SUBSET Ids,
           cond \in SUBSET Ids => cond \subseteq owed \cup where,
           cond = InInput /\ buffer # Select => buffer \subseteq owed \cup where,
           SendUpdate(op, where, asked, row, cond, cols, buffer)
    PROVE  IInv'
<1> DEFINE text == TextAt(cond, buffer)
<1> USE DEF IInv
<1>0. /\ input' = buffer
      /\ op \in Calls
  BY DEF SendUpdate, Calls
<1>1. CASE AcceptUpdate(text, row, cols)
           /\ Called(op, FALSE, where, asked, row, Cardinality(Affected(text)))
           /\ text # Select
  <2>1. rows' \in [Ids -> Row \cup {NoRow}]
    <3>1. \A i \in Affected(text) : rows[i] \in Row
      BY DEF TypeOK, Affected, Present
    <3> QED  BY <1>1, <3>1, RowsStayRows DEF AcceptUpdate, TypeOK
  <2>2. Affected(text) \in SUBSET Ids
    BY DEF Affected, Present
  <2>3. Cardinality(Affected(text)) \in Int
    <3>1. IsFiniteSet(Affected(text))
      BY <2>2, FS_Subset
    <3> QED  BY <3>1, FS_CardinalityType
  <2>4. /\ condition' = NoCondition /\ columns' = {} /\ owed' = {}
        /\ refusals' = refusals
    BY <1>1 DEF AcceptUpdate, ClearChain
  <2>5. Debts'
    BY <2>4 DEF Debts
  <2>6. TypeOK'
    BY <1>0, <1>1, <2>1, <2>3, <2>4 DEF TypeOK, Called, Conditions
  <2> QED  BY <2>5, <2>6
<1>2. CASE /\ UNCHANGED rows
           /\ refusals' \in Nat
           /\ KeepChain(cond, cols, where)
           /\ \E ret \in Int : Called(op, TRUE, where, asked, row, ret)
  <2>1. Debts'
    BY <1>0, <1>2 DEF Debts, KeepChain
  <2>2. PICK ret \in Int : call' = [op |-> op, refused |-> TRUE, where |-> where,
                                  asked |-> asked, row |-> row, ret |-> ret]
    BY <1>2 DEF Called
  <2>3. TypeOK'
    BY <1>0, <1>2, <2>2 DEF TypeOK, KeepChain
  <2> QED  BY <2>1, <2>3
<1>3. \/ AcceptUpdate(text, row, cols)
         /\ Called(op, FALSE, where, asked, row, Cardinality(Affected(text)))
         /\ text # Select
      \/ /\ UNCHANGED rows
         /\ refusals' \in Nat
         /\ KeepChain(cond, cols, where)
         /\ \E ret \in Int : Called(op, TRUE, where, asked, row, ret)
  <2>1. 0 \in Int /\ Earlier \in Int
    BY DEF Earlier
  <2>2. refusals \in Nat /\ refusals + 1 \in Nat
    BY DEF TypeOK
  <2>3. \/ /\ text # Select
           /\ AcceptUpdate(text, row, cols)
           /\ Called(op, FALSE, where, asked, row, Cardinality(Affected(text)))
        \/ /\ MayRefuse
           /\ rows' = rows
           /\ KeepChain(cond, cols, where)
           /\ Called(op, TRUE, where, asked, row, 0)
        \/ /\ UNCHANGED <<rows, refusals>>
           /\ KeepChain(cond, cols, where)
           /\ Called(op, TRUE, where, asked, row, Earlier)
    BY DEF SendUpdate
  <2>4. MayRefuse => refusals' \in Nat
    BY <2>2 DEF MayRefuse
  <2> HIDE DEF text
  <2> QED  BY <2>1, <2>2, <2>3, <2>4
<1> QED  BY <1>1, <1>2, <1>3

-----------------------------------------------------------------------------
\* The invariant holds at the start.
(* The invariant, action by action.                                        *)
LEMMA InitKeeps == Init => IInv
  BY DEF Init, IInv, TypeOK, Debts, Conditions, Row, Blank, Calls

\* An update finds the chain clean or in debt, and sends it on the same way.
LEMMA UpdateKeeps == IInv /\ Update => IInv'
<1> SUFFICES ASSUME IInv, NEW row \in Row, NEW id \in Ids,
                    IF condition = NoCondition
                    THEN SendUpdate("update", {id}, {}, row, InInput, columns, {id})
                    ELSE SendUpdate("update", {id}, {}, row, condition, columns, input)
             PROVE  IInv'
  BY DEF Update
<1>1. CASE condition = NoCondition
  <2>1. /\ InInput \in Conditions /\ InInput # NoCondition
        /\ {id} \in {Select} \cup SUBSET Ids /\ {} \in SUBSET Columns
        /\ columns \in SUBSET Columns /\ InInput \notin SUBSET Ids
    BY DEF IInv, TypeOK, Conditions
  <2> QED  BY <1>1, <2>1, SendKeeps
<1>2. CASE condition # NoCondition
  <2>1. /\ condition \in Conditions /\ columns \in SUBSET Columns
        /\ input \in {Select} \cup SUBSET Ids
        /\ condition \in SUBSET Ids => condition \subseteq owed \cup {id}
        /\ condition = InInput /\ input # Select => input \subseteq owed \cup {id}
    BY DEF IInv, TypeOK, Debts
  <2> QED  BY <1>2, <2>1, SendKeeps
<1> QED  BY <1>1, <1>2

LEMMA UpdateAllKeeps == IInv /\ UpdateAll => IInv'
<1> SUFFICES ASSUME IInv, NEW row \in Row, NEW where \in SUBSET Ids,
                    NEW asked \in Requests,
                    SendUpdate("updateAll", where, asked, row, where,
                               columns \cup asked, input)
             PROVE  IInv'
  BY DEF UpdateAll
<1>1. /\ asked \in SUBSET Columns /\ columns \cup asked \in SUBSET Columns
      /\ where \in Conditions /\ where # NoCondition /\ where # InInput
      /\ input \in {Select} \cup SUBSET Ids
  BY DEF IInv, TypeOK, Conditions, Columns
<1> QED  BY <1>1, SendKeeps

\* Every step keeps the invariant.
LEMMA NextKeeps == IInv /\ [Next]_vars => IInv'
<1> SUFFICES ASSUME IInv, [Next]_vars PROVE IInv'
  OBVIOUS
<1> USE DEF IInv
<1>1. CASE Insert
  <2> PICK row \in Row, id \in Ids :
         \/ /\ rows[id] = NoRow
            /\ rows' = [rows EXCEPT ![id] = StoredRow(row)]
            /\ ClearChain
            /\ Called("insert", FALSE, {id}, {}, row, id)
            /\ UNCHANGED <<input, refusals>>
         \/ /\ IF rows[id] # NoRow THEN UNCHANGED refusals ELSE MayRefuse
            /\ Called("insert", TRUE, {id}, {}, row, Earlier)
            /\ UNCHANGED <<rows, chain>>
    BY <1>1 DEF Insert
  <2>1. /\ id \in Int /\ Earlier \in Int /\ {id} \subseteq Ids
        /\ refusals + 1 \in Nat
    <3>1. Earlier \in Int
      BY DEF Earlier
    <3>2. refusals + 1 \in Nat
      BY DEF TypeOK
    <3>3. id \in Int
      OBVIOUS
    <3> QED  BY <3>1, <3>2, <3>3
  <2>2. Debts'
    BY DEF Debts, ClearChain, chain
  <2>3. rows' \in [Ids -> Row \cup {NoRow}]
    BY RowsStayRows DEF TypeOK
  <2>4. refusals' \in Nat
    BY <2>1 DEF TypeOK, MayRefuse
  <2>5. /\ condition' \in Conditions /\ columns' \subseteq Columns
        /\ input' \in {Select} \cup SUBSET Ids /\ owed' \subseteq Ids
    BY DEF TypeOK, ClearChain, Conditions, chain
  <2>6. /\ call'.op \in Calls /\ call'.refused \in BOOLEAN
        /\ call'.where \subseteq Ids /\ call'.asked \subseteq Columns
        /\ call'.row \in Row /\ call'.ret \in Int
    <3>1. {} \in SUBSET Columns /\ {id} \in SUBSET Ids /\ "insert" \in Calls
      BY <2>1 DEF Calls
    <3>2. CASE Called("insert", FALSE, {id}, {}, row, id)
      BY <2>1, <3>1, <3>2, CalledTyped
    <3>3. CASE Called("insert", TRUE, {id}, {}, row, Earlier)
      BY <2>1, <3>1, <3>3, CalledTyped
    <3> QED  BY <3>2, <3>3
  <2> QED  BY <2>2, <2>3, <2>4, <2>5, <2>6 DEF TypeOK
<1>2. CASE Update     BY <1>2, UpdateKeeps
<1>3. CASE UpdateAll  BY <1>3, UpdateAllKeeps
<1>4. CASE Get
  <2>1. Debts'
    BY <1>4 DEF Get, Debts, TypeOK
  <2>2. TypeOK'
    BY <1>4 DEF Get, TypeOK, Called, Calls, Conditions, Row, Blank
  <2> QED  BY <2>1, <2>2
<1>5. CASE Remove
  <2> PICK where \in SUBSET Ids :
         /\ \/ /\ rows' = [i \in Ids |-> IF i \in where THEN NoRow ELSE rows[i]]
               /\ Called("remove", FALSE, where, {}, Blank, 0)
               /\ UNCHANGED refusals
            \/ /\ MayRefuse
               /\ Called("remove", TRUE, where, {}, Blank, 0)
               /\ UNCHANGED rows
         /\ UNCHANGED chain
    BY <1>5 DEF Remove
  <2>1. Debts'
    BY DEF Debts, chain
  <2>2. rows' \in [Ids -> Row \cup {NoRow}]
    BY DEF TypeOK
  <2>3. refusals' \in Nat
    <3>1. refusals + 1 \in Nat
      BY DEF TypeOK
    <3> QED  BY <3>1 DEF MayRefuse, TypeOK
  <2>4. /\ call'.op \in Calls /\ call'.refused \in BOOLEAN
        /\ call'.where \subseteq Ids /\ call'.asked \subseteq Columns
        /\ call'.row \in Row /\ call'.ret \in Int
    <3>1. /\ Blank \in Row /\ 0 \in Int /\ "remove" \in Calls
          /\ {} \in SUBSET Columns
      BY DEF Calls, Row, Blank
    <3>2. CASE Called("remove", FALSE, where, {}, Blank, 0)
      BY <3>1, <3>2, CalledTyped
    <3>3. CASE Called("remove", TRUE, where, {}, Blank, 0)
      BY <3>1, <3>3, CalledTyped
    <3> QED  BY <3>2, <3>3
  <2>5. TypeOK'
    BY <2>2, <2>3, <2>4 DEF TypeOK, chain
  <2> QED  BY <2>1, <2>5
<1>6. CASE Elsewhere
  BY <1>6 DEF Elsewhere, TypeOK, Debts, chain, Called, Calls, Row, Blank
<1>7. CASE UNCHANGED vars
  BY <1>7 DEF vars, chain, TypeOK, Debts
<1> QED  BY <1>1, <1>2, <1>3, <1>4, <1>5, <1>6, <1>7 DEF Next

\* The storage, its chains and the history stay of their types, and what the
\* chain keeps is owed.
THEOREM Invariant == Spec => []IInv
  BY InitKeeps, NextKeeps, PTL DEF Spec

\* The storage and its chains stay of their types (SqStorage.c, SqxcSql.c).
THEOREM TypeCorrect == Spec => []TypeOK
<1>1. IInv => TypeOK
  BY DEF IInv
<1> QED  BY <1>1, Invariant, PTL

-----------------------------------------------------------------------------
\* Only these actions are calls of an update, and this is what they send.
(* Every update is sent in one of these ways.                              *)
LEMMA UpdatesSend ==
    ASSUME IInv, Next, IsUpdate(call'.op)
    PROVE  \E op \in {"update", "updateAll"}, row \in Row, where \in SUBSET Ids,
              asked \in SUBSET Columns :
              \/ /\ condition = NoCondition
                 /\ SendUpdate(op, where, asked, row, InInput, asked, where)
              \/ /\ condition = NoCondition
                 /\ SendUpdate(op, where, asked, row, where, asked, input)
              \/ /\ condition # NoCondition
                 /\ \E cols \in SUBSET Columns :
                      \/ SendUpdate(op, where, asked, row, condition, cols, input)
                      \/ SendUpdate(op, where, asked, row, where, cols, input)
<1>1. columns \in SUBSET Columns /\ (condition = NoCondition => columns = {})
  BY DEF IInv, TypeOK, Debts
<1>2. CASE Update
  <2> PICK row \in Row, id \in Ids :
        IF condition = NoCondition
        THEN SendUpdate("update", {id}, {}, row, InInput, columns, {id})
        ELSE SendUpdate("update", {id}, {}, row, condition, columns, input)
    BY <1>2 DEF Update
  <2>1. {id} \in SUBSET Ids /\ {} \in SUBSET Columns
    OBVIOUS
  <2>2. CASE condition = NoCondition
    <3>1. SendUpdate("update", {id}, {}, row, InInput, {}, {id})
      BY <1>1, <2>2
    <3> QED  BY <2>1, <2>2, <3>1
  <2>3. CASE condition # NoCondition
    BY <1>1, <2>1, <2>3
  <2> QED  BY <2>2, <2>3
<1>3. CASE UpdateAll
  <2> PICK row \in Row, where \in SUBSET Ids, asked \in Requests :
        SendUpdate("updateAll", where, asked, row, where, columns \cup asked, input)
    BY <1>3 DEF UpdateAll
  <2>1. asked \in SUBSET Columns /\ columns \cup asked \in SUBSET Columns
    BY <1>1 DEF Columns
  <2>2. CASE condition = NoCondition
    <3>1. SendUpdate("updateAll", where, asked, row, where, asked, input)
      BY <1>1, <2>2
    <3> QED  BY <2>1, <2>2, <3>1
  <2>3. CASE condition # NoCondition
    BY <2>1, <2>3
  <2> QED  BY <2>2, <2>3
<1>4. ~Insert /\ ~Get /\ ~Remove /\ ~Elsewhere
  <2>1. Insert => call'.op = "insert"
    BY DEF Insert, Called
  <2>2. Get => call'.op = "get"
    BY DEF Get, Called
  <2>3. Remove => call'.op = "remove"
    BY DEF Remove, Called
  <2>4. Elsewhere => call'.op = "elsewhere"
    BY DEF Elsewhere, Called
  <2> QED  BY <2>1, <2>2, <2>3, <2>4 DEF IsUpdate
<1> QED  BY <1>2, <1>3, <1>4 DEF Next

\* What an update changes is what its WHERE reads as, and what it says of
\* itself is what it was asked.
(* The rows that an update changes, and what it makes of them.             *)
LEMMA SendChanges ==
    ASSUME NEW op, NEW where, NEW asked, NEW row, NEW cond, NEW cols, NEW buffer,
           SendUpdate(op, where, asked, row, cond, cols, buffer),
           NEW i \in Ids
    PROVE  /\ call'.where = where /\ call'.asked = asked /\ call'.row = row
           /\ rows'[i] # rows[i] =>
                 TextAt(cond, buffer) # Select /\ i \in TextAt(cond, buffer)
           /\ call'.refused \/ rows'[i] =
                 IF i \in TextAt(cond, buffer) /\ rows[i] # NoRow
                 THEN UpdatedRow(rows[i], row, cols) ELSE rows[i]
<1>1. CASE AcceptUpdate(TextAt(cond, buffer), row, cols)
           /\ TextAt(cond, buffer) # Select
           /\ \E ret : Called(op, FALSE, where, asked, row, ret)
  BY <1>1 DEF AcceptUpdate, Called, Affected, Present
<1>2. CASE rows' = rows /\ \E ret : Called(op, TRUE, where, asked, row, ret)
  BY <1>2 DEF Called
<1> QED  BY <1>1, <1>2 DEF SendUpdate

\* An update changes rows of its own, or rows that refused updates named and
\* the chain still had, and no others (sq_storage_update(), SqxcSql.c).
THEOREM StrayUpdatesAreOwedAlways == Spec => StrayUpdatesAreOwed
<1> DEFINE Stray == IsUpdate(call'.op) =>
        \A i \in Ids : rows'[i] # rows[i] => i \in call'.where \cup owed
<1>1. ASSUME IInv, Next, IsUpdate(call'.op), NEW i \in Ids, rows'[i] # rows[i]
      PROVE  i \in call'.where \cup owed
  <2>1. ASSUME NEW op, NEW where, NEW asked, NEW row, NEW cond, NEW cols, NEW buffer,
               SendUpdate(op, where, asked, row, cond, cols, buffer)
        PROVE  /\ call'.where = where
               /\ TextAt(cond, buffer) # Select /\ i \in TextAt(cond, buffer)
    BY <1>1, <2>1, SendChanges
  <2>2. /\ TextAt(condition, input) # Select
        /\ condition # NoCondition
        => TextAt(condition, input) \subseteq owed
    BY <1>1 DEF TextAt, IInv, TypeOK, Debts, Conditions
  <2>3. PICK op \in {"update", "updateAll"}, row \in Row, where \in SUBSET Ids,
             asked \in SUBSET Columns, cols \in SUBSET Columns :
        \/ SendUpdate(op, where, asked, row, InInput, cols, where)
        \/ SendUpdate(op, where, asked, row, where, cols, input)
        \/ /\ condition # NoCondition
           /\ SendUpdate(op, where, asked, row, condition, cols, input)
    BY <1>1, UpdatesSend
  <2>4. TextAt(InInput, where) = where /\ TextAt(where, input) = where
    BY DEF TextAt
  <2>5. CASE SendUpdate(op, where, asked, row, InInput, cols, where)
    BY <2>1, <2>4, <2>5
  <2>6. CASE SendUpdate(op, where, asked, row, where, cols, input)
    BY <2>1, <2>4, <2>6
  <2>7. CASE /\ condition # NoCondition
             /\ SendUpdate(op, where, asked, row, condition, cols, input)
    BY <2>1, <2>2, <2>7
  <2> QED  BY <2>3, <2>5, <2>6, <2>7
<1>2. IInv /\ [Next]_vars => [Stray]_vars
  BY <1>1
<1>3. Spec => [][Stray]_vars
  BY <1>2, Invariant, PTL DEF Spec
<1> QED  BY <1>3 DEF StrayUpdatesAreOwed

\* With nothing left in the chain, an update writes the rows and the columns
\* it was asked to, and no others (sq_storage_update(),
\* sq_storage_update_all()).
THEOREM UpdatesAreMeantAlways == Spec => UpdatesAreMeant
<1> DEFINE Meant ==
        IsUpdate(call'.op) /\ ~call'.refused /\ condition = NoCondition =>
        \A i \in Ids :
            IF i \in call'.where /\ rows[i] # NoRow
            THEN \A f \in Fields :
                    Takes(rows'[i], rows[i], f, call'.row, call'.asked)
            ELSE rows'[i] = rows[i]
<1>1. ASSUME IInv, Next, IsUpdate(call'.op), ~call'.refused,
             condition = NoCondition, NEW i \in Ids
      PROVE  IF i \in call'.where /\ rows[i] # NoRow
             THEN \A f \in Fields :
                     Takes(rows'[i], rows[i], f, call'.row, call'.asked)
             ELSE rows'[i] = rows[i]
  <2> PICK op \in {"update", "updateAll"}, row \in Row, where \in SUBSET Ids,
           asked \in SUBSET Columns :
        \/ SendUpdate(op, where, asked, row, InInput, asked, where)
        \/ SendUpdate(op, where, asked, row, where, asked, input)
    BY <1>1, UpdatesSend
  <2>1. TextAt(InInput, where) = where /\ TextAt(where, input) = where
    BY DEF TextAt
  <2>2. /\ call'.where = where /\ call'.asked = asked /\ call'.row = row
        /\ rows'[i] = IF i \in where /\ rows[i] # NoRow
                      THEN UpdatedRow(rows[i], row, asked) ELSE rows[i]
    <3>1. CASE SendUpdate(op, where, asked, row, InInput, asked, where)
      BY <1>1, <2>1, <3>1, SendChanges
    <3>2. CASE SendUpdate(op, where, asked, row, where, asked, input)
      BY <1>1, <2>1, <3>2, SendChanges
    <3> QED  BY <3>1, <3>2
  <2>3. CASE i \in where /\ rows[i] # NoRow
    <3>1. rows[i] \in Row /\ rows'[i] = UpdatedRow(rows[i], row, asked)
      BY <1>1, <2>2, <2>3 DEF IInv, TypeOK
    <3>2. ASSUME NEW f \in Fields PROVE Takes(rows'[i], rows[i], f, row, asked)
      <4>1. Kind[f] \in Kinds
        OBVIOUS
      <4>2. rows'[i][f] = IF Kind[f] = "updated" THEN Now
                          ELSE IF f \in Updated(row, asked) THEN row[f] ELSE rows[i][f]
        BY <3>1 DEF UpdatedRow
      <4> QED  BY <4>1, <4>2 DEF Takes, Updated, IsLeftOut, Kinds
    <3> QED  BY <2>2, <2>3, <3>2
  <2>4. CASE ~(i \in where /\ rows[i] # NoRow)
    BY <2>2, <2>4
  <2> QED  BY <2>3, <2>4
<1>2. IInv /\ [Next]_vars => [Meant]_vars
  BY <1>1
<1>3. Spec => [][Meant]_vars
  BY <1>2, Invariant, PTL DEF Spec
<1> QED  BY <1>3 DEF UpdatesAreMeant

\* An accepted insertion or update leaves no condition and no columns to the
\* next one (SqxcSql.c, SQXC_CTRL_FINISH).
THEOREM AcceptedLeavesNothingAlways == Spec => AcceptedLeavesNothing
<1> DEFINE Nothing ==
        call'.op \in {"insert", "update", "updateAll"} /\ ~call'.refused =>
        condition' = NoCondition /\ columns' = {}
<1>1. ASSUME IInv, Next, IsUpdate(call'.op), ~call'.refused
      PROVE  condition' = NoCondition /\ columns' = {}
  <2>1. ASSUME NEW op, NEW where, NEW asked, NEW row, NEW cond, NEW cols, NEW buffer,
               SendUpdate(op, where, asked, row, cond, cols, buffer)
        PROVE  condition' = NoCondition /\ columns' = {}
    BY <1>1, <2>1 DEF SendUpdate, Called, AcceptUpdate, ClearChain
  <2> QED  BY <1>1, <2>1, UpdatesSend
<1>2. ASSUME Next, call'.op = "insert", ~call'.refused
      PROVE  condition' = NoCondition /\ columns' = {}
  <2>1. Insert
    <3>1. ~Get /\ ~Remove /\ ~Elsewhere
      BY <1>2 DEF Get, Remove, Elsewhere, Called
    <3>2. ~Update /\ ~UpdateAll
      <4>1. ASSUME NEW op \in {"update", "updateAll"}, NEW where, NEW asked,
                   NEW row, NEW cond, NEW cols, NEW buffer,
                   SendUpdate(op, where, asked, row, cond, cols, buffer)
            PROVE  FALSE
        BY <1>2, <4>1 DEF SendUpdate, Called
      <4> QED  BY <4>1 DEF Update, UpdateAll
    <3> QED  BY <1>2, <3>1, <3>2 DEF Next
  <2> QED  BY <1>2, <2>1 DEF Insert, Called, ClearChain
<1>3. IInv /\ [Next]_vars => [Nothing]_vars
  BY <1>1, <1>2 DEF IsUpdate
<1>4. Spec => [][Nothing]_vars
  BY <1>3, Invariant, PTL DEF Spec
<1> QED  BY <1>4 DEF AcceptedLeavesNothing

\* An accepted insertion adds one row of the structure's values and the
\* defaults, and returns its id (sq_storage_insert()).
THEOREM InsertsAreWholeAlways == Spec => InsertsAreWhole
<1> DEFINE Whole ==
        call'.op = "insert" /\ ~call'.refused =>
        \E i \in Ids :
            /\ rows[i] = NoRow
            /\ call'.ret = i
            /\ \A j \in Ids \ {i} : rows'[j] = rows[j]
            /\ \A f \in Fields :
                  IF Kind[f] \in {"created", "updated"} /\ call'.row[f] = Zero
                  THEN rows'[i][f] = Now
                  ELSE Kind[f] # "query" => rows'[i][f] = call'.row[f]
<1>1. ASSUME IInv, Insert, ~call'.refused PROVE Whole
  <2> PICK row \in Row, i \in Ids :
        /\ rows[i] = NoRow
        /\ rows' = [rows EXCEPT ![i] = StoredRow(row)]
        /\ call' = [op |-> "insert", refused |-> FALSE, where |-> {i},
                    asked |-> {}, row |-> row, ret |-> i]
    BY <1>1 DEF Insert, Called
  <2>1. rows'[i] = StoredRow(row) /\ \A j \in Ids \ {i} : rows'[j] = rows[j]
    BY <1>1 DEF IInv, TypeOK
  <2>2. ASSUME NEW f \in Fields
        PROVE  IF Kind[f] \in {"created", "updated"} /\ row[f] = Zero
               THEN rows'[i][f] = Now
               ELSE Kind[f] # "query" => rows'[i][f] = row[f]
    BY <2>1 DEF StoredRow, Inserted, IsLeftOut
  <2> QED  BY <2>1, <2>2
<1>2. ASSUME Next, call'.op = "insert" PROVE Insert
  <2>1. ~Get /\ ~Remove /\ ~Elsewhere
    BY <1>2 DEF Get, Remove, Elsewhere, Called
  <2>2. ASSUME NEW op \in {"update", "updateAll"}, NEW where, NEW asked,
               NEW row, NEW cond, NEW cols, NEW buffer,
               SendUpdate(op, where, asked, row, cond, cols, buffer)
        PROVE  FALSE
    BY <1>2, <2>2 DEF SendUpdate, Called
  <2>3. ~Update /\ ~UpdateAll
    BY <2>2 DEF Update, UpdateAll
  <2> QED  BY <1>2, <2>1, <2>3 DEF Next
<1>3. IInv /\ [Next]_vars => [Whole]_vars
  BY <1>1, <1>2
<1>4. Spec => [][Whole]_vars
  BY <1>3, Invariant, PTL DEF Spec
<1> QED  BY <1>4 DEF InsertsAreWhole

-----------------------------------------------------------------------------
\* The copy of the schema's tables.  When it is of the schema's version it
\* has them all, and what else it has fits into what the array was longer.
CopyInv ==
    /\ live \subseteq Types /\ tables \subseteq Types /\ length \in Nat
    /\ version \in Nat /\ tablesVersion \in Nat /\ tablesVersion <= version
    /\ tablesVersion = version =>
          /\ live \subseteq tables
          /\ Cardinality(live) <= length
          /\ length = Cardinality(live) => tables = live

(* A copy that holds no more tables than the schema holds no others.       *)
LEMMA LiveIsCounted ==
    ASSUME CopyInv, NEW stale \in SUBSET tables
    PROVE  /\ Cardinality(live) \in Nat /\ Cardinality(stale) \in Nat
           /\ Cardinality(stale) <= 0 => stale = {}
<1>1. IsFiniteSet(live) /\ IsFiniteSet(stale)
  BY VersionsAssumption, FS_Subset DEF CopyInv, VersionsAssumption
<1>2. Cardinality(live) \in Nat /\ Cardinality(stale) \in Nat
  BY <1>1, FS_CardinalityType
<1>3. Cardinality(stale) = 0 <=> stale = {}
  BY <1>1, FS_EmptySet
<1> QED BY <1>2, <1>3

\* A search leaves a copy of the schema's version.
(* Copying the tables anew.                                                *)
LEMMA RefreshCopies ==
    ASSUME CopyInv, RefreshTables, UNCHANGED <<live, version>>
    PROVE  CopyInv' /\ tablesVersion' = version
<1>1. CASE tablesVersion = version
  BY <1>1 DEF RefreshTables, CopyInv
<1>2. CASE tablesVersion # version
  <2> DEFINE count == Cardinality(live)
  <2>1. PICK stale \in SUBSET tables :
           /\ tablesVersion' = version
           /\ length' = IF count > length THEN count ELSE length
           /\ Cardinality(stale) <= length' - count
           /\ tables' = live \cup stale
    BY <1>2 DEF RefreshTables
  <2>2. /\ count \in Nat /\ length \in Nat /\ Cardinality(stale) \in Nat
        /\ Cardinality(stale) <= 0 => stale = {}
    BY LiveIsCounted DEF CopyInv
  <2> HIDE DEF count
  <2>3. length' \in Nat /\ count <= length'
    BY <2>1, <2>2
  <2>4. length' = count => tables' = live
    BY <2>1, <2>2, <2>3
  <2> QED BY <2>1, <2>3, <2>4 DEF CopyInv, count
<1> QED BY <1>1, <1>2

(* The invariant of the copy.                                              *)
LEMMA CopyStep == ASSUME CopyInv, [TablesNext]_tablesVars PROVE CopyInv'
<1>1. CASE Migrate
  BY <1>1 DEF Migrate, CopyInv
<1>2. CASE FindByType
  <2>1. RefreshTables /\ UNCHANGED <<live, version>>
    BY <1>2 DEF FindByType
  <2> QED BY <2>1, RefreshCopies
<1>3. CASE UNCHANGED tablesVars
  BY <1>3 DEF tablesVars, CopyInv
<1> QED BY <1>1, <1>2, <1>3 DEF TablesNext

\* Whatever the migrations do to the schema in between, a search by type
\* finds every table that the schema has, and finds one that it has not only
\* when the schema has become smaller than the copy was
\* (sq_storage_find_by_type()).
THEOREM FoundIsLiveAlways == TablesSpec => FoundIsLive
<1>1. TablesInit => CopyInv
  <2> SUFFICES ASSUME TablesInit PROVE CopyInv
    OBVIOUS
  <2>1. Cardinality({}) = 0
    BY FS_EmptySet
  <2> QED BY <2>1 DEF TablesInit, CopyInv
<1>2. CopyInv /\ [TablesNext]_tablesVars => CopyInv'
  BY CopyStep
<1>3. ASSUME CopyInv, [TablesNext]_tablesVars, found' # <<>>, tablesVars' # tablesVars
      PROVE  /\ found'[1] \in live => found'[2]
             /\ length' = Cardinality(live) => (found'[2] => found'[1] \in live)
  <2>1. FindByType
    BY <1>3 DEF TablesNext, Migrate
  <2>2. PICK type \in Types : found' = <<type, type \in tables'>>
    BY <2>1 DEF FindByType
  <2>3. CopyInv' /\ tablesVersion' = version' /\ UNCHANGED live
    BY <1>3, <2>1, RefreshCopies DEF FindByType
  <2>4. found'[1] = type /\ (found'[2] <=> type \in tables')
    BY <2>2
  <2> QED BY <2>3, <2>4 DEF CopyInv
<1>4. CopyInv /\ [TablesNext]_tablesVars =>
         [ found' # <<>> =>
             /\ found'[1] \in live => found'[2]
             /\ length' = Cardinality(live) => (found'[2] => found'[1] \in live)
         ]_tablesVars
  BY <1>3
<1> QED BY <1>1, <1>2, <1>4, PTL DEF TablesSpec, FoundIsLive
=============================================================================
