----------------------- MODULE ServerMigrationProofs -----------------------
(***************************************************************************)
(* Proofs about ServerMigration.  Whatever is released within the limits,  *)
(* whatever the server refuses and wherever the process dies, the tables   *)
(* that no failure was about are what the migrations mean.  They hold for  *)
(* any names, any number of migrations and changes, any number of faults.  *)
(*                                                                         *)
(* The order: the partial functions that tables are; one change of a       *)
(* column, in memory and on the server; one change of the tables; what     *)
(* each statement of a change does when it is its turn, and when the       *)
(* change was made before; that what is released is legal; the invariant,  *)
(* action by action; the theorems.                                         *)
(***************************************************************************)
EXTENDS ServerMigration, WellFoundedInduction, TLAPS

(* Partial functions from K to V, whose domain is in K.                    *)
Partial(K, V) == UNION {[D -> V] : D \in SUBSET K}

Servers == {"MYSQL", "POSTGRE"}

ColumnRecord == [def : Nat \X Nat \X Nat, stamped : BOOLEAN]
ColumnsOf == Partial(Column, ColumnRecord)

HasIndex(t) == t.index \in DOMAIN t.columns \cup {NoName}

TableRecord == {t \in [columns : ColumnsOf, index : Column \cup {NoName}] : HasIndex(t)}

DbTable ==
    {t \in [columns : ColumnsOf, index : Column \cup {NoName}, triggers : SUBSET (Table \X Column)] :
        HasIndex(t)}

TablesSet == Partial(Table, TableRecord)
Databases == Partial(Table, DbTable)

ColumnChange ==
    {AddColumn(n, st) : n \in Column, st \in BOOLEAN}
    \cup {AlterColumn(n, st) : n \in Column, st \in BOOLEAN}
    \cup {DropColumn(n) : n \in Column}
    \cup {RenameColumn(n, m) : n \in Column, m \in Column}

Change ==
    {Create(t, st, ix) : t \in Table, st \in BOOLEAN, ix \in BOOLEAN}
    \cup {DropTable(t) : t \in Table}
    \cup {RenameTable(t, u) : t \in Table, u \in Table}
    \cup {Alter(t, cs) : t \in Table, cs \in Seq(ColumnChange)}

(* What a server p has of a table in memory.                               *)
OnServer(p, column) == [column EXCEPT !.stamped = @ /\ p = "MYSQL"]

Triggers(p, name, columns) == IF p = "POSTGRE" THEN {<<name, n>> : n \in columns} ELSE {}

Mirror(p, name, t) ==
    [columns  |-> [n \in DOMAIN t.columns |-> OnServer(p, t.columns[n])],
     index    |-> t.index,
     triggers |-> Triggers(p, name, StampedOf(t))]

(* The limits, for every driver p: what may be done to a column c of the   *)
(* table t when the statements are made from ts.                           *)
LegalColumn(p, ts, name, t, c) ==
    LET cs == t.columns
        known == Known(ts, name)
    IN  \/ /\ c.do = "add" /\ c \in {AddColumn(n, st) : n \in Column \ DOMAIN cs, st \in BOOLEAN}
        \/ /\ c.do = "alter" /\ c \in {AlterColumn(n, st) : n \in DOMAIN cs, st \in BOOLEAN}
           /\ p = "POSTGRE" => c.name \in DOMAIN known /\ (c.stamped <=> c.name \in StampedOf(t))
        \/ /\ c.do = "drop" /\ c \in {DropColumn(n) : n \in DOMAIN cs}
           /\ p = "POSTGRE" => name \in DOMAIN ts /\ StampedOf(ts[name]) = StampedOf(t)
        \/ /\ c.do = "rename"
           /\ c \in {RenameColumn(n, m) : n \in DOMAIN cs, m \in Column \ DOMAIN cs}
           /\ p = "MYSQL" => c.name \in DOMAIN known /\ known[c.name] = cs[c.name]
           /\ p = "POSTGRE" => c.name \notin StampedOf(t)

LegalChange(p, ts, now, c, v, i) ==
    \/ /\ c.do = "create"
       /\ c \in {Create(t, st, ix) : t \in Table \ DOMAIN now, st \in BOOLEAN, ix \in BOOLEAN}
    \/ /\ c.do = "drop" /\ c \in {DropTable(t) : t \in DOMAIN now}
       /\ p = "POSTGRE" =>
             c.table \in DOMAIN ts /\ StampedOf(ts[c.table]) = StampedOf(now[c.table])
    \/ /\ c.do = "rename"
       /\ c \in {RenameTable(t, u) : t \in DOMAIN now, u \in Table \ DOMAIN now}
       /\ p = "POSTGRE" => StampedOf(now[c.table]) = {}
    \/ /\ c.do = "alter"
       /\ c \in {Alter(t, cs) : t \in DOMAIN now, cs \in Seq(ColumnChange)}
       /\ c.columns # <<>>
       /\ \A j \in 1 .. Len(c.columns) :
             LegalColumn(p, ts, c.table, TableAfter(now[c.table], c, v, i)[j - 1], c.columns[j])

LegalMigration(p, ts, m, v) ==
    /\ m \in Seq(Change) /\ m # <<>>
    /\ \A i \in 1 .. Len(m) : LegalChange(p, ts, TablesAfter(ts, m, v)[i - 1], m[i], v, i)

ReleasesInv ==
    /\ history \in Seq(Seq(Change)) /\ latest <= MaxVersion
    /\ ideal \in [0 .. latest -> TablesSet]
    /\ ideal[0] = <<>>
    /\ \A v \in 1 .. latest :
          /\ LegalMigration(product, ideal[v - 1], history[v], v)
          /\ ideal[v] = UpdatedTo(ideal[v - 1], history[v], v)

StatementCount(p, c) ==
    CASE c.do = "create" -> IF c.indexed \/ (p = "POSTGRE" /\ c.stamped) THEN 2 ELSE 1
      [] c.do = "alter" -> Len(c.columns)
      [] OTHER -> 1

Agree(p, d, ts, x) ==
    /\ x \in DOMAIN d <=> x \in DOMAIN ts
    /\ x \in DOMAIN d => d[x] = Mirror(p, x, ts[x])

Bare(p, c, d) ==
    [columns |-> [n \in {First} |-> OnServer(p, Declared(d, c.stamped))], index |-> NoName, triggers |-> {}]

Half(p, now, c, v, i, j) ==
    IF c.do = "create" THEN Bare(p, c, Def(v, i, 0))
    ELSE Mirror(p, c.table, TableAfter(now[c.table], c, v, i)[j - 1])

(* Table x, when the j-th statement of the i-th change is next.            *)
AtChange(p, d, now, c, v, x, i, j) ==
    IF j > 1 /\ x = c.table THEN x \in DOMAIN d /\ d[x] = Half(p, now, c, v, i, j)
    ELSE Agree(p, d, now, x)

AgreeAt(p, d, ts, m, v, x, i, j) ==
    AtChange(p, d, TablesAfter(ts, m, v)[i - 1], m[i], v, x, i, j)

IsSingle(p, m) == Len(m) = 1 /\ StatementCount(p, m[1]) = 1

Base == IF unstored = 0 THEN stored ELSE unstored

TypesInv ==
    /\ product \in Product
    /\ stored \in 0 .. latest /\ dbversion \in 0 .. latest
    /\ db \in Databases
    /\ schema \in [version : 0 .. latest, tables : TablesSet]
    /\ schema.tables = ideal[schema.version]
    /\ pc \in {"down", "idle", "running"}
    /\ change \in Nat \ {0} /\ step \in Nat \ {0}
    /\ has_error \in BOOLEAN /\ code \in {"OK", "EXEC_ERROR"}
    /\ tainted \subseteq Table
    /\ unstored \in 0 .. latest /\ faults \in 0 .. MaxFaults

RestInv ==
    /\ unstored \in {0, stored + 1}
    /\ unstored # 0 => IsSingle(product, history[unstored])
    /\ pc # "running" => \A x \in Table \ tainted : Agree(product, db, ideal[Base], x)
    /\ pc = "idle" => schema.version <= dbversion /\ dbversion \in {stored, Base}

RunningInv ==
    LET v == schema.version + 1
        m == history[v]
    IN  pc = "running" =>
          /\ v <= latest
          /\ dbversion = schema.version
          /\ \/ dbversion = stored /\ unstored \in {0, v}
             \/ dbversion = stored + 1 /\ unstored = dbversion
          /\ IF change <= Len(m) THEN step <= StatementCount(product, m[change]) /\ ~has_error
             ELSE change = Len(m) + 1 /\ step = 1
          /\ \A x \in Table \ tainted :
                IF unstored = v THEN Agree(product, db, ideal[v], x)
                ELSE AgreeAt(product, db, ideal[v - 1], m, v, x, change, step)
          /\ has_error /\ IsSingle(product, m) /\ unstored # v => About(m[1]) \subseteq tainted

CalmInv == faults = 0 => tainted = {} /\ unstored = 0 /\ code = "OK" /\ ~has_error

Inv == ReleasesInv /\ TypesInv /\ RestInv /\ RunningInv /\ CalmInv

-----------------------------------------------------------------------------
(* Induction over the natural numbers, for sets instead of predicates.     *)

(* A set of natural numbers that is not empty has a least element.         *)
LEMMA Least ==
    ASSUME NEW T, T \subseteq Nat, T # {}
    PROVE  \E x \in T : \A y \in T : x <= y
<1> DEFINE R == OpToRel(<, Nat)
<1>1. IsWellFoundedOn(R, Nat)
  BY NatLessThanWellFounded
<1>2. PICK x \in T : \A y \in T : ~(<<y, x>> \in R)
  <2> HIDE DEF R
  <2> QED BY <1>1, WFMin
<1>3. \A y \in T : ~(y < x)
  BY <1>2, Zenon DEF OpToRel
<1> HIDE DEF R
<1> QED BY <1>3

(* A set that holds 0 and with every natural number the next holds them    *)
(* all: what a recursive function computes is proved of it step by step.   *)
LEMMA Induct ==
    ASSUME NEW T, 0 \in T, \A n \in T : n \in Nat => n + 1 \in T
    PROVE  Nat \subseteq T
<1>1. SUFFICES ASSUME Nat \ T # {} PROVE FALSE
  OBVIOUS
<1>2. PICK x \in Nat \ T : \A y \in Nat \ T : x <= y
  BY <1>1, Least
<1>3. x # 0 /\ x - 1 \in Nat /\ x - 1 < x
  BY <1>2
<1>4. x - 1 \in T
  BY <1>2, <1>3
<1>5. (x - 1) + 1 \in T
  BY <1>3, <1>4
<1>6. (x - 1) + 1 = x
  BY <1>2
<1> QED BY <1>5, <1>6

-----------------------------------------------------------------------------
(* Functions.                                                              *)
LEMMA WithFacts ==
    ASSUME NEW f, NEW k, NEW e
    PROVE  /\ \A x : x \in DOMAIN With(f, k, e) <=> x \in DOMAIN f \/ x = k
           /\ With(f, k, e)[k] = e
           /\ \A x \in DOMAIN f : x # k => With(f, k, e)[x] = f[x]
BY DEF With

(* What With, Without and Moved keep and change.                           *)
LEMMA WithoutFacts ==
    ASSUME NEW f, NEW k
    PROVE  /\ \A x : x \in DOMAIN Without(f, k) <=> x \in DOMAIN f /\ x # k
           /\ \A x \in DOMAIN f : x # k => Without(f, k)[x] = f[x]
BY DEF Without, Restrict

LEMMA MovedFacts ==
    ASSUME NEW f, NEW k \in DOMAIN f, NEW m, m # k
    PROVE  /\ \A x : x \in DOMAIN Moved(f, k, m) <=> (x \in DOMAIN f /\ x # k) \/ x = m
           /\ Moved(f, k, m)[m] = f[k]
           /\ \A x \in DOMAIN f : x # k /\ x # m => Moved(f, k, m)[x] = f[x]
<1> DEFINE g == Without(f, k)
<1>1. /\ \A x : x \in DOMAIN g <=> x \in DOMAIN f /\ x # k
      /\ \A x \in DOMAIN f : x # k => g[x] = f[x]
  BY WithoutFacts
<1>2. Moved(f, k, m) = With(g, m, f[k])
  BY DEF Moved
<1> HIDE DEF g
<1>3. /\ \A x : x \in DOMAIN With(g, m, f[k]) <=> x \in DOMAIN g \/ x = m
      /\ With(g, m, f[k])[m] = f[k]
      /\ \A x \in DOMAIN g : x # m => With(g, m, f[k])[x] = g[x]
  BY WithFacts
<1> QED BY <1>1, <1>2, <1>3

LEMMA ReplacedFacts ==
    ASSUME NEW f, NEW k, NEW m, NEW e
    PROVE  \A x : x \in DOMAIN With(Without(f, k), m, e) <=> (x \in DOMAIN f /\ x # k) \/ x = m
<1> DEFINE g == Without(f, k)
<1>1. \A x : x \in DOMAIN g <=> x \in DOMAIN f /\ x # k
  BY WithoutFacts
<1> HIDE DEF g
<1>2. \A x : x \in DOMAIN With(g, m, e) <=> x \in DOMAIN g \/ x = m
  BY WithFacts
<1>3. \A x : x \in DOMAIN With(g, m, e) <=> (x \in DOMAIN f /\ x # k) \/ x = m
  BY <1>1, <1>2
<1> QED BY <1>3 DEF g

(* Partial functions, point by point; they are closed under the updates.   *)
LEMMA PartialIs ==
    ASSUME NEW K, NEW V, NEW f
    PROVE  f \in Partial(K, V) <=>
             /\ f = [x \in DOMAIN f |-> f[x]]
             /\ DOMAIN f \subseteq K
             /\ \A x \in DOMAIN f : f[x] \in V
BY DEF Partial

LEMMA PartialWith ==
    ASSUME NEW K, NEW V, NEW f \in Partial(K, V), NEW k \in K, NEW e \in V
    PROVE  With(f, k, e) \in Partial(K, V)
<1>1. DOMAIN f \subseteq K /\ \A x \in DOMAIN f : f[x] \in V
  BY PartialIs
<1> DEFINE g == With(f, k, e)
<1>2. g = [x \in DOMAIN f \cup {k} |-> g[x]]
  BY DEF With
<1>3. /\ DOMAIN g = DOMAIN f \cup {k}
      /\ g[k] = e
      /\ \A x \in DOMAIN f : x # k => g[x] = f[x]
  BY DEF With
<1> HIDE DEF g
<1>4. \A x \in DOMAIN g : g[x] \in V
  BY <1>1, <1>3
<1>5. g = [x \in DOMAIN g |-> g[x]] /\ DOMAIN g \subseteq K
  BY <1>1, <1>2, <1>3
<1>6. g \in Partial(K, V)
  BY <1>4, <1>5, PartialIs
<1> QED BY <1>6 DEF g

LEMMA PartialWithout ==
    ASSUME NEW K, NEW V, NEW f \in Partial(K, V), NEW k
    PROVE  Without(f, k) \in Partial(K, V)
<1>1. DOMAIN f \subseteq K /\ \A x \in DOMAIN f : f[x] \in V
  BY PartialIs
<1>2. Without(f, k) = [x \in DOMAIN f \ {k} |-> Without(f, k)[x]]
  BY DEF Without, Restrict
<1>3. \A x \in DOMAIN f \ {k} : Without(f, k)[x] \in V
  BY <1>1, WithoutFacts
<1> QED BY <1>1, <1>2, <1>3, WithoutFacts, PartialIs

LEMMA PartialMoved ==
    ASSUME NEW K, NEW V, NEW f \in Partial(K, V), NEW k \in DOMAIN f, NEW m \in K
    PROVE  Moved(f, k, m) \in Partial(K, V)
<1>1. f[k] \in V
  BY PartialIs
<1> QED BY <1>1, PartialWith, PartialWithout DEF Moved

LEMMA EmptyPartial ==
    ASSUME NEW K, NEW V
    PROVE  <<>> \in Partial(K, V) /\ DOMAIN <<>> = {}
BY DEF Partial

-----------------------------------------------------------------------------
(* The recursive functions.                                                *)
TableAfterIs(t, c, v, i, n, f) ==
    f = [j \in 0 .. n |-> IF j = 0 THEN t ELSE UpdatedColumns(f[j - 1], c.columns[j], Def(v, i, j))]

(* The functions that repeat a change exist, for every number of changes:  *)
(* so they satisfy their defining equations.                               *)
LEMMA TableAfterExists ==
    ASSUME NEW t, NEW c, NEW v, NEW i, NEW n \in Nat
    PROVE  \E f : TableAfterIs(t, c, v, i, n, f)
<1> DEFINE T == {k \in Nat : \E f : TableAfterIs(t, c, v, i, k, f)}
<1>1. 0 \in T
  <2>1. TableAfterIs(t, c, v, i, 0, [j \in 0 .. 0 |-> t])
    BY DEF TableAfterIs
  <2> QED BY <2>1
<1>2. ASSUME NEW k \in T, k \in Nat PROVE k + 1 \in T
  <2>1. PICK f : TableAfterIs(t, c, v, i, k, f)
    BY <1>2
  <2> DEFINE g == [j \in 0 .. k + 1 |->
                     IF j <= k THEN f[j] ELSE UpdatedColumns(f[k], c.columns[j], Def(v, i, j))]
  <2>2. \A j \in 0 .. k : g[j] = f[j]
    OBVIOUS
  <2>3. \A j \in 0 .. k :
          f[j] = IF j = 0 THEN t ELSE UpdatedColumns(f[j - 1], c.columns[j], Def(v, i, j))
    BY <2>1 DEF TableAfterIs
  <2>4. ASSUME NEW j \in 0 .. k + 1
        PROVE  g[j] = IF j = 0 THEN t ELSE UpdatedColumns(g[j - 1], c.columns[j], Def(v, i, j))
    <3>1. CASE j <= k
      <4>1. j \in 0 .. k /\ (j # 0 => j - 1 \in 0 .. k)
        BY <3>1
      <4>2. g[j] = f[j] /\ (j # 0 => g[j - 1] = f[j - 1])
        BY <2>2, <4>1
      <4> HIDE DEF g
      <4> QED BY <2>3, <4>1, <4>2
    <3>2. CASE j = k + 1
      <4>1. j # 0 /\ j - 1 = k /\ ~(j <= k)
        BY <3>2
      <4>2. g[j - 1] = f[k]
        BY <4>1, <2>2
      <4>3. g[j] = UpdatedColumns(f[k], c.columns[j], Def(v, i, j))
        BY <4>1
      <4> HIDE DEF g
      <4> QED BY <4>1, <4>2, <4>3
    <3> QED BY <3>1, <3>2
  <2>5. g = [j \in 0 .. k + 1 |-> g[j]]
    OBVIOUS
  <2>6. TableAfterIs(t, c, v, i, k + 1, g)
    <3> HIDE DEF g
    <3> QED BY <2>4, <2>5 DEF TableAfterIs
  <2> QED BY <2>6
<1> HIDE DEF T
<1>3. n \in T
  BY <1>1, <1>2, Induct
<1> QED BY <1>3 DEF T

LEMMA TableAfterSteps ==
    ASSUME NEW t, NEW c, NEW v, NEW i, Len(c.columns) \in Nat
    PROVE  /\ TableAfter(t, c, v, i)[0] = t
           /\ \A j \in 1 .. Len(c.columns) :
                TableAfter(t, c, v, i)[j] = UpdatedColumns(TableAfter(t, c, v, i)[j - 1], c.columns[j], Def(v, i, j))
<1> DEFINE n == Len(c.columns)
           f == CHOOSE g : TableAfterIs(t, c, v, i, n, g)
<1>1. TableAfterIs(t, c, v, i, n, f)
  BY TableAfterExists
<1>2. TableAfter(t, c, v, i) = f
  BY DEF TableAfter, TableAfterIs
<1> HIDE DEF f, n
<1>3. \A j \in 0 .. n :
        f[j] = IF j = 0 THEN t ELSE UpdatedColumns(f[j - 1], c.columns[j], Def(v, i, j))
  BY <1>1 DEF TableAfterIs
<1>4. n \in Nat
  BY DEF n
<1>5. f[0] = t
  BY <1>3, <1>4
<1>6. \A j \in 1 .. n : f[j] = UpdatedColumns(f[j - 1], c.columns[j], Def(v, i, j))
  BY <1>3, <1>4
<1> QED BY <1>2, <1>5, <1>6 DEF n

TablesAfterIs(ts, m, v, n, f) ==
    f = [j \in 0 .. n |-> IF j = 0 THEN ts ELSE UpdatedTables(f[j - 1], m[j], v, j)]

LEMMA TablesAfterExists ==
    ASSUME NEW ts, NEW m, NEW v, NEW n \in Nat
    PROVE  \E f : TablesAfterIs(ts, m, v, n, f)
<1> DEFINE T == {k \in Nat : \E f : TablesAfterIs(ts, m, v, k, f)}
<1>1. 0 \in T
  <2>1. TablesAfterIs(ts, m, v, 0, [j \in 0 .. 0 |-> ts])
    BY DEF TablesAfterIs
  <2> QED BY <2>1
<1>2. ASSUME NEW k \in T, k \in Nat PROVE k + 1 \in T
  <2>1. PICK f : TablesAfterIs(ts, m, v, k, f)
    BY <1>2
  <2> DEFINE g == [j \in 0 .. k + 1 |->
                     IF j <= k THEN f[j] ELSE UpdatedTables(f[k], m[j], v, j)]
  <2>2. \A j \in 0 .. k : g[j] = f[j]
    OBVIOUS
  <2>3. \A j \in 0 .. k :
          f[j] = IF j = 0 THEN ts ELSE UpdatedTables(f[j - 1], m[j], v, j)
    BY <2>1 DEF TablesAfterIs
  <2>4. ASSUME NEW j \in 0 .. k + 1
        PROVE  g[j] = IF j = 0 THEN ts ELSE UpdatedTables(g[j - 1], m[j], v, j)
    <3>1. CASE j <= k
      <4>1. j \in 0 .. k /\ (j # 0 => j - 1 \in 0 .. k)
        BY <3>1
      <4>2. g[j] = f[j] /\ (j # 0 => g[j - 1] = f[j - 1])
        BY <2>2, <4>1
      <4> HIDE DEF g
      <4> QED BY <2>3, <4>1, <4>2
    <3>2. CASE j = k + 1
      <4>1. j # 0 /\ j - 1 = k /\ ~(j <= k)
        BY <3>2
      <4>2. g[j - 1] = f[k]
        BY <4>1, <2>2
      <4>3. g[j] = UpdatedTables(f[k], m[j], v, j)
        BY <4>1
      <4> HIDE DEF g
      <4> QED BY <4>1, <4>2, <4>3
    <3> QED BY <3>1, <3>2
  <2>5. g = [j \in 0 .. k + 1 |-> g[j]]
    OBVIOUS
  <2>6. TablesAfterIs(ts, m, v, k + 1, g)
    <3> HIDE DEF g
    <3> QED BY <2>4, <2>5 DEF TablesAfterIs
  <2> QED BY <2>6
<1> HIDE DEF T
<1>3. n \in T
  BY <1>1, <1>2, Induct
<1> QED BY <1>3 DEF T

LEMMA TablesAfterSteps ==
    ASSUME NEW ts, NEW m, NEW v, Len(m) \in Nat
    PROVE  /\ TablesAfter(ts, m, v)[0] = ts
           /\ \A j \in 1 .. Len(m) :
                TablesAfter(ts, m, v)[j] = UpdatedTables(TablesAfter(ts, m, v)[j - 1], m[j], v, j)
<1> DEFINE n == Len(m)
           f == CHOOSE g : TablesAfterIs(ts, m, v, n, g)
<1>1. TablesAfterIs(ts, m, v, n, f)
  BY TablesAfterExists
<1>2. TablesAfter(ts, m, v) = f
  BY DEF TablesAfter, TablesAfterIs
<1> HIDE DEF f, n
<1>3. \A j \in 0 .. n :
        f[j] = IF j = 0 THEN ts ELSE UpdatedTables(f[j - 1], m[j], v, j)
  BY <1>1 DEF TablesAfterIs
<1>4. n \in Nat
  BY DEF n
<1>5. f[0] = ts
  BY <1>3, <1>4
<1>6. \A j \in 1 .. n : f[j] = UpdatedTables(f[j - 1], m[j], v, j)
  BY <1>3, <1>4
<1> QED BY <1>2, <1>5, <1>6 DEF n

-----------------------------------------------------------------------------
(* One change of a column, of a table that it can be made of.              *)

LEMMA RecordRebuilt ==
    ASSUME NEW t \in TableRecord, NEW cs \in ColumnsOf, NEW index \in DOMAIN cs \cup {NoName}
    PROVE  /\ [columns |-> cs, index |-> index] \in TableRecord
           /\ [t EXCEPT !.columns = cs] = [columns |-> cs, index |-> t.index]
<1>1. DOMAIN cs \subseteq Column
  BY PartialIs DEF ColumnsOf
<1>2. [columns |-> cs, index |-> index] \in TableRecord
  BY <1>1 DEF TableRecord, HasIndex
<1>3. t = [columns |-> t.columns, index |-> t.index]
  BY DEF TableRecord
<1> QED BY <1>2, <1>3

(* The fields of a table in memory.                                        *)
LEMMA TableFields ==
    ASSUME NEW t \in TableRecord
    PROVE  /\ t = [columns |-> t.columns, index |-> t.index]
           /\ t.columns \in ColumnsOf /\ DOMAIN t.columns \subseteq Column
           /\ \A n \in DOMAIN t.columns : t.columns[n] \in ColumnRecord
           /\ t.index \in DOMAIN t.columns \cup {NoName}
<1>1. t \in [columns : ColumnsOf, index : Column \cup {NoName}] /\ HasIndex(t)
  BY DEF TableRecord
<1>2. t.columns \in ColumnsOf /\ t = [columns |-> t.columns, index |-> t.index]
  BY <1>1
<1>3. t.columns \in Partial(Column, ColumnRecord)
  BY <1>2 DEF ColumnsOf
<1> QED BY <1>1, <1>2, <1>3, PartialIs DEF HasIndex

(* The names and definitions that versions and places make.                *)
Defs == Nat \X Nat \X Nat

(* A change of one column in memory, field by field.                       *)
LEMMA ColumnAdded ==
    ASSUME NEW t \in TableRecord, NEW n \in Column, n \notin DOMAIN t.columns,
           NEW st \in BOOLEAN, NEW d \in Defs
    PROVE  LET u == UpdatedColumns(t, AddColumn(n, st), d)
           IN  /\ u = [columns |-> With(t.columns, n, Declared(d, st)), index |-> t.index]
               /\ u \in TableRecord
<1> DEFINE cs == With(t.columns, n, Declared(d, st))
<1>1. Declared(d, st) \in ColumnRecord
  BY DEF Declared, ColumnRecord, Defs
<1>2. cs \in ColumnsOf
  BY <1>1, TableFields, PartialWith DEF ColumnsOf
<1>3. DOMAIN cs = DOMAIN t.columns \cup {n}
  BY DEF With
<1>4. UpdatedColumns(t, AddColumn(n, st), d) = [t EXCEPT !.columns = cs]
  BY DEF UpdatedColumns, AddColumn
<1> HIDE DEF cs
<1> QED BY <1>2, <1>3, <1>4, TableFields, RecordRebuilt DEF cs

LEMMA ColumnAltered ==
    ASSUME NEW t \in TableRecord, NEW n \in DOMAIN t.columns, NEW st \in BOOLEAN, NEW d \in Defs
    PROVE  LET u == UpdatedColumns(t, AlterColumn(n, st), d)
           IN  /\ u = [columns |-> With(t.columns, n, Declared(d, st)), index |-> t.index]
               /\ u \in TableRecord
<1> DEFINE cs == With(t.columns, n, Declared(d, st))
<1>1. Declared(d, st) \in ColumnRecord
  BY DEF Declared, ColumnRecord, Defs
<1>2. cs \in ColumnsOf
  BY <1>1, TableFields, PartialWith DEF ColumnsOf
<1>3. DOMAIN cs = DOMAIN t.columns
  BY DEF With
<1>4. UpdatedColumns(t, AlterColumn(n, st), d) = [t EXCEPT !.columns = cs]
  BY DEF UpdatedColumns, AlterColumn
<1> HIDE DEF cs
<1> QED BY <1>2, <1>3, <1>4, TableFields, RecordRebuilt DEF cs

Index(t, n, m) == IF t.index = n THEN m ELSE t.index

LEMMA ColumnDropped ==
    ASSUME NEW t \in TableRecord, NEW n \in DOMAIN t.columns, NEW d
    PROVE  LET u == UpdatedColumns(t, DropColumn(n), d)
           IN  /\ u = [columns |-> Without(t.columns, n), index |-> Index(t, n, NoName)]
               /\ u \in TableRecord
<1> DEFINE cs == Without(t.columns, n)
<1>1. cs \in ColumnsOf
  BY TableFields, PartialWithout DEF ColumnsOf
<1>2. \A x : x \in DOMAIN cs <=> x \in DOMAIN t.columns /\ x # n
  BY WithoutFacts
<1>3. Index(t, n, NoName) \in DOMAIN cs \cup {NoName}
  <2> HIDE DEF cs
  <2> QED BY <1>2, TableFields DEF Index
<1>4. UpdatedColumns(t, DropColumn(n), d) = [columns |-> cs, index |-> Index(t, n, NoName)]
  BY DEF UpdatedColumns, DropColumn, Index
<1> HIDE DEF cs
<1>5. [columns |-> cs, index |-> Index(t, n, NoName)] \in TableRecord
  BY <1>1, <1>3, RecordRebuilt
<1> QED BY <1>4, <1>5 DEF cs

LEMMA ColumnRenamed ==
    ASSUME NEW t \in TableRecord, NEW n \in DOMAIN t.columns,
           NEW m \in Column, m \notin DOMAIN t.columns, NEW d
    PROVE  LET u == UpdatedColumns(t, RenameColumn(n, m), d)
           IN  /\ u = [columns |-> Moved(t.columns, n, m), index |-> Index(t, n, m)]
               /\ u \in TableRecord
<1> DEFINE cs == Moved(t.columns, n, m)
<1>1. cs \in ColumnsOf
  BY TableFields, PartialMoved DEF ColumnsOf
<1>2. \A x : x \in DOMAIN cs <=> (x \in DOMAIN t.columns /\ x # n) \/ x = m
  <2>1. m # n
    OBVIOUS
  <2> QED BY <2>1, MovedFacts
<1>3. Index(t, n, m) \in DOMAIN cs \cup {NoName}
  <2> HIDE DEF cs
  <2> QED BY <1>2, TableFields DEF Index
<1>4. UpdatedColumns(t, RenameColumn(n, m), d) = [columns |-> cs, index |-> Index(t, n, m)]
  BY DEF UpdatedColumns, RenameColumn, Index
<1> HIDE DEF cs
<1>5. [columns |-> cs, index |-> Index(t, n, m)] \in TableRecord
  BY <1>1, <1>3, RecordRebuilt
<1> QED BY <1>4, <1>5 DEF cs

-----------------------------------------------------------------------------
(* What the server makes of a statement.                                   *)

TriggerSet == SUBSET (Table \X Column)

IsStatement(s) ==
    /\ s.table \in Table
    /\ s.after \in {"migration", "table", "none"}
    /\ \/ s.sql = "CREATE TABLE" /\ s.name \in Column /\ s.column \in ColumnRecord
       \/ s.sql = "CREATE INDEX" /\ s.index \in Column \cup {NoName} /\ s.triggers \in TriggerSet
       \/ s.sql = "DROP TABLE"
       \/ s.sql = "RENAME TABLE" /\ s.to \in Table
       \/ /\ s.sql = "ADD COLUMN"
          /\ s.name \in Column /\ s.column \in ColumnRecord /\ s.triggers \in TriggerSet
       \/ s.sql = "ALTER COLUMN" /\ s.name \in Column /\ s.column \in ColumnRecord
       \/ s.sql = "DROP COLUMN" /\ s.name \in Column
       \/ /\ s.sql = "RENAME COLUMN"
          /\ s.name \in Column /\ s.to \in Column /\ s.column \in ColumnRecord
       \/ s.sql \in {"nothing", "unknown"}

(* The fields of a table in the database.                                  *)
LEMMA DbFields ==
    ASSUME NEW t \in DbTable
    PROVE  /\ t = [columns |-> t.columns, index |-> t.index, triggers |-> t.triggers]
           /\ t.columns \in ColumnsOf /\ DOMAIN t.columns \subseteq Column
           /\ \A n \in DOMAIN t.columns : t.columns[n] \in ColumnRecord
           /\ t.index \in DOMAIN t.columns \cup {NoName}
           /\ t.triggers \in TriggerSet
<1>1. /\ t \in [columns : ColumnsOf, index : Column \cup {NoName}, triggers : TriggerSet]
      /\ HasIndex(t)
  BY DEF DbTable, TriggerSet
<1>2. /\ t.columns \in ColumnsOf /\ t.triggers \in TriggerSet
      /\ t = [columns |-> t.columns, index |-> t.index, triggers |-> t.triggers]
  BY <1>1
<1>3. t.columns \in Partial(Column, ColumnRecord)
  BY <1>2 DEF ColumnsOf
<1> QED BY <1>1, <1>2, <1>3, PartialIs DEF HasIndex

LEMMA DbRebuilt ==
    ASSUME NEW cs \in ColumnsOf, NEW index \in DOMAIN cs \cup {NoName}, NEW ts \in TriggerSet
    PROVE  [columns |-> cs, index |-> index, triggers |-> ts] \in DbTable
<1>1. DOMAIN cs \subseteq Column
  BY PartialIs DEF ColumnsOf
<1> QED BY <1>1 DEF DbTable, HasIndex, TriggerSet

(* Only MySQL keeps ON UPDATE with a column.                               *)
LEMMA InServerTyped ==
    ASSUME NEW column \in ColumnRecord
    PROVE  /\ InServer(column) \in ColumnRecord
           /\ InServer(column) = OnServer(product, column)
           /\ product = "MYSQL" => InServer(column) = column
BY DEF InServer, OnServer, ColumnRecord

(* The table that a statement about columns leaves, and its fields.        *)
LEMMA ExecutedFields ==
    ASSUME NEW t \in DbTable, NEW s
    PROVE  LET x == ExecutedTable(t, s)
           IN  /\ s.sql = "CREATE INDEX" =>
                    x = [columns |-> t.columns, index |-> s.index,
                         triggers |-> t.triggers \cup s.triggers]
               /\ s.sql = "ADD COLUMN" =>
                    x = [columns |-> With(t.columns, s.name, InServer(s.column)),
                         index |-> t.index, triggers |-> t.triggers \cup s.triggers]
               /\ s.sql = "ALTER COLUMN" =>
                    x = [columns |-> With(t.columns, s.name, InServer(s.column)),
                         index |-> t.index, triggers |-> t.triggers]
               /\ s.sql = "DROP COLUMN" =>
                    x = [columns |-> Without(t.columns, s.name),
                         index |-> Index(t, s.name, NoName), triggers |-> t.triggers \ s.triggers]
               /\ s.sql = "RENAME COLUMN" =>
                    x = [columns |-> IF product = "MYSQL"
                                     THEN With(Without(t.columns, s.name), s.to, s.column)
                                     ELSE Moved(t.columns, s.name, s.to),
                         index |-> Index(t, s.name, s.to), triggers |-> t.triggers]
<1>1. t = [columns |-> t.columns, index |-> t.index, triggers |-> t.triggers]
  BY DbFields
<1> QED BY <1>1 DEF ExecutedTable, Index

(* s is about the columns of table t, and finds them.                      *)
Applies(t, s) ==
    /\ IsStatement(s)
    /\ s.sql \in {"CREATE INDEX", "ADD COLUMN", "ALTER COLUMN", "DROP COLUMN", "RENAME COLUMN"}
    /\ s.sql \in {"ALTER COLUMN", "DROP COLUMN", "RENAME COLUMN"} => s.name \in DOMAIN t.columns
    /\ s.sql = "RENAME COLUMN" => s.to \notin DOMAIN t.columns
    /\ s.sql = "CREATE INDEX" /\ s.index # NoName => s.index \in DOMAIN t.columns

(* A statement that can be executed leaves a table of a database...        *)
LEMMA ExecutedTyped ==
    ASSUME NEW t \in DbTable, NEW s, Applies(t, s)
    PROVE  ExecutedTable(t, s) \in DbTable
<1>0. /\ t.columns \in ColumnsOf /\ t.columns \in Partial(Column, ColumnRecord)
      /\ t.index \in DOMAIN t.columns \cup {NoName} /\ t.triggers \in TriggerSet
  BY DbFields DEF ColumnsOf
<1>1. CASE s.sql = "CREATE INDEX"
  <2>1. t.triggers \cup s.triggers \in TriggerSet /\ s.index \in DOMAIN t.columns \cup {NoName}
    BY <1>0, <1>1 DEF Applies, IsStatement, TriggerSet
  <2>2. ExecutedTable(t, s) =
            [columns |-> t.columns, index |-> s.index, triggers |-> t.triggers \cup s.triggers]
    BY <1>1, ExecutedFields
  <2>3. [columns |-> t.columns, index |-> s.index, triggers |-> t.triggers \cup s.triggers] \in DbTable
    BY <1>0, <2>1, DbRebuilt
  <2> QED BY <2>2, <2>3
<1>2. CASE s.sql = "ADD COLUMN"
  <2> DEFINE cs == With(t.columns, s.name, InServer(s.column))
  <2>1. t.triggers \cup s.triggers \in TriggerSet /\ s.name \in Column /\ s.column \in ColumnRecord
    BY <1>0, <1>2 DEF Applies, IsStatement, TriggerSet
  <2>2. cs \in ColumnsOf
    BY <1>0, <2>1, InServerTyped, PartialWith DEF ColumnsOf
  <2>3. DOMAIN cs = DOMAIN t.columns \cup {s.name}
    BY DEF With
  <2>4. ExecutedTable(t, s) =
            [columns |-> cs, index |-> t.index, triggers |-> t.triggers \cup s.triggers]
    BY <1>2, ExecutedFields
  <2> HIDE DEF cs
  <2>5. t.index \in DOMAIN cs \cup {NoName}
    BY <1>0, <2>3
  <2>6. [columns |-> cs, index |-> t.index, triggers |-> t.triggers \cup s.triggers] \in DbTable
    BY <1>0, <2>1, <2>2, <2>5, DbRebuilt
  <2> QED BY <2>4, <2>6
<1>3. CASE s.sql = "ALTER COLUMN"
  <2> DEFINE cs == With(t.columns, s.name, InServer(s.column))
  <2>1. s.name \in Column /\ s.column \in ColumnRecord
    BY <1>0, <1>3 DEF Applies, IsStatement
  <2>2. cs \in ColumnsOf
    BY <1>0, <2>1, InServerTyped, PartialWith DEF ColumnsOf
  <2>3. DOMAIN cs = DOMAIN t.columns \cup {s.name}
    BY DEF With
  <2>4. ExecutedTable(t, s) = [columns |-> cs, index |-> t.index, triggers |-> t.triggers]
    BY <1>3, ExecutedFields
  <2> HIDE DEF cs
  <2>5. t.index \in DOMAIN cs \cup {NoName}
    BY <1>0, <2>3
  <2>6. [columns |-> cs, index |-> t.index, triggers |-> t.triggers] \in DbTable
    BY <1>0, <2>2, <2>5, DbRebuilt
  <2> QED BY <2>4, <2>6
<1>4. CASE s.sql = "DROP COLUMN"
  <2> DEFINE cs == Without(t.columns, s.name)
  <2>1. t.triggers \ s.triggers \in TriggerSet
    BY <1>0 DEF TriggerSet
  <2>2. cs \in ColumnsOf
    BY <1>0, PartialWithout DEF ColumnsOf
  <2>3. \A x : x \in DOMAIN cs <=> x \in DOMAIN t.columns /\ x # s.name
    BY WithoutFacts
  <2>4. ExecutedTable(t, s) = [columns |-> cs, index |-> Index(t, s.name, NoName),
                               triggers |-> t.triggers \ s.triggers]
    BY <1>4, ExecutedFields
  <2> HIDE DEF cs
  <2>5. Index(t, s.name, NoName) \in DOMAIN cs \cup {NoName}
    BY <1>0, <2>3 DEF Index
  <2>6. [columns |-> cs, index |-> Index(t, s.name, NoName),
         triggers |-> t.triggers \ s.triggers] \in DbTable
    BY <1>0, <2>1, <2>2, <2>5, DbRebuilt
  <2> QED BY <2>4, <2>6
<1>5. CASE s.sql = "RENAME COLUMN"
  <2> DEFINE cs == IF product = "MYSQL" THEN With(Without(t.columns, s.name), s.to, s.column)
                   ELSE Moved(t.columns, s.name, s.to)
  <2>1. s.name \in DOMAIN t.columns /\ s.to \in Column /\ s.column \in ColumnRecord /\ s.to # s.name
    BY <1>0, <1>5 DEF Applies, IsStatement
  <2>2. t.columns \in Partial(Column, ColumnRecord)
    BY <1>0 DEF ColumnsOf
  <2>3. /\ With(Without(t.columns, s.name), s.to, s.column) \in Partial(Column, ColumnRecord)
        /\ Moved(t.columns, s.name, s.to) \in Partial(Column, ColumnRecord)
    BY <1>0, <2>1, <2>2, PartialWith, PartialWithout, PartialMoved
  <2>4. cs \in ColumnsOf
    BY <1>0, <2>3 DEF ColumnsOf
  <2>5. \A x : x \in DOMAIN cs <=> (x \in DOMAIN t.columns /\ x # s.name) \/ x = s.to
    <3>1. \A x : x \in DOMAIN Moved(t.columns, s.name, s.to) <=>
                   (x \in DOMAIN t.columns /\ x # s.name) \/ x = s.to
      BY <2>1, MovedFacts
    <3>2. \A x : x \in DOMAIN With(Without(t.columns, s.name), s.to, s.column) <=>
                   (x \in DOMAIN t.columns /\ x # s.name) \/ x = s.to
      BY ReplacedFacts
    <3> QED BY <3>1, <3>2
  <2>6. ExecutedTable(t, s) =
            [columns |-> cs, index |-> Index(t, s.name, s.to), triggers |-> t.triggers]
    BY <1>5, ExecutedFields
  <2> HIDE DEF cs
  <2>7. Index(t, s.name, s.to) \in DOMAIN cs \cup {NoName}
    BY <1>0, <2>5 DEF Index
  <2>8. [columns |-> cs, index |-> Index(t, s.name, s.to), triggers |-> t.triggers] \in DbTable
    BY <1>0, <2>4, <2>7, DbRebuilt
  <2> QED BY <2>6, <2>8
<1> QED BY <1>1, <1>2, <1>3, <1>4, <1>5 DEF Applies

(* A statement touches its own tables only.                                *)
Touched(s) == IF s.sql = "RENAME TABLE" THEN {s.table, s.to} ELSE {s.table}

(* ...and touches no other.                                                *)
LEMMA ExecutedFrame ==
    ASSUME NEW d \in Databases, NEW s, IsStatement(s), CanExecute(d, s)
    PROVE  /\ Executed(d, s) \in Databases
           /\ \A x : x \notin Touched(s) =>
                 /\ x \in DOMAIN Executed(d, s) <=> x \in DOMAIN d
                 /\ x \in DOMAIN d => Executed(d, s)[x] = d[x]
<1> DEFINE e == Executed(d, s)
<1>0. d \in Partial(Table, DbTable) /\ s.table \in Table
  BY DEF Databases, IsStatement
<1>1. CASE s.sql = "CREATE TABLE"
  <2> DEFINE cs == [n \in {s.name} |-> InServer(s.column)]
             t == [columns |-> cs, index |-> NoName, triggers |-> {}]
  <2>1. s.name \in Column /\ InServer(s.column) \in ColumnRecord
    BY <1>1, InServerTyped DEF IsStatement
  <2>2. cs \in ColumnsOf
    <3>1. /\ cs = [n \in DOMAIN cs |-> cs[n]] /\ DOMAIN cs \subseteq Column
          /\ \A n \in DOMAIN cs : cs[n] \in ColumnRecord
      BY <2>1
    <3> HIDE DEF cs
    <3> QED BY <3>1, PartialIs DEF ColumnsOf
  <2>3. t \in DbTable
    <3> HIDE DEF cs
    <3> QED BY <2>2, DbRebuilt DEF TriggerSet
  <2>4. e = With(d, s.table, t)
    BY <1>1 DEF Executed
  <2> HIDE DEF t
  <2> QED BY <1>0, <2>3, <2>4, PartialWith DEF With, Touched, Databases
<1>2. CASE s.sql = "DROP TABLE"
  <2>1. e = Without(d, s.table)
    BY <1>2 DEF Executed
  <2>2. e \in Partial(Table, DbTable)
    BY <1>0, <2>1, PartialWithout
  <2>3. /\ \A x : x \in DOMAIN e <=> x \in DOMAIN d /\ x # s.table
        /\ \A x \in DOMAIN d : x # s.table => e[x] = d[x]
    BY <2>1, WithoutFacts
  <2>4. Touched(s) = {s.table}
    BY <1>2 DEF Touched
  <2> HIDE DEF e
  <2> QED BY <2>2, <2>3, <2>4 DEF Databases, e
<1>3. CASE s.sql = "RENAME TABLE"
  <2>1. e = Moved(d, s.table, s.to)
    BY <1>3 DEF Executed
  <2>2. s.table \in DOMAIN d /\ s.to \in Table /\ s.to # s.table
    BY <1>3 DEF CanExecute, IsStatement
  <2>3. e \in Partial(Table, DbTable)
    BY <1>0, <2>1, <2>2, PartialMoved
  <2>4. /\ \A x : x \in DOMAIN e <=> (x \in DOMAIN d /\ x # s.table) \/ x = s.to
        /\ \A x \in DOMAIN d : x # s.table /\ x # s.to => e[x] = d[x]
    BY <2>1, <2>2, MovedFacts
  <2>5. Touched(s) = {s.table, s.to}
    BY <1>3 DEF Touched
  <2> HIDE DEF e
  <2> QED BY <2>3, <2>4, <2>5 DEF Databases, e
<1>4. CASE s.sql = "nothing"
  BY <1>4 DEF Executed
<1>5. CASE s.sql \in {"CREATE INDEX", "ADD COLUMN", "ALTER COLUMN", "DROP COLUMN", "RENAME COLUMN"}
  <2> DEFINE t == ExecutedTable(d[s.table], s)
  <2>1. s.table \in DOMAIN d
    BY <1>5 DEF CanExecute
  <2>2. d[s.table] \in DbTable
    BY <1>0, <2>1, PartialIs
  <2>3. /\ s.sql \in {"ALTER COLUMN", "DROP COLUMN", "RENAME COLUMN"} =>
              s.name \in DOMAIN d[s.table].columns
        /\ s.sql = "RENAME COLUMN" => s.to \notin DOMAIN d[s.table].columns
        /\ s.sql = "CREATE INDEX" /\ s.index # NoName => s.index \in DOMAIN d[s.table].columns
    BY <2>1 DEF CanExecute
  <2>4. t \in DbTable
    <3>1. Applies(d[s.table], s)
      BY <1>5, <2>3 DEF Applies
    <3> QED BY <2>2, <3>1, ExecutedTyped
  <2>5. e = With(d, s.table, t)
    BY <1>5 DEF Executed
  <2> HIDE DEF t
  <2>6. e \in Partial(Table, DbTable)
    BY <1>0, <2>4, <2>5, PartialWith
  <2> QED BY <1>5, <2>1, <2>5, <2>6 DEF With, Touched, Databases
<1>6. s.sql # "unknown"
  BY DEF CanExecute
<1> QED BY <1>1, <1>2, <1>3, <1>4, <1>5, <1>6 DEF IsStatement

-----------------------------------------------------------------------------
(* What a server has of columns, and how changes come through to it.       *)
Shown(p, cs) == [n \in DOMAIN cs |-> OnServer(p, cs[n])]

(* The columns that a server shows, after an update in memory.             *)
LEMMA ShownWith ==
    ASSUME NEW p, NEW cs, NEW n, NEW x
    PROVE  Shown(p, With(cs, n, x)) = With(Shown(p, cs), n, OnServer(p, x))
BY DEF Shown, With

LEMMA ShownWithout ==
    ASSUME NEW p, NEW cs, NEW n
    PROVE  Shown(p, Without(cs, n)) = Without(Shown(p, cs), n)
<1>1. DOMAIN Shown(p, cs) = DOMAIN cs
  BY DEF Shown
<1> QED BY <1>1 DEF Shown, Without, Restrict

LEMMA ShownMoved ==
    ASSUME NEW p, NEW cs, NEW n \in DOMAIN cs, NEW m
    PROVE  Shown(p, Moved(cs, n, m)) = Moved(Shown(p, cs), n, m)
<1>1. Shown(p, cs)[n] = OnServer(p, cs[n])
  BY DEF Shown
<1> QED BY <1>1, ShownWith, ShownWithout DEF Moved

LEMMA MirrorIs ==
    ASSUME NEW p, NEW name, NEW t
    PROVE  Mirror(p, name, t) =
             [columns |-> Shown(p, t.columns), index |-> t.index,
              triggers |-> Triggers(p, name, StampedOf(t))]
BY DEF Mirror, Shown

(* The fields of the table that a server should have.                      *)
LEMMA MirrorFields ==
    ASSUME NEW p, NEW name, NEW t
    PROVE  /\ Mirror(p, name, t).columns = Shown(p, t.columns)
           /\ DOMAIN Mirror(p, name, t).columns = DOMAIN t.columns
           /\ Mirror(p, name, t).index = t.index
           /\ Mirror(p, name, t).triggers = Triggers(p, name, StampedOf(t))
BY MirrorIs DEF Shown

LEMMA TriggersIs ==
    ASSUME NEW p, NEW name, NEW ns
    PROVE  /\ \A z : z \in Triggers(p, name, ns) <=> p = "POSTGRE" /\ \E k \in ns : z = <<name, k>>
           /\ \A k : <<name, k>> \in Triggers(p, name, ns) <=> p = "POSTGRE" /\ k \in ns
BY DEF Triggers

(* The column that has a trigger, if it is stamped.                        *)
Stamp(n, stamped) == IF stamped THEN {n} ELSE {}

(* A column has one trigger with PostgreSQL if it is stamped, or none.     *)
LEMMA StampTriggers ==
    ASSUME NEW p, NEW name, NEW n, NEW st
    PROVE  \A z : z \in Triggers(p, name, Stamp(n, st)) <=> p = "POSTGRE" /\ st /\ z = <<name, n>>
BY DEF Triggers, Stamp

LEMMA StampTyped ==
    ASSUME NEW p, NEW name \in Table, NEW n \in Column, NEW st
    PROVE  Triggers(p, name, Stamp(n, st)) \in TriggerSet
BY DEF Triggers, Stamp, TriggerSet

(* The statements for changes of columns, field by field.                  *)
IsAdded(s, name, n, st, d) ==
    /\ s.sql = "ADD COLUMN" /\ s.table = name /\ s.after = AfterColumn
    /\ s.name = n /\ s.column = Declared(d, st)
    /\ s.triggers = Triggers(product, name, Stamp(n, st))

IsAltered(s, ts, name, n, st, d) ==
    /\ s.sql \in {"ALTER COLUMN", "nothing", "unknown"} /\ s.table = name
    /\ product = "MYSQL" \/ n \in DOMAIN Known(ts, name) => s.sql = "ALTER COLUMN"
    /\ s.after \in {AfterColumn, "table"}
    /\ s.name = n /\ s.column = Declared(d, st)

IsDropped(s, ts, name, n) ==
    LET stamped == n \in DOMAIN Known(ts, name) /\ Known(ts, name)[n].stamped
    IN  /\ s.sql = "DROP COLUMN" /\ s.table = name /\ s.after = AfterColumn
        /\ s.name = n /\ s.triggers = Triggers(product, name, Stamp(n, stamped))

IsRenamed(s, ts, name, n, m) ==
    /\ s.sql = "RENAME COLUMN" /\ s.table = name /\ s.after = AfterColumn
    /\ s.name = n /\ s.to = m
    /\ s.column = IF n \in DOMAIN Known(ts, name) THEN Known(ts, name)[n]
                  ELSE Declared(Undeclared, FALSE)

(* The statement for a change of a column has the fields that it should.   *)
LEMMA AddedFields ==
    ASSUME NEW ts, NEW name, NEW n, NEW st \in BOOLEAN, NEW d
    PROVE  IsAdded(ColumnStatement(ts, name, AddColumn(n, st), d), name, n, st, d)
<1> DEFINE c == AddColumn(n, st)
<1>1. c.do = "add" /\ c.name = n /\ c.stamped = st
  BY DEF AddColumn
<1> HIDE DEF c
<1>2. ColumnStatement(ts, name, c, d) = AddedColumn(name, c, d)
  BY <1>1 DEF ColumnStatement
<1> DEFINE triggers == IF product = "POSTGRE" /\ st THEN {<<name, n>>} ELSE {}
<1>3. triggers = Triggers(product, name, Stamp(n, st))
  BY DEF Triggers, Stamp
<1>4. AddedColumn(name, c, d) =
        [sql |-> "ADD COLUMN", table |-> name, after |-> AfterColumn, name |-> n,
         column |-> Declared(d, st), triggers |-> triggers]
  BY <1>1 DEF AddedColumn
<1> HIDE DEF triggers
<1> DEFINE s == ColumnStatement(ts, name, c, d)
<1>5. s = [sql |-> "ADD COLUMN", table |-> name, after |-> AfterColumn, name |-> n,
       column |-> Declared(d, st), triggers |-> triggers]
  BY <1>2, <1>4
<1> HIDE DEF s
<1>6. /\ s.sql = "ADD COLUMN" /\ s.table = name /\ s.after = AfterColumn
      /\ s.name = n /\ s.column = Declared(d, st)
      /\ s.triggers = Triggers(product, name, Stamp(n, st))
  BY <1>3, <1>5
<1> QED BY <1>6 DEF s, c, IsAdded

LEMMA AlteredFields ==
    ASSUME NEW ts, NEW name, NEW n, NEW st \in BOOLEAN, NEW d
    PROVE  IsAltered(ColumnStatement(ts, name, AlterColumn(n, st), d), ts, name, n, st, d)
<1> DEFINE c == AlterColumn(n, st)
<1>1. c.do = "alter" /\ c.name = n /\ c.stamped = st
  BY DEF AlterColumn
<1> HIDE DEF c
<1>2. ColumnStatement(ts, name, c, d) = AlteredColumn(ts, name, c, d)
  BY <1>1 DEF ColumnStatement
<1> DEFINE q == CASE product = "MYSQL" \/ n \in DOMAIN Known(ts, name) -> "ALTER COLUMN"
                  [] product = "POSTGRE" /\ name \notin DOMAIN ts -> "unknown"
                  [] OTHER -> "nothing"
           a == IF name \notin DOMAIN ts THEN "table" ELSE AfterColumn
<1>3. /\ q \in {"ALTER COLUMN", "nothing", "unknown"} /\ a \in {AfterColumn, "table"}
      /\ product = "MYSQL" \/ n \in DOMAIN Known(ts, name) => q = "ALTER COLUMN"
  <2>1. Known(ts, name) = IF name \in DOMAIN ts THEN ts[name].columns ELSE <<>>
    BY DEF Known
  <2>2. name \notin DOMAIN ts => n \notin DOMAIN Known(ts, name)
    BY <2>1
  <2> QED BY <2>2
<1>4. AlteredColumn(ts, name, c, d) =
        [sql |-> q, table |-> name, after |-> a, name |-> n, column |-> Declared(d, st)]
  BY <1>1 DEF AlteredColumn
<1> HIDE DEF q, a
<1> DEFINE s == ColumnStatement(ts, name, c, d)
<1>5. s = [sql |-> q, table |-> name, after |-> a, name |-> n, column |-> Declared(d, st)]
  BY <1>2, <1>4
<1> HIDE DEF s
<1>6. /\ s.sql \in {"ALTER COLUMN", "nothing", "unknown"} /\ s.table = name
      /\ product = "MYSQL" \/ n \in DOMAIN Known(ts, name) => s.sql = "ALTER COLUMN"
      /\ s.after \in {AfterColumn, "table"}
      /\ s.name = n /\ s.column = Declared(d, st)
  BY <1>3, <1>5
<1> QED BY <1>6 DEF s, c, IsAltered

LEMMA DroppedFields ==
    ASSUME NEW ts, NEW name, NEW n, NEW d
    PROVE  IsDropped(ColumnStatement(ts, name, DropColumn(n), d), ts, name, n)
<1> DEFINE c == DropColumn(n)
           stamped == n \in DOMAIN Known(ts, name) /\ Known(ts, name)[n].stamped
<1>1. c.do = "drop" /\ c.name = n
  BY DEF DropColumn
<1> HIDE DEF c
<1>2. ColumnStatement(ts, name, c, d) = DroppedColumn(ts, name, c)
  BY <1>1 DEF ColumnStatement
<1> DEFINE triggers == IF product = "POSTGRE" /\ n \in DOMAIN Known(ts, name)
                          /\ Known(ts, name)[n].stamped
                       THEN {<<name, n>>} ELSE {}
<1>3. triggers = Triggers(product, name, Stamp(n, stamped))
  BY DEF Triggers, Stamp
<1>4. DroppedColumn(ts, name, c) =
        [sql |-> "DROP COLUMN", table |-> name, after |-> AfterColumn, name |-> n,
         triggers |-> triggers]
  BY <1>1 DEF DroppedColumn
<1> HIDE DEF triggers, stamped
<1> DEFINE s == ColumnStatement(ts, name, c, d)
<1>5. s = [sql |-> "DROP COLUMN", table |-> name, after |-> AfterColumn, name |-> n,
       triggers |-> triggers]
  BY <1>2, <1>4
<1> HIDE DEF s
<1>6. /\ s.sql = "DROP COLUMN" /\ s.table = name /\ s.after = AfterColumn
      /\ s.name = n /\ s.triggers = Triggers(product, name, Stamp(n, stamped))
  BY <1>3, <1>5
<1> QED BY <1>6 DEF s, c, stamped, IsDropped

LEMMA RenamedFields ==
    ASSUME NEW ts, NEW name, NEW n, NEW m, NEW d
    PROVE  IsRenamed(ColumnStatement(ts, name, RenameColumn(n, m), d), ts, name, n, m)
<1> DEFINE c == RenameColumn(n, m)
           column == IF n \in DOMAIN Known(ts, name) THEN Known(ts, name)[n]
                     ELSE Declared(Undeclared, FALSE)
<1>1. c.do = "rename" /\ c.name = n /\ c.to = m
  BY DEF RenameColumn
<1> HIDE DEF c
<1>2. ColumnStatement(ts, name, c, d) = RenamedColumn(ts, name, c)
  BY <1>1 DEF ColumnStatement
<1>3. RenamedColumn(ts, name, c) =
        [sql |-> "RENAME COLUMN", table |-> name, after |-> AfterColumn, name |-> n, to |-> m,
         column |-> column]
  BY <1>1 DEF RenamedColumn
<1> HIDE DEF column
<1> DEFINE s == ColumnStatement(ts, name, c, d)
<1>5. s = [sql |-> "RENAME COLUMN", table |-> name, after |-> AfterColumn, name |-> n, to |-> m,
       column |-> column]
  BY <1>2, <1>3
<1> HIDE DEF s
<1>6. /\ s.sql = "RENAME COLUMN" /\ s.table = name /\ s.after = AfterColumn
      /\ s.name = n /\ s.to = m
      /\ s.column = column
  BY <1>5
<1> QED BY <1>6 DEF s, c, column, IsRenamed

LEMMA ColumnChangeKinds ==
    ASSUME NEW c \in ColumnChange
    PROVE  \/ \E n \in Column, st \in BOOLEAN : c = AddColumn(n, st)
           \/ \E n \in Column, st \in BOOLEAN : c = AlterColumn(n, st)
           \/ \E n \in Column : c = DropColumn(n)
           \/ \E n \in Column, m \in Column : c = RenameColumn(n, m)
BY DEF ColumnChange

(* A statement about columns of the table of this name.                    *)
OfColumns(s, name) ==
    /\ IsStatement(s) /\ s.table = name
    /\ s.sql \notin {"CREATE TABLE", "DROP TABLE", "RENAME TABLE"}

(* The statement for any change of a column, of a table that the schema    *)
(* perhaps has not.                                                        *)
LEMMA ColumnStatementTyped ==
    ASSUME NEW ts \in TablesSet, NEW name \in Table, NEW c \in ColumnChange, NEW d \in Defs
    PROVE  OfColumns(ColumnStatement(ts, name, c, d), name)
<1> DEFINE s == ColumnStatement(ts, name, c, d)
<1>0. AfterColumn \in {"table", "none"}
  BY DEF AfterColumn
<1>1. ASSUME NEW n \in Column, NEW st \in BOOLEAN, c = AddColumn(n, st)
      PROVE  IsStatement(s) /\ s.table = name /\ s.sql = "ADD COLUMN"
  <2>1. Declared(d, st) \in ColumnRecord
    BY DEF Declared, ColumnRecord, Defs
  <2>2. /\ s.sql = "ADD COLUMN" /\ s.table = name /\ s.after = AfterColumn /\ s.name = n
        /\ s.column = Declared(d, st)
        /\ s.triggers = Triggers(product, name, Stamp(n, st))
    <3>1. IsAdded(s, name, n, st, d)
      BY <1>1, AddedFields
    <3> QED BY <3>1 DEF IsAdded
  <2> HIDE DEF s
  <2> QED BY <1>0, <2>1, <2>2, StampTyped DEF IsStatement
<1>2. ASSUME NEW n \in Column, NEW st \in BOOLEAN, c = AlterColumn(n, st)
      PROVE  /\ IsStatement(s) /\ s.table = name
             /\ s.sql \in {"ALTER COLUMN", "nothing", "unknown"}
  <2>1. Declared(d, st) \in ColumnRecord
    BY DEF Declared, ColumnRecord, Defs
  <2>2. /\ s.sql \in {"ALTER COLUMN", "nothing", "unknown"}
        /\ s.table = name /\ s.after \in {AfterColumn, "table"} /\ s.name = n
        /\ s.column = Declared(d, st)
    <3>1. IsAltered(s, ts, name, n, st, d)
      BY <1>2, AlteredFields
    <3> QED BY <3>1 DEF IsAltered
  <2> HIDE DEF s
  <2> QED BY <1>0, <2>1, <2>2 DEF IsStatement
<1>3. ASSUME NEW n \in Column, c = DropColumn(n)
      PROVE  IsStatement(s) /\ s.table = name /\ s.sql = "DROP COLUMN"
  <2>1. s.sql = "DROP COLUMN" /\ s.table = name /\ s.after = AfterColumn /\ s.name = n
    <3>1. IsDropped(s, ts, name, n)
      BY <1>3, DroppedFields
    <3> QED BY <3>1 DEF IsDropped
  <2> HIDE DEF s
  <2> QED BY <1>0, <2>1 DEF IsStatement
<1>4. ASSUME NEW n \in Column, NEW m \in Column, c = RenameColumn(n, m)
      PROVE  IsStatement(s) /\ s.table = name /\ s.sql = "RENAME COLUMN"
  <2>1. Declared(Undeclared, FALSE) \in ColumnRecord
    BY DEF Declared, ColumnRecord, Undeclared
  <2>2. n \in DOMAIN Known(ts, name) => Known(ts, name)[n] \in ColumnRecord
    <3>1. name \in DOMAIN ts => ts[name] \in TableRecord
      BY PartialIs DEF TablesSet
    <3>2. name \in DOMAIN ts => \A k \in DOMAIN ts[name].columns : ts[name].columns[k] \in ColumnRecord
      BY <3>1, TableFields
    <3>3. DOMAIN <<>> = {}
      OBVIOUS
    <3> QED BY <3>2, <3>3 DEF Known
  <2>3. /\ s.sql = "RENAME COLUMN" /\ s.table = name /\ s.after = AfterColumn
        /\ s.name = n /\ s.to = m
        /\ s.column = IF n \in DOMAIN Known(ts, name) THEN Known(ts, name)[n]
                      ELSE Declared(Undeclared, FALSE)
    <3>1. IsRenamed(s, ts, name, n, m)
      BY <1>4, RenamedFields
    <3> QED BY <3>1 DEF IsRenamed
  <2> HIDE DEF s
  <2>4. s.column \in ColumnRecord
    BY <2>1, <2>2, <2>3
  <2> QED BY <1>0, <2>3, <2>4 DEF IsStatement
<1> HIDE DEF s
<1>5. /\ IsStatement(s) /\ s.table = name
      /\ s.sql \notin {"CREATE TABLE", "DROP TABLE", "RENAME TABLE"}
  BY <1>1, <1>2, <1>3, <1>4, ColumnChangeKinds
<1> QED BY <1>5 DEF s, OfColumns

(* The statement for a legal change of a table that the server has: it can *)
(* be executed, and does to the table what the change means.               *)
Faithful(ts, name, t, c, d, db0) ==
    LET s == ColumnStatement(ts, name, c, d)
    IN  /\ CanExecute(db0, s)
        /\ DOMAIN Executed(db0, s) = DOMAIN db0
        /\ Executed(db0, s)[name] = Mirror(product, name, UpdatedColumns(t, c, d))

(* Database db0 has table t by this name.                                  *)
Has(db0, name, t) ==
    /\ db0 \in Databases /\ name \in DOMAIN db0
    /\ db0[name] = Mirror(product, name, t)

LEMMA HasFields ==
    ASSUME NEW db0, NEW name, NEW t, Has(db0, name, t)
    PROVE  /\ name \in DOMAIN db0 /\ db0[name] \in DbTable
           /\ db0[name].columns = Shown(product, t.columns)
           /\ DOMAIN db0[name].columns = DOMAIN t.columns
           /\ db0[name].index = t.index
           /\ db0[name].triggers = Triggers(product, name, StampedOf(t))
<1>1. db0 \in Partial(Table, DbTable) /\ name \in DOMAIN db0
  BY DEF Has, Databases
<1>2. db0[name] \in DbTable
  BY <1>1, PartialIs
<1>3. db0[name] = Mirror(product, name, t)
  BY DEF Has
<1> QED BY <1>1, <1>2, <1>3, MirrorFields

(* The statement for a change within the limits can be executed on a table *)
(* that mirrors t, and leaves the mirror of t after the change.            *)
LEMMA AddFaithful ==
    ASSUME NEW ts, NEW name, NEW t \in TableRecord, NEW d \in Defs,
           NEW n \in Column, n \notin DOMAIN t.columns, NEW st \in BOOLEAN,
           NEW db0, Has(db0, name, t)
    PROVE  Faithful(ts, name, t, AddColumn(n, st), d, db0)
<1> DEFINE c == AddColumn(n, st)
           s == ColumnStatement(ts, name, c, d)
           u == UpdatedColumns(t, c, d)
           x == db0[name]
           y == OnServer(product, Declared(d, st))
<1>1. IsAdded(s, name, n, st, d)
  BY AddedFields
<1>2. u = [columns |-> With(t.columns, n, Declared(d, st)), index |-> t.index]
  BY ColumnAdded
<1>3. /\ s.sql = "ADD COLUMN" /\ s.table = name /\ s.name = n /\ s.column = Declared(d, st)
      /\ s.triggers = Triggers(product, name, Stamp(n, st))
  BY <1>1 DEF IsAdded
<1>4. name \in DOMAIN db0 /\ x \in DbTable
  BY HasFields
<1>5. /\ x.columns = Shown(product, t.columns) /\ DOMAIN x.columns = DOMAIN t.columns
      /\ x.index = t.index /\ x.triggers = Triggers(product, name, StampedOf(t))
  BY HasFields
<1>6. InServer(Declared(d, st)) = y
  <2>1. Declared(d, st) \in ColumnRecord
    BY DEF Declared, ColumnRecord, Defs
  <2> QED BY <2>1, InServerTyped
<1>7. \A k : k \in StampedOf(u) <=> k \in StampedOf(t) \/ k \in Stamp(n, st)
  BY <1>2 DEF StampedOf, With, Declared, Stamp
<1>8. n \notin StampedOf(t)
  BY DEF StampedOf
<1> HIDE DEF s, u, x, y
<1>15. \A z : z \in s.triggers <=> product = "POSTGRE" /\ st /\ z = <<name, n>>
  <2>1. \A z : z \in Triggers(product, name, Stamp(n, st)) <=>
                 product = "POSTGRE" /\ st /\ z = <<name, n>>
    BY StampTriggers
  <2> QED BY <1>3, <2>1
<1>16. \A z : z \in x.triggers <=> product = "POSTGRE" /\ \E k \in StampedOf(t) : z = <<name, k>>
  BY <1>5, TriggersIs
<1>17. \A k : k \in Stamp(n, st) <=> st /\ k = n
  BY DEF Stamp
<1>9. CanExecute(db0, s)
  <2>1. s.triggers \cap x.triggers = {}
    BY <1>8, <1>15, <1>16
  <2> QED BY <1>3, <1>4, <1>5, <2>1 DEF CanExecute, x
<1>10. x.triggers \cup s.triggers = Triggers(product, name, StampedOf(u))
  <2>1. \A z : z \in Triggers(product, name, StampedOf(u)) <=>
                 product = "POSTGRE" /\ \E k \in StampedOf(u) : z = <<name, k>>
    BY TriggersIs
  <2>2. \A z : z \in x.triggers \cup s.triggers <=> z \in Triggers(product, name, StampedOf(u))
    BY <1>7, <1>15, <1>16, <1>17, <2>1
  <2> QED BY <2>2
<1>11. ExecutedTable(x, s) =
         [columns |-> With(x.columns, n, y), index |-> x.index,
          triggers |-> Triggers(product, name, StampedOf(u))]
  <2>1. ExecutedTable(x, s) =
          [columns |-> With(x.columns, s.name, InServer(s.column)), index |-> x.index,
           triggers |-> x.triggers \cup s.triggers]
    BY <1>3, <1>4, ExecutedFields
  <2> QED BY <1>3, <1>6, <1>10, <2>1
<1>12. Shown(product, u.columns) = With(x.columns, n, y) /\ u.index = x.index
  BY <1>2, <1>5, ShownWith DEF y
<1>13. ExecutedTable(x, s) = Mirror(product, name, u)
  BY <1>11, <1>12, MirrorIs
<1>14. Executed(db0, s)[name] = Mirror(product, name, u) /\ DOMAIN Executed(db0, s) = DOMAIN db0
  <2>1. Executed(db0, s) = With(db0, name, ExecutedTable(x, s))
    BY <1>3 DEF Executed, x
  <2>2. /\ \A k : k \in DOMAIN With(db0, name, ExecutedTable(x, s)) <=> k \in DOMAIN db0 \/ k = name
        /\ With(db0, name, ExecutedTable(x, s))[name] = ExecutedTable(x, s)
    BY WithFacts
  <2> QED BY <1>4, <1>13, <2>1, <2>2
<1> QED BY <1>9, <1>14 DEF Faithful, u, s

LEMMA AlterFaithful ==
    ASSUME product \in Servers, NEW ts, NEW name, NEW t \in TableRecord, NEW d \in Defs,
           NEW n \in DOMAIN t.columns, NEW st \in BOOLEAN,
           product = "POSTGRE" => n \in DOMAIN Known(ts, name) /\ (st <=> n \in StampedOf(t)),
           NEW db0, Has(db0, name, t)
    PROVE  Faithful(ts, name, t, AlterColumn(n, st), d, db0)
<1> DEFINE c == AlterColumn(n, st)
           s == ColumnStatement(ts, name, c, d)
           u == UpdatedColumns(t, c, d)
           x == db0[name]
           y == OnServer(product, Declared(d, st))
<1>1. IsAltered(s, ts, name, n, st, d)
  BY AlteredFields
<1>2. u = [columns |-> With(t.columns, n, Declared(d, st)), index |-> t.index]
  BY ColumnAltered
<1>3. s.sql = "ALTER COLUMN" /\ s.table = name /\ s.name = n /\ s.column = Declared(d, st)
  <2>1. product = "MYSQL" \/ n \in DOMAIN Known(ts, name)
    BY DEF Servers
  <2> HIDE DEF s
  <2> QED BY <1>1, <2>1 DEF IsAltered
<1>4. name \in DOMAIN db0 /\ x \in DbTable
  BY HasFields
<1>5. /\ x.columns = Shown(product, t.columns) /\ DOMAIN x.columns = DOMAIN t.columns
      /\ x.index = t.index /\ x.triggers = Triggers(product, name, StampedOf(t))
  BY HasFields
<1>6. InServer(Declared(d, st)) = y
  <2>1. Declared(d, st) \in ColumnRecord
    BY DEF Declared, ColumnRecord, Defs
  <2> QED BY <2>1, InServerTyped
<1>7. product = "POSTGRE" => \A k : k \in StampedOf(u) <=> k \in StampedOf(t)
  BY <1>2 DEF StampedOf, With, Declared
<1> HIDE DEF s, u, x, y
<1>9. CanExecute(db0, s)
  BY <1>3, <1>4, <1>5 DEF CanExecute, x
<1>10. x.triggers = Triggers(product, name, StampedOf(u))
  BY <1>5, <1>7, TriggersIs
<1>11. ExecutedTable(x, s) =
         [columns |-> With(x.columns, n, y), index |-> x.index, triggers |-> x.triggers]
  <2>1. ExecutedTable(x, s) =
          [columns |-> With(x.columns, s.name, InServer(s.column)), index |-> x.index,
           triggers |-> x.triggers]
    BY <1>3, <1>4, ExecutedFields
  <2> QED BY <1>3, <1>6, <2>1
<1>12. Shown(product, u.columns) = With(x.columns, n, y) /\ u.index = x.index
  BY <1>2, <1>5, ShownWith DEF y
<1>13. ExecutedTable(x, s) = Mirror(product, name, u)
  BY <1>10, <1>11, <1>12, MirrorIs
<1>14. Executed(db0, s)[name] = Mirror(product, name, u) /\ DOMAIN Executed(db0, s) = DOMAIN db0
  <2>1. Executed(db0, s) = With(db0, name, ExecutedTable(x, s))
    BY <1>3 DEF Executed, x
  <2>2. /\ \A k : k \in DOMAIN With(db0, name, ExecutedTable(x, s)) <=> k \in DOMAIN db0 \/ k = name
        /\ With(db0, name, ExecutedTable(x, s))[name] = ExecutedTable(x, s)
    BY WithFacts
  <2> QED BY <1>4, <1>13, <2>1, <2>2
<1> QED BY <1>9, <1>14 DEF Faithful, u, s

LEMMA DropFaithful ==
    ASSUME NEW ts, NEW name, NEW t \in TableRecord, NEW d \in Defs,
           NEW n \in DOMAIN t.columns,
           product = "POSTGRE" => name \in DOMAIN ts /\ StampedOf(ts[name]) = StampedOf(t),
           NEW db0, Has(db0, name, t)
    PROVE  Faithful(ts, name, t, DropColumn(n), d, db0)
<1> DEFINE c == DropColumn(n)
           s == ColumnStatement(ts, name, c, d)
           u == UpdatedColumns(t, c, d)
           x == db0[name]
           stamped == n \in DOMAIN Known(ts, name) /\ Known(ts, name)[n].stamped
<1>1. IsDropped(s, ts, name, n)
  BY DroppedFields
<1>2. u = [columns |-> Without(t.columns, n), index |-> Index(t, n, NoName)]
  BY ColumnDropped
<1>3. /\ s.sql = "DROP COLUMN" /\ s.table = name /\ s.name = n
      /\ s.triggers = Triggers(product, name, Stamp(n, stamped))
  BY <1>1 DEF IsDropped
<1>4. name \in DOMAIN db0 /\ x \in DbTable
  BY HasFields
<1>5. /\ x.columns = Shown(product, t.columns) /\ DOMAIN x.columns = DOMAIN t.columns
      /\ x.index = t.index /\ x.triggers = Triggers(product, name, StampedOf(t))
  BY HasFields
<1>6. product = "POSTGRE" => (stamped <=> n \in StampedOf(t))
  <2>1. product = "POSTGRE" => Known(ts, name) = ts[name].columns
    BY DEF Known
  <2>2. product = "POSTGRE" => (stamped <=> n \in StampedOf(ts[name]))
    BY <2>1 DEF StampedOf
  <2> QED BY <2>2
<1>7. \A k : k \in StampedOf(u) <=> k \in StampedOf(t) /\ k # n
  BY <1>2 DEF StampedOf, Without, Restrict
<1> HIDE DEF s, u, x, stamped
<1>8. \A z : z \in s.triggers <=> product = "POSTGRE" /\ n \in StampedOf(t) /\ z = <<name, n>>
  <2>1. \A z : z \in Triggers(product, name, Stamp(n, stamped)) <=>
                 product = "POSTGRE" /\ stamped /\ z = <<name, n>>
    BY StampTriggers
  <2> QED BY <1>3, <1>6, <2>1
<1>9. CanExecute(db0, s)
  <2>1. s.triggers \subseteq x.triggers
    BY <1>5, <1>8, TriggersIs
  <2> QED BY <1>3, <1>4, <1>5, <2>1 DEF CanExecute, x
<1>10. x.triggers \ s.triggers = Triggers(product, name, StampedOf(u))
  <2>1. \A z : z \in x.triggers <=> product = "POSTGRE" /\ \E k \in StampedOf(t) : z = <<name, k>>
    BY <1>5, TriggersIs
  <2>2. \A z : z \in Triggers(product, name, StampedOf(u)) <=>
                 product = "POSTGRE" /\ \E k \in StampedOf(u) : z = <<name, k>>
    BY TriggersIs
  <2>3. \A z : z \in x.triggers \ s.triggers <=> z \in Triggers(product, name, StampedOf(u))
    BY <1>7, <1>8, <2>1, <2>2
  <2> QED BY <2>3
<1>11. ExecutedTable(x, s) =
         [columns |-> Without(x.columns, n), index |-> Index(x, n, NoName),
          triggers |-> Triggers(product, name, StampedOf(u))]
  <2>1. ExecutedTable(x, s) =
          [columns |-> Without(x.columns, s.name), index |-> Index(x, s.name, NoName),
           triggers |-> x.triggers \ s.triggers]
    BY <1>3, <1>4, ExecutedFields
  <2> QED BY <1>3, <1>10, <2>1
<1>12. Shown(product, u.columns) = Without(x.columns, n) /\ u.index = Index(x, n, NoName)
  BY <1>2, <1>5, ShownWithout DEF Index
<1>13. ExecutedTable(x, s) = Mirror(product, name, u)
  BY <1>11, <1>12, MirrorIs
<1>14. Executed(db0, s)[name] = Mirror(product, name, u) /\ DOMAIN Executed(db0, s) = DOMAIN db0
  <2>1. Executed(db0, s) = With(db0, name, ExecutedTable(x, s))
    BY <1>3 DEF Executed, x
  <2>2. /\ \A k : k \in DOMAIN With(db0, name, ExecutedTable(x, s)) <=> k \in DOMAIN db0 \/ k = name
        /\ With(db0, name, ExecutedTable(x, s))[name] = ExecutedTable(x, s)
    BY WithFacts
  <2> QED BY <1>4, <1>13, <2>1, <2>2
<1> QED BY <1>9, <1>14 DEF Faithful, u, s

LEMMA RenameFaithful ==
    ASSUME product \in Servers, NEW ts, NEW name, NEW t \in TableRecord, NEW d \in Defs,
           NEW n \in DOMAIN t.columns, NEW m \in Column, m \notin DOMAIN t.columns,
           product = "MYSQL" =>
              n \in DOMAIN Known(ts, name) /\ Known(ts, name)[n] = t.columns[n],
           product = "POSTGRE" => n \notin StampedOf(t),
           NEW db0, Has(db0, name, t)
    PROVE  Faithful(ts, name, t, RenameColumn(n, m), d, db0)
<1> DEFINE c == RenameColumn(n, m)
           s == ColumnStatement(ts, name, c, d)
           u == UpdatedColumns(t, c, d)
           x == db0[name]
<1>1. IsRenamed(s, ts, name, n, m)
  BY RenamedFields
<1>2. u = [columns |-> Moved(t.columns, n, m), index |-> Index(t, n, m)]
  BY ColumnRenamed
<1>3. /\ s.sql = "RENAME COLUMN" /\ s.table = name /\ s.name = n /\ s.to = m
      /\ product = "MYSQL" => s.column = t.columns[n]
  BY <1>1 DEF IsRenamed
<1>4. name \in DOMAIN db0 /\ x \in DbTable
  BY HasFields
<1>5. /\ x.columns = Shown(product, t.columns) /\ DOMAIN x.columns = DOMAIN t.columns
      /\ x.index = t.index /\ x.triggers = Triggers(product, name, StampedOf(t))
  BY HasFields
<1>6. product = "MYSQL" => x.columns[n] = t.columns[n]
  <2>1. t.columns[n] \in ColumnRecord
    BY TableFields
  <2>2. x.columns[n] = OnServer(product, t.columns[n])
    BY <1>5 DEF Shown
  <2>3. \A r \in ColumnRecord : product = "MYSQL" => OnServer(product, r) = r
    BY DEF OnServer, ColumnRecord
  <2> HIDE DEF x
  <2> QED BY <2>1, <2>2, <2>3
<1>7. product = "POSTGRE" => \A k : k \in StampedOf(u) <=> k \in StampedOf(t)
  <2> DEFINE cs == t.columns
             us == u.columns
  <2>1. us = Moved(cs, n, m) /\ n \in DOMAIN cs /\ m # n
    BY <1>2
  <2> HIDE DEF cs, us, u
  <2>2. /\ \A k : k \in DOMAIN us <=> (k \in DOMAIN cs /\ k # n) \/ k = m
        /\ us[m] = cs[n]
        /\ \A k \in DOMAIN cs : k # n /\ k # m => us[k] = cs[k]
    BY <2>1, MovedFacts
  <2>3. /\ \A k : k \in StampedOf(u) <=> k \in DOMAIN us /\ us[k].stamped
        /\ \A k : k \in StampedOf(t) <=> k \in DOMAIN cs /\ cs[k].stamped
    BY DEF StampedOf, us, cs
  <2>4. m \notin DOMAIN cs
    BY DEF cs
  <2> QED BY <2>1, <2>2, <2>3, <2>4
<1> HIDE DEF s, u, x
<1>9. CanExecute(db0, s)
  BY <1>3, <1>4, <1>5 DEF CanExecute, x
<1>10. x.triggers = Triggers(product, name, StampedOf(u))
  BY <1>5, <1>7, TriggersIs
<1>11. ExecutedTable(x, s) =
         [columns |-> Moved(x.columns, n, m), index |-> Index(x, n, m), triggers |-> x.triggers]
  <2>1. ExecutedTable(x, s) =
          [columns |-> IF product = "MYSQL" THEN With(Without(x.columns, s.name), s.to, s.column)
                       ELSE Moved(x.columns, s.name, s.to),
           index |-> Index(x, s.name, s.to), triggers |-> x.triggers]
    BY <1>3, <1>4, ExecutedFields
  <2>2. product = "MYSQL" => With(Without(x.columns, n), m, t.columns[n]) = Moved(x.columns, n, m)
    BY <1>6 DEF Moved
  <2> QED BY <1>3, <2>1, <2>2
<1>12. Shown(product, u.columns) = Moved(x.columns, n, m) /\ u.index = Index(x, n, m)
  BY <1>2, <1>5, ShownMoved DEF Index
<1>13. ExecutedTable(x, s) = Mirror(product, name, u)
  BY <1>10, <1>11, <1>12, MirrorIs
<1>14. Executed(db0, s)[name] = Mirror(product, name, u) /\ DOMAIN Executed(db0, s) = DOMAIN db0
  <2>1. Executed(db0, s) = With(db0, name, ExecutedTable(x, s))
    BY <1>3 DEF Executed, x
  <2>2. /\ \A k : k \in DOMAIN With(db0, name, ExecutedTable(x, s)) <=> k \in DOMAIN db0 \/ k = name
        /\ With(db0, name, ExecutedTable(x, s))[name] = ExecutedTable(x, s)
    BY WithFacts
  <2> QED BY <1>4, <1>13, <2>1, <2>2
<1> QED BY <1>9, <1>14 DEF Faithful, u, s

(* The limits of each kind of change.                                      *)
LEMMA LegalColumnKinds ==
    ASSUME NEW p, NEW ts, NEW name, NEW t, NEW c, LegalColumn(p, ts, name, t, c)
    PROVE  \/ \E n \in Column \ DOMAIN t.columns, st \in BOOLEAN : c = AddColumn(n, st)
           \/ \E n \in DOMAIN t.columns, st \in BOOLEAN :
                 /\ c = AlterColumn(n, st)
                 /\ p = "POSTGRE" => n \in DOMAIN Known(ts, name) /\ (st <=> n \in StampedOf(t))
           \/ \E n \in DOMAIN t.columns :
                 /\ c = DropColumn(n)
                 /\ p = "POSTGRE" => name \in DOMAIN ts /\ StampedOf(ts[name]) = StampedOf(t)
           \/ \E n \in DOMAIN t.columns, m \in Column \ DOMAIN t.columns :
                 /\ c = RenameColumn(n, m)
                 /\ p = "MYSQL" =>
                       n \in DOMAIN Known(ts, name) /\ Known(ts, name)[n] = t.columns[n]
                 /\ p = "POSTGRE" => n \notin StampedOf(t)
<1>1. \A n, st : AlterColumn(n, st).name = n /\ AlterColumn(n, st).stamped = st
  BY DEF AlterColumn
<1>2. \A n, m : RenameColumn(n, m).name = n
  BY DEF RenameColumn
<1> QED BY <1>1, <1>2 DEF LegalColumn

(* ...so for every change of a column within the limits.                   *)
LEMMA LegalFaithful ==
    ASSUME product \in Servers, NEW ts, NEW name, NEW t \in TableRecord, NEW d \in Defs,
           NEW c, LegalColumn(product, ts, name, t, c),
           NEW db0, Has(db0, name, t)
    PROVE  Faithful(ts, name, t, c, d, db0)
<1>1. CASE \E n \in Column \ DOMAIN t.columns, st \in BOOLEAN : c = AddColumn(n, st)
  BY <1>1, AddFaithful
<1>2. CASE \E n \in DOMAIN t.columns, st \in BOOLEAN :
              /\ c = AlterColumn(n, st)
              /\ product = "POSTGRE" =>
                    n \in DOMAIN Known(ts, name) /\ (st <=> n \in StampedOf(t))
  BY <1>2, AlterFaithful
<1>3. CASE \E n \in DOMAIN t.columns :
              /\ c = DropColumn(n)
              /\ product = "POSTGRE" => name \in DOMAIN ts /\ StampedOf(ts[name]) = StampedOf(t)
  BY <1>3, DropFaithful
<1>4. CASE \E n \in DOMAIN t.columns, m \in Column \ DOMAIN t.columns :
              /\ c = RenameColumn(n, m)
              /\ product = "MYSQL" =>
                    n \in DOMAIN Known(ts, name) /\ Known(ts, name)[n] = t.columns[n]
              /\ product = "POSTGRE" => n \notin StampedOf(t)
  <2>1. PICK n \in DOMAIN t.columns, m \in Column \ DOMAIN t.columns :
              /\ c = RenameColumn(n, m)
              /\ product = "MYSQL" =>
                    n \in DOMAIN Known(ts, name) /\ Known(ts, name)[n] = t.columns[n]
              /\ product = "POSTGRE" => n \notin StampedOf(t)
    BY <1>4
  <2>2. Faithful(ts, name, t, RenameColumn(n, m), d, db0)
    BY <2>1, RenameFaithful
  <2> QED BY <2>1, <2>2
<1> QED BY <1>1, <1>2, <1>3, <1>4, LegalColumnKinds

-----------------------------------------------------------------------------
(* The changes of a migration, and the tables after each.                  *)

LEMMA LegalColumnTyped ==
    ASSUME NEW p, NEW ts, NEW name, NEW t \in TableRecord, NEW d \in Defs,
           NEW c, LegalColumn(p, ts, name, t, c)
    PROVE  UpdatedColumns(t, c, d) \in TableRecord
<1>0. DOMAIN t.columns \subseteq Column
  BY TableFields
<1>1. \/ \E n \in Column \ DOMAIN t.columns, st \in BOOLEAN : c = AddColumn(n, st)
      \/ \E n \in DOMAIN t.columns, st \in BOOLEAN : c = AlterColumn(n, st)
      \/ \E n \in DOMAIN t.columns : c = DropColumn(n)
      \/ \E n \in DOMAIN t.columns, m \in Column \ DOMAIN t.columns : c = RenameColumn(n, m)
  BY DEF LegalColumn
<1> QED BY <1>1, ColumnAdded, ColumnAltered, ColumnDropped, ColumnRenamed

LegalAlteration(p, ts, now, c, v, i) ==
    /\ Len(c.columns) \in Nat \ {0}
    /\ c.table \in DOMAIN now
    /\ \A j \in 1 .. Len(c.columns) :
          /\ c.columns[j] \in ColumnChange
          /\ LegalColumn(p, ts, c.table, TableAfter(now[c.table], c, v, i)[j - 1], c.columns[j])

(* The table in memory stays one, change after change.                     *)
LEMMA TableAfterTyped ==
    ASSUME NEW p, NEW ts, NEW now \in TablesSet, NEW c, NEW v \in Nat, NEW i \in Nat,
           LegalAlteration(p, ts, now, c, v, i)
    PROVE  \A j \in 0 .. Len(c.columns) : TableAfter(now[c.table], c, v, i)[j] \in TableRecord
<1> DEFINE n == Len(c.columns)
           t == now[c.table]
           f == TableAfter(t, c, v, i)
           T == {j \in Nat : j <= n => f[j] \in TableRecord}
<1>1. n \in Nat /\ t \in TableRecord
  BY PartialIs DEF LegalAlteration, TablesSet
<1>2. f[0] = t /\ \A j \in 1 .. n : f[j] = UpdatedColumns(f[j - 1], c.columns[j], Def(v, i, j))
  BY <1>1, TableAfterSteps
<1>3. \A j \in 1 .. n : LegalColumn(p, ts, c.table, f[j - 1], c.columns[j])
  BY DEF LegalAlteration
<1> HIDE DEF f, n, t
<1>4. 0 \in T
  BY <1>1, <1>2
<1>5. ASSUME NEW j \in T, j \in Nat PROVE j + 1 \in T
  <2>1. SUFFICES ASSUME j + 1 <= n PROVE f[j + 1] \in TableRecord
    BY <1>5
  <2>2. j + 1 \in 1 .. n /\ (j + 1) - 1 = j /\ f[j] \in TableRecord
    BY <1>1, <1>5, <2>1
  <2>3. Def(v, i, j + 1) \in Defs
    BY <1>5 DEF Def, Defs
  <2> QED BY <1>2, <1>3, <2>2, <2>3, LegalColumnTyped
<1>6. Nat \subseteq T
  <2> HIDE DEF T
  <2> QED BY <1>4, <1>5, Induct
<1>7. \A j \in 0 .. n : f[j] \in TableRecord
  BY <1>1, <1>6
<1> QED BY <1>7 DEF f, n, t

LEMMA TablesAre ==
    ASSUME NEW ts \in TablesSet
    PROVE  /\ ts \in Partial(Table, TableRecord)
           /\ \A t \in DOMAIN ts : t \in Table /\ ts[t] \in TableRecord
<1>1. ts \in Partial(Table, TableRecord)
  BY DEF TablesSet
<1> QED BY <1>1, PartialIs

LEMMA KindIs ==
    ASSUME NEW p, NEW ts, NEW now, NEW c, NEW v, NEW i, LegalChange(p, ts, now, c, v, i)
    PROVE  c.do = "create" \/ c.do = "drop" \/ c.do = "rename" \/ c.do = "alter"
BY DEF LegalChange

(* A legal change, by its kind.                                            *)
LEMMA CreateKind ==
    ASSUME NEW p, NEW ts, NEW now, NEW c, NEW v, NEW i, LegalChange(p, ts, now, c, v, i),
           c.do = "create"
    PROVE  \E t \in Table, st \in BOOLEAN, ix \in BOOLEAN :
              t \notin DOMAIN now /\ c = Create(t, st, ix)
BY DEF LegalChange

LEMMA DropKind ==
    ASSUME NEW p, NEW ts, NEW now \in TablesSet, NEW c, NEW v, NEW i,
           LegalChange(p, ts, now, c, v, i), c.do = "drop"
    PROVE  \E t \in Table :
              /\ t \in DOMAIN now /\ c = DropTable(t)
              /\ p = "POSTGRE" => t \in DOMAIN ts /\ StampedOf(ts[t]) = StampedOf(now[t])
<1>1. /\ c \in {DropTable(t) : t \in DOMAIN now}
      /\ p = "POSTGRE" => c.table \in DOMAIN ts /\ StampedOf(ts[c.table]) = StampedOf(now[c.table])
  BY DEF LegalChange
<1>2. PICK t \in DOMAIN now : c = DropTable(t)
  BY <1>1
<1>3. c.table = t
  BY <1>2 DEF DropTable
<1> QED BY <1>1, <1>2, <1>3, TablesAre

(* Triggers keep their names: a renamed table has none.                    *)
NoTriggers(p, t) == p = "POSTGRE" => \A k : k \notin StampedOf(t)

LEMMA RenameKind ==
    ASSUME NEW p, NEW ts, NEW now \in TablesSet, NEW c, NEW v, NEW i,
           LegalChange(p, ts, now, c, v, i), c.do = "rename"
    PROVE  \E t \in Table, w \in Table :
              /\ t \in DOMAIN now /\ w \notin DOMAIN now /\ t # w /\ c = RenameTable(t, w)
              /\ NoTriggers(p, now[t])
<1>1. /\ c \in {RenameTable(t, u) : t \in DOMAIN now, u \in Table \ DOMAIN now}
      /\ p = "POSTGRE" => StampedOf(now[c.table]) = {}
  BY DEF LegalChange
<1>2. PICK t \in DOMAIN now, w \in Table \ DOMAIN now : c = RenameTable(t, w)
  BY <1>1
<1>3. c.table = t
  BY <1>2 DEF RenameTable
<1>4. NoTriggers(p, now[t])
  BY <1>1, <1>3 DEF NoTriggers
<1> QED BY <1>2, <1>4, TablesAre

LEMMA AlterKind ==
    ASSUME NEW p, NEW ts, NEW now, NEW c, NEW v, NEW i,
           LegalChange(p, ts, now, c, v, i), c.do = "alter"
    PROVE  LegalAlteration(p, ts, now, c, v, i)
<1>1. /\ c \in {Alter(t, cs) : t \in DOMAIN now, cs \in Seq(ColumnChange)}
      /\ c.columns # <<>>
      /\ \A j \in 1 .. Len(c.columns) :
           LegalColumn(p, ts, c.table, TableAfter(now[c.table], c, v, i)[j - 1], c.columns[j])
  BY DEF LegalChange
<1>2. c.columns \in Seq(ColumnChange) /\ c.table \in DOMAIN now
  BY <1>1 DEF Alter
<1>3. Len(c.columns) \in Nat \ {0} /\ \A j \in 1 .. Len(c.columns) : c.columns[j] \in ColumnChange
  BY <1>1, <1>2
<1> QED BY <1>1, <1>2, <1>3 DEF LegalAlteration

(* What the changes are about.                                             *)
LEMMA AboutIs ==
    ASSUME NEW c, NEW x
    PROVE  x \in About(c) <=> x = c.table \/ (c.do = "rename" /\ x = c.to)
BY DEF About

LEMMA ChangeFields ==
    /\ \A t, st, ix : /\ Create(t, st, ix).do = "create" /\ Create(t, st, ix).table = t
                      /\ Create(t, st, ix).stamped = st /\ Create(t, st, ix).indexed = ix
    /\ \A t : DropTable(t).do = "drop" /\ DropTable(t).table = t
    /\ \A t, w : /\ RenameTable(t, w).do = "rename" /\ RenameTable(t, w).table = t
                 /\ RenameTable(t, w).to = w
BY DEF Create, DropTable, RenameTable

(* What a table is created as.                                             *)
Single(d, st) == [n \in {First} |-> Declared(d, st)]

(* The table that is created in memory.                                    *)
LEMMA NewTableIs ==
    ASSUME NEW st \in BOOLEAN, NEW ix \in BOOLEAN, NEW t, NEW d \in Defs
    PROVE  /\ NewTable(Create(t, st, ix), d) =
                 [columns |-> Single(d, st), index |-> IF ix THEN First ELSE NoName]
           /\ NewTable(Create(t, st, ix), d) \in TableRecord
           /\ \A k : k \in StampedOf(NewTable(Create(t, st, ix), d)) <=> k \in Stamp(First, st)
<1> DEFINE cs == Single(d, st)
           index == IF ix THEN First ELSE NoName
<1>1. NewTable(Create(t, st, ix), d) = [columns |-> cs, index |-> index]
  BY DEF NewTable, Create, Single
<1>2. Declared(d, st) \in ColumnRecord /\ Declared(d, st).stamped = st
  BY DEF Declared, ColumnRecord, Defs
<1>3. /\ cs = [n \in DOMAIN cs |-> cs[n]] /\ DOMAIN cs = {First} /\ cs[First] = Declared(d, st)
  BY DEF Single
<1>4. First \in Column
  BY ServerAssumption
<1> HIDE DEF cs
<1>5. DOMAIN cs \subseteq Column /\ \A n \in DOMAIN cs : cs[n] \in ColumnRecord
  BY <1>2, <1>3, <1>4
<1>6. cs \in ColumnsOf
  BY <1>3, <1>5, PartialIs DEF ColumnsOf
<1>7. index \in DOMAIN cs \cup {NoName}
  BY <1>3
<1> HIDE DEF index
<1> DEFINE u == [columns |-> cs, index |-> index]
<1>8. u \in TableRecord
  BY <1>5, <1>6, <1>7 DEF TableRecord, HasIndex
<1>9. u.columns = cs
  OBVIOUS
<1> HIDE DEF u
<1>10. \A k : k \in StampedOf(u) <=> k \in DOMAIN cs /\ cs[k].stamped
  BY <1>9 DEF StampedOf
<1>11. \A k : k \in Stamp(First, st) <=> st /\ k = First
  BY DEF Stamp
<1>12. \A k : k \in StampedOf(u) <=> k \in Stamp(First, st)
  BY <1>2, <1>3, <1>10, <1>11
<1> QED BY <1>1, <1>8, <1>12 DEF u, cs, index

(* Two schemas have the same of x.                                         *)
Same(a, b, x) ==
    /\ x \in DOMAIN a <=> x \in DOMAIN b
    /\ x \in DOMAIN a => a[x] = b[x]

LEMMA WithSame ==
    ASSUME NEW f, NEW k, NEW e, NEW x, x # k
    PROVE  Same(f, With(f, k, e), x)
BY WithFacts DEF Same

(* What a change makes of the tables, by its kind.                         *)
LEMMA UpdatedCreate ==
    ASSUME NEW now, NEW t, t \notin DOMAIN now, NEW st, NEW ix, NEW v, NEW i
    PROVE  UpdatedTables(now, Create(t, st, ix), v, i) =
              With(now, t, NewTable(Create(t, st, ix), Def(v, i, 0)))
<1> DEFINE c == Create(t, st, ix)
<1>1. c.do = "create" /\ c.table = t
  BY DEF Create
<1> HIDE DEF c
<1>2. UpdatedTables(now, c, v, i) = With(now, t, NewTable(c, Def(v, i, 0)))
  BY <1>1 DEF UpdatedTables
<1> QED BY <1>2 DEF c

LEMMA UpdatedDrop ==
    ASSUME NEW now, NEW t \in DOMAIN now, NEW v, NEW i
    PROVE  UpdatedTables(now, DropTable(t), v, i) = Without(now, t)
<1> DEFINE c == DropTable(t)
<1>1. c.do = "drop" /\ c.table = t
  BY DEF DropTable
<1> HIDE DEF c
<1>2. UpdatedTables(now, c, v, i) = Without(now, t)
  BY <1>1 DEF UpdatedTables
<1> QED BY <1>2 DEF c

LEMMA UpdatedRename ==
    ASSUME NEW now, NEW t \in DOMAIN now, NEW w, NEW v, NEW i
    PROVE  UpdatedTables(now, RenameTable(t, w), v, i) = Moved(now, t, w)
<1> DEFINE c == RenameTable(t, w)
<1>1. c.do = "rename" /\ c.table = t /\ c.to = w
  BY DEF RenameTable
<1> HIDE DEF c
<1>2. UpdatedTables(now, c, v, i) = Moved(now, t, w)
  BY <1>1 DEF UpdatedTables
<1> QED BY <1>2 DEF c

LEMMA UpdatedAlter ==
    ASSUME NEW now, NEW c, c.do = "alter", c.table \in DOMAIN now, NEW v, NEW i
    PROVE  UpdatedTables(now, c, v, i) =
              With(now, c.table, TableAfter(now[c.table], c, v, i)[Len(c.columns)])
BY DEF UpdatedTables, UpdatedTable

(* A legal change leaves tables...                                         *)
LEMMA UpdatedTyped ==
    ASSUME NEW p, NEW ts, NEW now \in TablesSet, NEW c, NEW v \in Nat, NEW i \in Nat,
           LegalChange(p, ts, now, c, v, i)
    PROVE  UpdatedTables(now, c, v, i) \in TablesSet
<1> DEFINE u == UpdatedTables(now, c, v, i)
<1>0. now \in Partial(Table, TableRecord)
  BY DEF TablesSet
<1>1. CASE c.do = "create"
  <2>1. PICK t \in Table, st \in BOOLEAN, ix \in BOOLEAN :
                t \notin DOMAIN now /\ c = Create(t, st, ix)
    BY <1>1, CreateKind
  <2>2. Def(v, i, 0) \in Defs
    BY DEF Def, Defs
  <2>3. NewTable(c, Def(v, i, 0)) \in TableRecord
    BY <2>1, <2>2, NewTableIs
  <2>4. u = With(now, t, NewTable(c, Def(v, i, 0)))
    BY <2>1, UpdatedCreate
  <2> HIDE DEF u
  <2>5. u \in Partial(Table, TableRecord)
    BY <1>0, <2>3, <2>4, PartialWith
  <2> QED BY <2>5 DEF TablesSet, u
<1>2. CASE c.do = "drop"
  <2>1. PICK t \in Table : t \in DOMAIN now /\ c = DropTable(t)
    BY <1>2, DropKind
  <2>2. u = Without(now, t)
    BY <2>1, UpdatedDrop
  <2> HIDE DEF u
  <2>3. u \in Partial(Table, TableRecord)
    BY <1>0, <2>2, PartialWithout
  <2> QED BY <2>3 DEF TablesSet, u
<1>3. CASE c.do = "rename"
  <2>1. PICK t \in Table, w \in Table :
                t \in DOMAIN now /\ w \notin DOMAIN now /\ t # w /\ c = RenameTable(t, w)
    BY <1>3, RenameKind
  <2>2. u = Moved(now, t, w)
    BY <2>1, UpdatedRename
  <2> HIDE DEF u
  <2>3. u \in Partial(Table, TableRecord)
    BY <1>0, <2>1, <2>2, PartialMoved
  <2> QED BY <2>3 DEF TablesSet, u
<1>4. CASE c.do = "alter"
  <2>1. LegalAlteration(p, ts, now, c, v, i)
    BY <1>4, AlterKind
  <2>2. c.table \in DOMAIN now /\ Len(c.columns) \in Nat
    BY <2>1 DEF LegalAlteration
  <2> DEFINE w == TableAfter(now[c.table], c, v, i)[Len(c.columns)]
  <2>3. \A j \in 0 .. Len(c.columns) : TableAfter(now[c.table], c, v, i)[j] \in TableRecord
    BY <2>1, TableAfterTyped
  <2>4. w \in TableRecord
    BY <2>2, <2>3
  <2>5. u = With(now, c.table, w)
    BY <1>4, <2>2, UpdatedAlter
  <2> HIDE DEF w, u
  <2>6. c.table \in Table
    BY <2>2, TablesAre
  <2>7. u \in Partial(Table, TableRecord)
    BY <1>0, <2>4, <2>5, <2>6, PartialWith
  <2> QED BY <2>7 DEF TablesSet, u
<1> HIDE DEF u
<1> QED BY <1>1, <1>2, <1>3, <1>4, KindIs DEF u

(* ...and the tables that it is not about as they were.                    *)
LEMMA UpdatedSame ==
    ASSUME NEW p, NEW ts, NEW now \in TablesSet, NEW c, NEW v, NEW i,
           LegalChange(p, ts, now, c, v, i), NEW x, x \notin About(c)
    PROVE  Same(now, UpdatedTables(now, c, v, i), x)
<1>0. x # c.table /\ (c.do = "rename" => x # c.to)
  BY AboutIs
<1>1. CASE c.do = "create"
  <2>1. PICK t \in Table, st \in BOOLEAN, ix \in BOOLEAN :
                t \notin DOMAIN now /\ c = Create(t, st, ix)
    BY <1>1, CreateKind
  <2>2. x # t
    BY <1>0, <2>1, ChangeFields
  <2>3. UpdatedTables(now, c, v, i) = With(now, t, NewTable(c, Def(v, i, 0)))
    BY <2>1, UpdatedCreate
  <2> QED BY <2>2, <2>3, WithSame
<1>2. CASE c.do = "drop"
  <2>1. PICK t \in Table : t \in DOMAIN now /\ c = DropTable(t)
    BY <1>2, DropKind
  <2>2. x # t
    BY <1>0, <2>1, ChangeFields
  <2>3. UpdatedTables(now, c, v, i) = Without(now, t)
    BY <2>1, UpdatedDrop
  <2>4. Same(now, Without(now, t), x)
    BY <2>2, WithoutFacts DEF Same
  <2> QED BY <2>3, <2>4
<1>3. CASE c.do = "rename"
  <2>1. PICK t \in Table, w \in Table :
                t \in DOMAIN now /\ w \notin DOMAIN now /\ t # w /\ c = RenameTable(t, w)
    BY <1>3, RenameKind
  <2>2. x # t /\ x # w
    BY <1>0, <1>3, <2>1, ChangeFields
  <2>3. UpdatedTables(now, c, v, i) = Moved(now, t, w)
    BY <2>1, UpdatedRename
  <2>4. Same(now, Moved(now, t, w), x)
    BY <2>1, <2>2, MovedFacts DEF Same
  <2> QED BY <2>3, <2>4
<1>4. CASE c.do = "alter"
  <2>1. c.table \in DOMAIN now
    BY <1>4, AlterKind DEF LegalAlteration
  <2> DEFINE w == TableAfter(now[c.table], c, v, i)[Len(c.columns)]
  <2>2. UpdatedTables(now, c, v, i) = With(now, c.table, w)
    BY <1>4, <2>1, UpdatedAlter
  <2> HIDE DEF w
  <2> QED BY <1>0, <2>2, WithSame
<1> QED BY <1>1, <1>2, <1>3, <1>4, KindIs

(* A migration step by step.                                               *)
LEMMA MigrationStep ==
    ASSUME NEW p, NEW ts, NEW m, NEW v, LegalMigration(p, ts, m, v), NEW i \in 1 .. Len(m)
    PROVE  /\ m[i] \in Change
           /\ LegalChange(p, ts, TablesAfter(ts, m, v)[i - 1], m[i], v, i)
           /\ TablesAfter(ts, m, v)[i] = UpdatedTables(TablesAfter(ts, m, v)[i - 1], m[i], v, i)
<1>1. m \in Seq(Change) /\ Len(m) \in Nat
  BY DEF LegalMigration
<1>2. m[i] \in Change
  BY <1>1
<1>3. LegalChange(p, ts, TablesAfter(ts, m, v)[i - 1], m[i], v, i)
  BY DEF LegalMigration
<1> QED BY <1>1, <1>2, <1>3, TablesAfterSteps

(* The tables before the first change, and after any.                      *)
LEMMA MigrationStart ==
    ASSUME NEW p, NEW ts, NEW m, NEW v, LegalMigration(p, ts, m, v)
    PROVE  Len(m) \in Nat \ {0} /\ TablesAfter(ts, m, v)[0] = ts
<1>1. m \in Seq(Change) /\ m # <<>>
  BY DEF LegalMigration
<1>2. Len(m) \in Nat \ {0}
  BY <1>1
<1> QED BY <1>2, TablesAfterSteps

LEMMA MigrationTyped ==
    ASSUME NEW p, NEW ts \in TablesSet, NEW m, NEW v \in Nat, LegalMigration(p, ts, m, v)
    PROVE  \A i \in 0 .. Len(m) : TablesAfter(ts, m, v)[i] \in TablesSet
<1> DEFINE n == Len(m)
           f == TablesAfter(ts, m, v)
           T == {i \in Nat : i <= n => f[i] \in TablesSet}
<1>1. n \in Nat \ {0} /\ f[0] = ts
  BY MigrationStart
<1>2. \A i \in 1 .. n : /\ LegalChange(p, ts, f[i - 1], m[i], v, i)
                        /\ f[i] = UpdatedTables(f[i - 1], m[i], v, i)
  BY MigrationStep
<1> HIDE DEF f, n
<1>4. 0 \in T
  BY <1>1
<1>5. ASSUME NEW i \in T, i \in Nat PROVE i + 1 \in T
  <2>1. SUFFICES ASSUME i + 1 <= n PROVE f[i + 1] \in TablesSet
    BY <1>5
  <2>2. i + 1 \in 1 .. n /\ (i + 1) - 1 = i /\ f[i] \in TablesSet /\ i + 1 \in Nat
    BY <1>1, <1>5, <2>1
  <2>3. LegalChange(p, ts, f[i], m[i + 1], v, i + 1) /\ f[i + 1] = UpdatedTables(f[i], m[i + 1], v, i + 1)
    BY <1>2, <2>2
  <2> QED BY <2>2, <2>3, UpdatedTyped
<1>6. Nat \subseteq T
  <2> HIDE DEF T
  <2> QED BY <1>4, <1>5, Induct
<1>7. \A i \in 0 .. n : f[i] \in TablesSet
  BY <1>1, <1>6
<1> QED BY <1>7 DEF f, n

(* A table that no change from the i-th to the k-th is about stays.        *)
LEMMA Untouched ==
    ASSUME NEW p, NEW ts \in TablesSet, NEW m, NEW v \in Nat, LegalMigration(p, ts, m, v),
           NEW i \in 1 .. Len(m), NEW k \in i .. Len(m), NEW x,
           \A l \in i .. k : x \notin About(m[l])
    PROVE  Same(TablesAfter(ts, m, v)[i - 1], TablesAfter(ts, m, v)[k], x)
<1> DEFINE n == Len(m)
           f == TablesAfter(ts, m, v)
           T == {l \in Nat : i - 1 + l <= k => Same(f[i - 1], f[i - 1 + l], x)}
<1>1. /\ n \in Nat
      /\ \A l \in 0 .. n : f[l] \in TablesSet
      /\ \A l \in 1 .. n : /\ LegalChange(p, ts, f[l - 1], m[l], v, l)
                           /\ f[l] = UpdatedTables(f[l - 1], m[l], v, l)
  <2>1. n \in Nat
    BY MigrationStart
  <2>2. \A l \in 0 .. n : f[l] \in TablesSet
    BY MigrationTyped
  <2>3. \A l \in 1 .. n : /\ LegalChange(p, ts, f[l - 1], m[l], v, l)
                          /\ f[l] = UpdatedTables(f[l - 1], m[l], v, l)
    BY MigrationStep
  <2> QED BY <2>1, <2>2, <2>3
<1> HIDE DEF f
<1>2. i \in Nat /\ k \in Nat /\ 1 <= i /\ i <= k /\ k <= n
  BY <1>1
<1> HIDE DEF n
<1>3. 0 \in T
  <2>1. i - 1 + 0 = i - 1
    BY <1>2
  <2> QED BY <2>1 DEF Same
<1>4. ASSUME NEW l \in T, l \in Nat PROVE l + 1 \in T
  <2>1. SUFFICES ASSUME i - 1 + (l + 1) <= k PROVE Same(f[i - 1], f[i - 1 + (l + 1)], x)
    BY <1>4
  <2> DEFINE q == i + l
  <2>2. /\ q \in 1 .. n /\ q \in Nat /\ q - 1 \in 0 .. n /\ q \in i .. k
        /\ i - 1 + (l + 1) = q /\ i - 1 + l = q - 1
    BY <1>2, <1>1, <1>4, <2>1
  <2>3. Same(f[i - 1], f[q - 1], x)
    BY <1>2, <1>4, <2>1, <2>2
  <2> HIDE DEF q
  <2>4. Same(f[q - 1], f[q], x)
    <3>1. /\ f[q - 1] \in TablesSet
          /\ LegalChange(p, ts, f[q - 1], m[q], v, q)
          /\ f[q] = UpdatedTables(f[q - 1], m[q], v, q)
      BY <1>1, <2>2
    <3>2. x \notin About(m[q])
      BY <2>2
    <3>3. Same(f[q - 1], UpdatedTables(f[q - 1], m[q], v, q), x)
      BY <3>1, <3>2, UpdatedSame
    <3> QED BY <3>1, <3>3
  <2> QED BY <2>2, <2>3, <2>4 DEF Same
<1>5. Nat \subseteq T
  <2> HIDE DEF T
  <2> QED BY <1>3, <1>4, Induct
<1>6. k - i + 1 \in Nat /\ i - 1 + (k - i + 1) = k
  BY <1>2
<1>7. k - i + 1 \in T
  BY <1>5, <1>6
<1>8. Same(f[i - 1], f[k], x)
  BY <1>2, <1>6, <1>7
<1> QED BY <1>8 DEF f

-----------------------------------------------------------------------------
(* The statements for one change.                                          *)

(* The tainted tables, when statement s was executed.                      *)
Cleared(taint, s) ==
    CASE s.sql = "DROP TABLE" -> taint \ {s.table}
      [] s.sql = "RENAME TABLE" /\ s.table \in taint -> (taint \ {s.table}) \cup {s.to}
      [] OTHER -> taint

(* A statement about columns clears no table.                              *)
LEMMA NotCleared ==
    ASSUME NEW taint, NEW s, s.sql \notin {"DROP TABLE", "RENAME TABLE"}
    PROVE  Cleared(taint, s) = taint
BY DEF Cleared

(* Table x is in its place after the j-th statement, executed on d.        *)
DoesAt(ts, now, c, v, i, j, d, x) ==
    LET e == Executed(d, Statements(ts, c, v, i)[j])
    IN  IF j < StatementCount(product, c) THEN AtChange(product, e, now, c, v, x, i, j + 1)
        ELSE Agree(product, e, UpdatedTables(now, c, v, i), x)

(* All but the tainted tables are in their place before the j-th statement.*)
Placed(d, now, c, v, i, j, taint) ==
    \A x \in Table \ taint : AtChange(product, d, now, c, v, x, i, j)

(* s is a statement about tables of the change c only.                     *)
IsOf(s, c) == IsStatement(s) /\ \A x : x \in Touched(s) => x \in About(c)

(* What is shown of each kind of change: its j-th statement is one of the  *)
(* server, about the tables of the change; it can be executed if none of   *)
(* them is tainted, and takes the others to the next place.                *)
Does(ts, now, c, v, i, j, d, taint) ==
    LET s == Statements(ts, c, v, i)[j]
    IN  /\ IsOf(s, c)
        /\ (\A x \in About(c) : x \notin taint) => CanExecute(d, s)
        /\ CanExecute(d, s) =>
             \A x \in Table \ Cleared(taint, s) : DoesAt(ts, now, c, v, i, j, d, x)

(* A statement of a change leaves every other table where it should be.    *)
LEMMA OthersStay ==
    ASSUME NEW ts, NEW now \in TablesSet, NEW c, NEW v, NEW i,
           LegalChange(product, ts, now, c, v, i), NEW j, NEW d \in Databases,
           IsOf(Statements(ts, c, v, i)[j], c), CanExecute(d, Statements(ts, c, v, i)[j]),
           NEW x, x \notin About(c), AtChange(product, d, now, c, v, x, i, j)
    PROVE  DoesAt(ts, now, c, v, i, j, d, x)
<1> DEFINE s == Statements(ts, c, v, i)[j]
           e == Executed(d, s)
           u == UpdatedTables(now, c, v, i)
<1>1. x # c.table
  BY AboutIs
<1>2. Agree(product, d, now, x)
  BY <1>1 DEF AtChange
<1>3. Same(now, u, x)
  BY UpdatedSame
<1>4. IsStatement(s) /\ x \notin Touched(s) /\ CanExecute(d, s)
  BY DEF IsOf
<1> HIDE DEF s
<1>5. Same(d, e, x)
  BY <1>4, ExecutedFrame DEF Same
<1> HIDE DEF e, u
<1>6. Agree(product, e, now, x) /\ Agree(product, e, u, x)
  BY <1>2, <1>3, <1>5 DEF Agree, Same
<1>7. AtChange(product, e, now, c, v, x, i, j + 1)
  BY <1>1, <1>6 DEF AtChange
<1> QED BY <1>6, <1>7 DEF DoesAt, e, s, u

(* It is enough to show where the tables of the change are.                *)
LEMMA DoesIf ==
    ASSUME NEW ts, NEW now \in TablesSet, NEW c, NEW v, NEW i,
           LegalChange(product, ts, now, c, v, i), NEW j, NEW d \in Databases, NEW taint,
           Placed(d, now, c, v, i, j, taint),
           NEW s, s = Statements(ts, c, v, i)[j], IsOf(s, c),
           (\A x \in About(c) : x \notin taint) => CanExecute(d, s),
           \A x \in Table : x \notin About(c) => (x \in Cleared(taint, s) <=> x \in taint),
           CanExecute(d, s) =>
              \A x \in About(c) : x \notin Cleared(taint, s) => DoesAt(ts, now, c, v, i, j, d, x)
    PROVE  Does(ts, now, c, v, i, j, d, taint)
<1>1. ASSUME CanExecute(d, s), NEW x \in Table, x \notin Cleared(taint, s)
      PROVE  DoesAt(ts, now, c, v, i, j, d, x)
  <2>1. CASE x \in About(c)
    BY <1>1, <2>1
  <2>2. CASE x \notin About(c)
    <3>1. x \notin taint
      BY <1>1, <2>2
    <3>2. AtChange(product, d, now, c, v, x, i, j)
      BY <3>1 DEF Placed
    <3>3. IsOf(Statements(ts, c, v, i)[j], c) /\ CanExecute(d, Statements(ts, c, v, i)[j])
      BY <1>1
    <3> QED BY <2>2, <3>2, <3>3, OthersStay
  <2> QED BY <2>1, <2>2
<1> QED BY <1>1 DEF Does

-----------------------------------------------------------------------------
(* "CREATE TABLE" and "CREATE INDEX".                                      *)
IsMade(s, t, st, d) ==
    /\ s.sql = "CREATE TABLE" /\ s.table = t /\ s.after = "migration"
    /\ s.name = First /\ s.column = Declared(d, st)

IsDepending(s, t, st, ix) ==
    /\ s.sql = "CREATE INDEX" /\ s.table = t /\ s.after \in {"none", "migration"}
    /\ s.index = IF ix THEN First ELSE NoName
    /\ s.triggers = Triggers(product, t, Stamp(First, st))

LEMMA CreateCount ==
    ASSUME NEW p, NEW t, NEW st \in BOOLEAN, NEW ix \in BOOLEAN
    PROVE  StatementCount(p, Create(t, st, ix)) = IF ix \/ (p = "POSTGRE" /\ st) THEN 2 ELSE 1
BY ChangeFields DEF StatementCount

LEMMA CreateFields ==
    ASSUME NEW t, NEW st \in BOOLEAN, NEW ix \in BOOLEAN, NEW ts, NEW v, NEW i
    PROVE  /\ IsMade(Statements(ts, Create(t, st, ix), v, i)[1], t, st, Def(v, i, 0))
           /\ StatementCount(product, Create(t, st, ix)) = 2 =>
                 IsDepending(Statements(ts, Create(t, st, ix), v, i)[2], t, st, ix)
<1> DEFINE c == Create(t, st, ix)
           d == Def(v, i, 0)
           made == [sql |-> "CREATE TABLE", table |-> t, after |-> "migration",
                    name |-> First, column |-> Declared(d, st)]
           index == IF ix THEN First ELSE NoName
           triggers == IF product = "POSTGRE" /\ st THEN {<<t, First>>} ELSE {}
           depend == [sql |-> "CREATE INDEX", table |-> t,
                      after |-> IF product = "MYSQL" THEN "none" ELSE "migration",
                      index |-> index, triggers |-> triggers]
<1>1. c.do = "create" /\ c.table = t /\ c.stamped = st /\ c.indexed = ix
  BY DEF Create
<1>2. StatementCount(product, c) = 2 => ix \/ (product = "POSTGRE" /\ st)
  BY CreateCount
<1>3. First # NoName
  BY ServerAssumption
<1> HIDE DEF c, d
<1>4. Statements(ts, c, v, i) = CreateStatements(c, d)
  BY <1>1 DEF Statements, d
<1>5. CreateStatements(c, d) = IF index = NoName /\ triggers = {} THEN <<made>> ELSE <<made, depend>>
  BY <1>1 DEF CreateStatements
<1>6. StatementCount(product, c) = 2 => ~(index = NoName /\ triggers = {})
  BY <1>2, <1>3
<1>7. IsMade(made, t, st, d)
  BY DEF IsMade
<1>8. IsDepending(depend, t, st, ix)
  BY DEF IsDepending, Triggers, Stamp
<1> HIDE DEF made, depend, index, triggers
<1>9. Statements(ts, c, v, i)[1] = made
  BY <1>4, <1>5
<1>10. StatementCount(product, c) = 2 => Statements(ts, c, v, i)[2] = depend
  BY <1>4, <1>5, <1>6
<1> QED BY <1>7, <1>8, <1>9, <1>10 DEF c, d

LEMMA BareIs ==
    ASSUME NEW p, NEW t, NEW st, NEW ix, NEW d
    PROVE  Bare(p, Create(t, st, ix), d) =
             [columns |-> Shown(p, Single(d, st)), index |-> NoName, triggers |-> {}]
BY DEF Bare, Create, Shown, Single

LEMMA NewMirror ==
    ASSUME NEW p, NEW st \in BOOLEAN, NEW ix \in BOOLEAN, NEW t, NEW d \in Defs
    PROVE  Mirror(p, t, NewTable(Create(t, st, ix), d)) =
             [columns |-> Shown(p, Single(d, st)), index |-> IF ix THEN First ELSE NoName,
              triggers |-> Triggers(p, t, Stamp(First, st))]
<1> DEFINE u == NewTable(Create(t, st, ix), d)
           index == IF ix THEN First ELSE NoName
<1>1. /\ u = [columns |-> Single(d, st), index |-> index]
      /\ \A k : k \in StampedOf(u) <=> k \in Stamp(First, st)
  BY NewTableIs
<1> HIDE DEF u, index
<1>2. u.columns = Single(d, st) /\ u.index = index
  BY <1>1
<1>3. StampedOf(u) = Stamp(First, st)
  BY <1>1
<1>4. Mirror(p, t, u) = [columns |-> Shown(p, Single(d, st)), index |-> index,
                         triggers |-> Triggers(p, t, Stamp(First, st))]
  BY <1>2, <1>3, MirrorIs
<1> QED BY <1>4 DEF u, index

(* The table is made with its column...                                    *)
LEMMA MadeDoes ==
    ASSUME NEW now, NEW t \in Table, t \notin DOMAIN now, NEW st \in BOOLEAN, NEW ix \in BOOLEAN,
           NEW d0 \in Defs, NEW d, NEW s, IsMade(s, t, st, d0)
    PROVE  /\ IsOf(s, Create(t, st, ix))
           /\ Agree(product, d, now, t) => CanExecute(d, s)
           /\ t \in DOMAIN Executed(d, s)
           /\ Executed(d, s)[t] = Bare(product, Create(t, st, ix), d0)
<1>1. /\ s.sql = "CREATE TABLE" /\ s.table = t /\ s.after = "migration"
      /\ s.name = First /\ s.column = Declared(d0, st)
  BY DEF IsMade
<1>2. Declared(d0, st) \in ColumnRecord /\ First \in Column
  BY ServerAssumption DEF Declared, ColumnRecord, Defs
<1>3. IsStatement(s)
  BY <1>1, <1>2 DEF IsStatement
<1>4. \A x : x \in Touched(s) => x = t
  BY <1>1 DEF Touched
<1>5. t \in About(Create(t, st, ix))
  BY AboutIs, ChangeFields
<1>6. IsOf(s, Create(t, st, ix))
  BY <1>3, <1>4, <1>5 DEF IsOf
<1>7. ASSUME Agree(product, d, now, t) PROVE CanExecute(d, s)
  BY <1>1, <1>7 DEF CanExecute, Agree
<1> DEFINE b == [columns |-> [n \in {s.name} |-> InServer(s.column)], index |-> NoName, triggers |-> {}]
           w == Single(d0, st)
<1>8. Executed(d, s) = With(d, t, b)
  BY <1>1 DEF Executed
<1>9. InServer(Declared(d0, st)) = OnServer(product, Declared(d0, st))
  BY <1>2, InServerTyped
<1>10. [n \in {s.name} |-> InServer(s.column)] = Shown(product, w)
  BY <1>1, <1>9 DEF Shown, Single
<1>11. b = Bare(product, Create(t, st, ix), d0)
  BY <1>10, BareIs
<1> HIDE DEF b
<1>12. t \in DOMAIN Executed(d, s) /\ Executed(d, s)[t] = b
  BY <1>8, WithFacts
<1> QED BY <1>6, <1>7, <1>11, <1>12

(* ...and gets what depends on it.                                         *)
LEMMA DependingDoes ==
    ASSUME NEW t \in Table, NEW st \in BOOLEAN, NEW ix \in BOOLEAN,
           NEW d0 \in Defs, NEW d \in Databases, NEW s, IsDepending(s, t, st, ix)
    PROVE  /\ IsOf(s, Create(t, st, ix))
           /\ t \in DOMAIN d /\ d[t] = Bare(product, Create(t, st, ix), d0) =>
                 /\ CanExecute(d, s)
                 /\ t \in DOMAIN Executed(d, s)
                 /\ Executed(d, s)[t] = Mirror(product, t, NewTable(Create(t, st, ix), d0))
<1> DEFINE index == IF ix THEN First ELSE NoName
           triggers == Triggers(product, t, Stamp(First, st))
           w == Shown(product, Single(d0, st))
<1>1. /\ s.sql = "CREATE INDEX" /\ s.table = t /\ s.after \in {"none", "migration"}
      /\ s.index = index /\ s.triggers = triggers
  BY DEF IsDepending
<1>2. First \in Column /\ triggers \in TriggerSet
  BY ServerAssumption, StampTyped
<1>3. index \in Column \cup {NoName} /\ (index # NoName => index = First)
  BY <1>2
<1>4. First \in DOMAIN w
  BY DEF Shown, Single
<1> HIDE DEF index, triggers, w
<1>5. IsStatement(s)
  BY <1>1, <1>2, <1>3 DEF IsStatement
<1>6. \A x : x \in Touched(s) => x = t
  BY <1>1 DEF Touched
<1>7. t \in About(Create(t, st, ix))
  BY AboutIs, ChangeFields
<1>8. IsOf(s, Create(t, st, ix))
  BY <1>5, <1>6, <1>7 DEF IsOf
<1>9. ASSUME t \in DOMAIN d, d[t] = Bare(product, Create(t, st, ix), d0)
      PROVE  /\ CanExecute(d, s)
             /\ t \in DOMAIN Executed(d, s)
             /\ Executed(d, s)[t] = Mirror(product, t, NewTable(Create(t, st, ix), d0))
  <2>1. d[t] = [columns |-> w, index |-> NoName, triggers |-> {}]
    BY <1>9, BareIs DEF w
  <2>2. d[t].columns = w /\ d[t].triggers = {}
    BY <2>1
  <2>3. CanExecute(d, s)
    BY <1>1, <1>3, <1>4, <1>9, <2>2 DEF CanExecute
  <2>4. d[t] \in DbTable
    BY <1>9, PartialIs DEF Databases
  <2>5. ExecutedTable(d[t], s) = [columns |-> d[t].columns, index |-> s.index,
                                  triggers |-> d[t].triggers \cup s.triggers]
    BY <1>1, <2>4, ExecutedFields
  <2>6. ExecutedTable(d[t], s) = [columns |-> w, index |-> index, triggers |-> triggers]
    BY <1>1, <2>2, <2>5
  <2>7. Mirror(product, t, NewTable(Create(t, st, ix), d0)) =
          [columns |-> w, index |-> index, triggers |-> triggers]
    BY NewMirror DEF w, index, triggers
  <2>8. Executed(d, s) = With(d, t, ExecutedTable(d[t], s))
    BY <1>1 DEF Executed
  <2>9. t \in DOMAIN Executed(d, s) /\ Executed(d, s)[t] = ExecutedTable(d[t], s)
    BY <2>8, WithFacts
  <2> QED BY <2>3, <2>6, <2>7, <2>9
<1> QED BY <1>8, <1>9

(* CREATE TABLE and the statement that may follow it do what they should.  *)
LEMMA CreateDoes ==
    ASSUME NEW ts, NEW now \in TablesSet, NEW c, c.do = "create",
           NEW v \in Nat, NEW i \in Nat, LegalChange(product, ts, now, c, v, i),
           NEW j \in 1 .. StatementCount(product, c),
           NEW d \in Databases, NEW taint, Placed(d, now, c, v, i, j, taint)
    PROVE  Does(ts, now, c, v, i, j, d, taint)
<1>1. PICK t \in Table, st \in BOOLEAN, ix \in BOOLEAN : t \notin DOMAIN now /\ c = Create(t, st, ix)
  BY CreateKind
<1> DEFINE s == Statements(ts, c, v, i)[j]
           n == StatementCount(product, c)
           e == Executed(d, s)
           u == UpdatedTables(now, c, v, i)
           d0 == Def(v, i, 0)
           new == NewTable(c, d0)
<1>2. d0 \in Defs
  BY DEF Def, Defs
<1>3. c.table = t /\ \A x : x \in About(c) <=> x = t
  BY <1>1, AboutIs, ChangeFields
<1>4. n = IF ix \/ (product = "POSTGRE" /\ st) THEN 2 ELSE 1
  BY <1>1, CreateCount
<1>5. (j = 1 /\ n \in {1, 2}) \/ (j = 2 /\ n = 2)
  BY <1>4
<1>6. t \notin taint => AtChange(product, d, now, c, v, t, i, j)
  BY DEF Placed
<1>7. u = With(now, t, new)
  BY <1>1, UpdatedCreate
<1>8. t \in DOMAIN u /\ u[t] = new
  <2> HIDE DEF new, u
  <2> QED BY <1>7, WithFacts
<1>9. \A y : AtChange(product, y, now, c, v, t, i, 2) <=> t \in DOMAIN y /\ y[t] = Bare(product, c, d0)
  <2>1. c.do = "create"
    OBVIOUS
  <2> QED BY <1>3, <2>1 DEF AtChange, Half
<1>10. CASE j = 1
  <2>1. IsMade(s, t, st, d0)
    BY <1>1, <1>10, CreateFields
  <2>2. /\ IsOf(s, c)
        /\ Agree(product, d, now, t) => CanExecute(d, s)
        /\ t \in DOMAIN e /\ e[t] = Bare(product, c, d0)
    <3> HIDE DEF s, d0
    <3> QED BY <1>1, <1>2, <2>1, MadeDoes
  <2>3. t \notin taint => Agree(product, d, now, t)
    BY <1>6, <1>10 DEF AtChange
  <2>4. Cleared(taint, s) = taint
    <3>1. s.sql = "CREATE TABLE"
      BY <2>1 DEF IsMade
    <3> HIDE DEF s
    <3> QED BY <3>1, NotCleared
  <2>5. DoesAt(ts, now, c, v, i, j, d, t)
    <3>1. CASE n = 2
      <4>1. AtChange(product, e, now, c, v, t, i, 2)
        BY <1>9, <2>2
      <4>2. j < n /\ j + 1 = 2
        BY <1>10, <3>1
      <4> HIDE DEF s, n, e
      <4>3. IF j < n THEN AtChange(product, e, now, c, v, t, i, j + 1) ELSE Agree(product, e, u, t)
        BY <4>1, <4>2
      <4> QED BY <4>3 DEF DoesAt, s, n, e
    <3>2. CASE n = 1
      <4>1. ~ix /\ ~(product = "POSTGRE" /\ st)
        BY <1>4, <3>2
      <4>2. Triggers(product, t, Stamp(First, st)) = {}
        BY <4>1 DEF Triggers, Stamp
      <4>3. Mirror(product, t, new) = Bare(product, c, d0)
        <5> HIDE DEF d0
        <5> QED BY <1>1, <1>2, <4>1, <4>2, NewMirror, BareIs
      <4> HIDE DEF e, u, new
      <4>4. Agree(product, e, u, t)
        BY <1>8, <2>2, <4>3 DEF Agree
      <4>5. ~(j < n)
        BY <1>10, <3>2
      <4> HIDE DEF n
      <4> QED BY <4>4, <4>5 DEF DoesAt, s, n, e, u
    <3> QED BY <1>5, <1>10, <3>1, <3>2
  <2> HIDE DEF e, u, n, d0, s
  <2>6. /\ s = Statements(ts, c, v, i)[j]
        /\ (\A x \in About(c) : x \notin taint) => CanExecute(d, s)
        /\ \A x \in Table : x \notin About(c) => (x \in Cleared(taint, s) <=> x \in taint)
        /\ CanExecute(d, s) =>
             \A x \in About(c) : x \notin Cleared(taint, s) => DoesAt(ts, now, c, v, i, j, d, x)
    BY <1>3, <2>2, <2>3, <2>4, <2>5 DEF s
  <2> QED BY <2>2, <2>6, DoesIf
<1>11. CASE j = 2
  <2>1. IsDepending(s, t, st, ix)
    <3>1. StatementCount(product, Create(t, st, ix)) = 2
      BY <1>1, <1>5, <1>11
    <3> QED BY <1>1, <1>11, <3>1, CreateFields
  <2>2. /\ IsOf(s, c)
        /\ t \in DOMAIN d /\ d[t] = Bare(product, c, d0) =>
             CanExecute(d, s) /\ t \in DOMAIN e /\ e[t] = Mirror(product, t, new)
    <3> HIDE DEF s, d0
    <3> QED BY <1>1, <1>2, <2>1, DependingDoes
  <2>3. t \notin taint => t \in DOMAIN d /\ d[t] = Bare(product, c, d0)
    BY <1>6, <1>9, <1>11
  <2>4. Cleared(taint, s) = taint
    <3>1. s.sql = "CREATE INDEX"
      BY <2>1 DEF IsDepending
    <3> HIDE DEF s
    <3> QED BY <3>1, NotCleared
  <2>5. t \notin taint => DoesAt(ts, now, c, v, i, j, d, t)
    <3>1. SUFFICES ASSUME t \notin taint PROVE DoesAt(ts, now, c, v, i, j, d, t)
      OBVIOUS
    <3>2. t \in DOMAIN e /\ e[t] = Mirror(product, t, new)
      BY <2>2, <2>3, <3>1
    <3>3. ~(j < n)
      BY <1>5, <1>11
    <3> HIDE DEF e, u, new, n
    <3>4. Agree(product, e, u, t)
      BY <1>8, <3>2 DEF Agree
    <3> QED BY <3>3, <3>4 DEF DoesAt, s, n, e, u
  <2> HIDE DEF e, u, n, d0, s
  <2>6. /\ s = Statements(ts, c, v, i)[j]
        /\ (\A x \in About(c) : x \notin taint) => CanExecute(d, s)
        /\ \A x \in Table : x \notin About(c) => (x \in Cleared(taint, s) <=> x \in taint)
        /\ CanExecute(d, s) =>
             \A x \in About(c) : x \notin Cleared(taint, s) => DoesAt(ts, now, c, v, i, j, d, x)
    BY <1>3, <2>2, <2>3, <2>4, <2>5 DEF s
  <2> QED BY <2>2, <2>6, DoesIf
<1> QED BY <1>5, <1>10, <1>11

-----------------------------------------------------------------------------
(* "DROP TABLE".                                                           *)
IsDropping(s, ts, t) ==
    /\ s.sql = "DROP TABLE" /\ s.table = t /\ s.after = "migration"
    /\ s.triggers = IF product = "POSTGRE" THEN {<<t, n>> : n \in StampedOf(ts[t])} ELSE {}

LEMMA DropFields ==
    ASSUME NEW t, NEW ts, NEW v, NEW i
    PROVE  /\ StatementCount(product, DropTable(t)) = 1
           /\ IsDropping(Statements(ts, DropTable(t), v, i)[1], ts, t)
<1> DEFINE c == DropTable(t)
<1>1. c.do = "drop" /\ c.table = t
  BY ChangeFields
<1> HIDE DEF c
<1>2. StatementCount(product, c) = 1
  BY <1>1 DEF StatementCount
<1>3. Statements(ts, c, v, i) = <<DropStatement(ts, c)>>
  BY <1>1 DEF Statements
<1>4. IsDropping(DropStatement(ts, c), ts, t)
  BY <1>1 DEF DropStatement, IsDropping
<1>5. Statements(ts, c, v, i)[1] = DropStatement(ts, c)
  BY <1>3
<1> QED BY <1>2, <1>4, <1>5 DEF c

LEMMA DropCleared ==
    ASSUME NEW taint, NEW s, NEW ts, NEW t, IsDropping(s, ts, t)
    PROVE  \A x : x \in Cleared(taint, s) <=> x \in taint /\ x # t
<1>1. s.sql = "DROP TABLE" /\ s.table = t
  BY DEF IsDropping
<1>2. Cleared(taint, s) = taint \ {t}
  BY <1>1 DEF Cleared
<1> QED BY <1>2

(* DROP TABLE does what it should, with its triggers.                      *)
LEMMA DropDoes ==
    ASSUME NEW ts, NEW now \in TablesSet, NEW c, c.do = "drop",
           NEW v \in Nat, NEW i \in Nat, LegalChange(product, ts, now, c, v, i),
           NEW j \in 1 .. StatementCount(product, c),
           NEW d \in Databases, NEW taint, Placed(d, now, c, v, i, j, taint)
    PROVE  Does(ts, now, c, v, i, j, d, taint)
<1>1. PICK t \in Table :
              /\ t \in DOMAIN now /\ c = DropTable(t)
              /\ product = "POSTGRE" => t \in DOMAIN ts /\ StampedOf(ts[t]) = StampedOf(now[t])
  BY DropKind
<1> DEFINE s == Statements(ts, c, v, i)[j]
           n == StatementCount(product, c)
           e == Executed(d, s)
           u == UpdatedTables(now, c, v, i)
<1>2. c.table = t /\ \A x : x \in About(c) <=> x = t
  BY <1>1, AboutIs, ChangeFields
<1>3. n = 1 /\ j = 1
  BY <1>1, DropFields
<1>4. IsDropping(s, ts, t)
  BY <1>1, <1>3, DropFields
<1>5. u = Without(now, t)
  BY <1>1, UpdatedDrop
<1> HIDE DEF s
<1>6. /\ s.sql = "DROP TABLE" /\ s.table = t /\ s.after = "migration"
  BY <1>4 DEF IsDropping
<1>7. \A z : z \in s.triggers => product = "POSTGRE" /\ \E k \in StampedOf(now[t]) : z = <<t, k>>
  <2>1. s.triggers = IF product = "POSTGRE" THEN {<<t, k>> : k \in StampedOf(ts[t])} ELSE {}
    BY <1>4 DEF IsDropping
  <2>2. CASE product = "POSTGRE"
    BY <1>1, <2>1, <2>2
  <2>3. CASE product # "POSTGRE"
    BY <2>1, <2>3
  <2> QED BY <2>2, <2>3
<1>8. IsOf(s, c)
  <2>1. IsStatement(s)
    BY <1>6 DEF IsStatement
  <2>2. \A x : x \in Touched(s) => x = t
    BY <1>6 DEF Touched
  <2> QED BY <1>2, <2>1, <2>2 DEF IsOf
<1>9. t \notin taint => CanExecute(d, s)
  <2>1. SUFFICES ASSUME t \notin taint PROVE CanExecute(d, s)
    OBVIOUS
  <2>2. Agree(product, d, now, t)
    BY <1>3, <2>1 DEF Placed, AtChange
  <2>3. t \in DOMAIN d /\ d[t] = Mirror(product, t, now[t])
    BY <1>1, <2>2 DEF Agree
  <2>4. d[t].triggers = Triggers(product, t, StampedOf(now[t]))
    BY <2>3, MirrorFields
  <2>5. \A z : z \in Triggers(product, t, StampedOf(now[t])) <=>
                 product = "POSTGRE" /\ \E k \in StampedOf(now[t]) : z = <<t, k>>
    BY TriggersIs
  <2>6. s.triggers \subseteq d[t].triggers
    BY <1>7, <2>4, <2>5
  <2> QED BY <1>6, <2>3, <2>6 DEF CanExecute
<1>10. \A x : x \in Cleared(taint, s) <=> x \in taint /\ x # t
  BY <1>4, DropCleared
<1>11. e = Without(d, t)
  BY <1>6 DEF Executed
<1>12. DoesAt(ts, now, c, v, i, j, d, t)
  <2> HIDE DEF e, u, n
  <2>1. t \notin DOMAIN e /\ t \notin DOMAIN u
    BY <1>5, <1>11, WithoutFacts
  <2>2. Agree(product, e, u, t)
    BY <2>1 DEF Agree
  <2>3. ~(j < n)
    BY <1>3
  <2> QED BY <2>2, <2>3 DEF DoesAt, s, n, e, u
<1> HIDE DEF e, u, n
<1>13. /\ s = Statements(ts, c, v, i)[j]
       /\ (\A x \in About(c) : x \notin taint) => CanExecute(d, s)
       /\ \A x \in Table : x \notin About(c) => (x \in Cleared(taint, s) <=> x \in taint)
       /\ CanExecute(d, s) =>
            \A x \in About(c) : x \notin Cleared(taint, s) => DoesAt(ts, now, c, v, i, j, d, x)
  BY <1>2, <1>9, <1>10, <1>12 DEF s
<1> QED BY <1>8, <1>13, DoesIf

-----------------------------------------------------------------------------
(* "RENAME TABLE".                                                         *)
IsRenaming(s, t, w) ==
    s.sql = "RENAME TABLE" /\ s.table = t /\ s.to = w /\ s.after = "migration"

LEMMA RenameFields ==
    ASSUME NEW t, NEW w, NEW ts, NEW v, NEW i
    PROVE  /\ StatementCount(product, RenameTable(t, w)) = 1
           /\ IsRenaming(Statements(ts, RenameTable(t, w), v, i)[1], t, w)
<1> DEFINE c == RenameTable(t, w)
<1>1. c.do = "rename" /\ c.table = t /\ c.to = w
  BY ChangeFields
<1> HIDE DEF c
<1>2. StatementCount(product, c) = 1
  BY <1>1 DEF StatementCount
<1>3. Statements(ts, c, v, i) = <<RenameStatement(c)>>
  BY <1>1 DEF Statements
<1>4. IsRenaming(RenameStatement(c), t, w)
  BY <1>1 DEF RenameStatement, IsRenaming
<1>5. Statements(ts, c, v, i)[1] = RenameStatement(c)
  BY <1>3
<1> QED BY <1>2, <1>4, <1>5 DEF c

LEMMA RenameCleared ==
    ASSUME NEW taint, NEW s, NEW t, NEW w, IsRenaming(s, t, w)
    PROVE  /\ t \in taint => \A x : x \in Cleared(taint, s) <=> (x \in taint /\ x # t) \/ x = w
           /\ t \notin taint => Cleared(taint, s) = taint
<1>1. s.sql = "RENAME TABLE" /\ s.table = t /\ s.to = w
  BY DEF IsRenaming
<1>2. t \in taint => Cleared(taint, s) = (taint \ {t}) \cup {w}
  BY <1>1 DEF Cleared
<1>3. t \notin taint => Cleared(taint, s) = taint
  BY <1>1 DEF Cleared
<1> QED BY <1>2, <1>3

(* A table without triggers is the same by another name.                   *)
LEMMA RenamedMirror ==
    ASSUME NEW p, NEW t, NEW w, NEW x, NoTriggers(p, x)
    PROVE  Mirror(p, t, x) = Mirror(p, w, x)
<1>1. /\ \A z : z \in Triggers(p, t, StampedOf(x)) <=>
                  p = "POSTGRE" /\ \E k \in StampedOf(x) : z = <<t, k>>
      /\ \A z : z \in Triggers(p, w, StampedOf(x)) <=>
                  p = "POSTGRE" /\ \E k \in StampedOf(x) : z = <<w, k>>
  BY TriggersIs
<1>2. p = "POSTGRE" => \A k : k \notin StampedOf(x)
  BY DEF NoTriggers
<1>3. Triggers(p, t, StampedOf(x)) = Triggers(p, w, StampedOf(x))
  BY <1>1, <1>2
<1> QED BY <1>3, MirrorIs

(* RENAME TABLE does what it should: no trigger keeps the old name.        *)
LEMMA RenameDoes ==
    ASSUME NEW ts, NEW now \in TablesSet, NEW c, c.do = "rename",
           NEW v \in Nat, NEW i \in Nat, LegalChange(product, ts, now, c, v, i),
           NEW j \in 1 .. StatementCount(product, c),
           NEW d \in Databases, NEW taint, Placed(d, now, c, v, i, j, taint)
    PROVE  Does(ts, now, c, v, i, j, d, taint)
<1>1. PICK t \in Table, w \in Table :
              /\ t \in DOMAIN now /\ w \notin DOMAIN now /\ t # w /\ c = RenameTable(t, w)
              /\ NoTriggers(product, now[t])
  BY RenameKind
<1> DEFINE s == Statements(ts, c, v, i)[j]
           n == StatementCount(product, c)
           e == Executed(d, s)
           u == UpdatedTables(now, c, v, i)
<1>2. c.table = t /\ c.to = w /\ \A x : x \in About(c) <=> x = t \/ x = w
  BY <1>1, AboutIs, ChangeFields
<1>3. n = 1 /\ j = 1
  BY <1>1, RenameFields
<1>4. IsRenaming(s, t, w)
  BY <1>1, <1>3, RenameFields
<1>5. u = Moved(now, t, w)
  BY <1>1, UpdatedRename
<1> HIDE DEF s
<1>6. s.sql = "RENAME TABLE" /\ s.table = t /\ s.to = w /\ s.after = "migration"
  BY <1>4 DEF IsRenaming
<1>7. IsOf(s, c)
  <2>1. IsStatement(s)
    BY <1>1, <1>6 DEF IsStatement
  <2>2. \A x : x \in Touched(s) => x = t \/ x = w
    BY <1>6 DEF Touched
  <2> QED BY <1>2, <2>1, <2>2 DEF IsOf
<1>8. \A x \in Table : x \notin taint => Agree(product, d, now, x)
  BY <1>3 DEF Placed, AtChange
<1>9. t \notin taint /\ w \notin taint => CanExecute(d, s)
  BY <1>1, <1>6, <1>8 DEF CanExecute, Agree
<1>10. /\ t \in taint => \A x : x \in Cleared(taint, s) <=> (x \in taint /\ x # t) \/ x = w
       /\ t \notin taint => Cleared(taint, s) = taint
  BY <1>4, RenameCleared
<1>11. e = Moved(d, t, w)
  BY <1>6 DEF Executed
<1>12. ~(j < n)
  BY <1>3
<1>13. CanExecute(d, s) => t \in DOMAIN d /\ w \notin DOMAIN d
  BY <1>6 DEF CanExecute
<1> HIDE DEF e, u, n
<1>14. \A x : Agree(product, e, u, x) => DoesAt(ts, now, c, v, i, j, d, x)
  BY <1>12 DEF DoesAt, s, n, e, u
<1>15. /\ \A x : x \in DOMAIN u <=> (x \in DOMAIN now /\ x # t) \/ x = w
       /\ u[w] = now[t]
  BY <1>1, <1>5, MovedFacts
<1>16. ASSUME CanExecute(d, s)
       PROVE  /\ \A x : x \in DOMAIN e <=> (x \in DOMAIN d /\ x # t) \/ x = w
              /\ e[w] = d[t]
  BY <1>1, <1>11, <1>13, <1>16, MovedFacts
<1>17. ASSUME CanExecute(d, s) PROVE Agree(product, e, u, t)
  BY <1>1, <1>15, <1>16, <1>17 DEF Agree
<1>18. ASSUME CanExecute(d, s), t \notin taint PROVE Agree(product, e, u, w)
  <2>1. d[t] = Mirror(product, t, now[t])
    BY <1>1, <1>8, <1>13, <1>18 DEF Agree
  <2>2. Mirror(product, t, now[t]) = Mirror(product, w, now[t])
    BY <1>1, RenamedMirror
  <2>3. e[w] = Mirror(product, w, u[w])
    BY <1>15, <1>16, <1>18, <2>1, <2>2
  <2>4. w \in DOMAIN e /\ w \in DOMAIN u
    BY <1>15, <1>16, <1>18
  <2> QED BY <2>3, <2>4 DEF Agree
<1>19. ASSUME CanExecute(d, s), NEW x \in About(c), x \notin Cleared(taint, s)
       PROVE  DoesAt(ts, now, c, v, i, j, d, x)
  <2>1. CASE x = t
    BY <1>14, <1>17, <1>19, <2>1
  <2>2. CASE x = w
    <3>1. t \notin taint
      BY <1>10, <1>19, <2>2
    <3> QED BY <1>14, <1>18, <1>19, <2>2, <3>1
  <2> QED BY <1>2, <1>19, <2>1, <2>2
<1>20. /\ s = Statements(ts, c, v, i)[j]
       /\ (\A x \in About(c) : x \notin taint) => CanExecute(d, s)
       /\ \A x \in Table : x \notin About(c) => (x \in Cleared(taint, s) <=> x \in taint)
       /\ CanExecute(d, s) =>
            \A x \in About(c) : x \notin Cleared(taint, s) => DoesAt(ts, now, c, v, i, j, d, x)
  BY <1>2, <1>9, <1>10, <1>19 DEF s
<1> QED BY <1>7, <1>20, DoesIf

-----------------------------------------------------------------------------
(* The statements of "ALTER TABLE", one for each column.                   *)
LEMMA AlterCount ==
    ASSUME NEW p, NEW c, c.do = "alter"
    PROVE  StatementCount(p, c) = Len(c.columns)
BY DEF StatementCount

LEMMA AlterFields ==
    ASSUME NEW ts, NEW c, c.do = "alter", NEW v, NEW i, NEW j \in DOMAIN c.columns
    PROVE  Statements(ts, c, v, i)[j] = ColumnStatement(ts, c.table, c.columns[j], Def(v, i, j))
BY DEF Statements

LEMMA AlterColumns ==
    ASSUME NEW p, NEW ts, NEW now, NEW c, NEW v, NEW i, LegalChange(p, ts, now, c, v, i),
           c.do = "alter"
    PROVE  DOMAIN c.columns = 1 .. Len(c.columns)
<1>1. c \in {Alter(t, cs) : t \in DOMAIN now, cs \in Seq(ColumnChange)}
  BY DEF LegalChange
<1>2. c.columns \in Seq(ColumnChange)
  BY <1>1 DEF Alter
<1> QED BY <1>2

(* Each statement about a column does what it should.                      *)
LEMMA AlterDoes ==
    ASSUME product \in Servers,
           NEW ts \in TablesSet, NEW now \in TablesSet, NEW c, c.do = "alter",
           NEW v \in Nat, NEW i \in Nat, LegalChange(product, ts, now, c, v, i),
           NEW j \in 1 .. StatementCount(product, c),
           NEW d \in Databases, NEW taint, Placed(d, now, c, v, i, j, taint)
    PROVE  Does(ts, now, c, v, i, j, d, taint)
<1> DEFINE t == c.table
           s == Statements(ts, c, v, i)[j]
           n == StatementCount(product, c)
           e == Executed(d, s)
           u == UpdatedTables(now, c, v, i)
           f == TableAfter(now[t], c, v, i)
           k == c.columns[j]
           d0 == Def(v, i, j)
<1>1. LegalAlteration(product, ts, now, c, v, i)
  BY AlterKind
<1>2. n = Len(c.columns) /\ DOMAIN c.columns = 1 .. n
  BY AlterCount, AlterColumns
<1>3. n \in Nat \ {0} /\ t \in DOMAIN now
  BY <1>1, <1>2 DEF LegalAlteration
<1>4. t \in Table /\ \A x : x \in About(c) <=> x = t
  BY <1>3, TablesAre, AboutIs
<1>5. j \in 1 .. n /\ j \in Nat /\ j - 1 \in 0 .. n /\ j >= 1 /\ j <= n /\ j \in Nat
  BY <1>3
<1>6. s = ColumnStatement(ts, t, k, d0)
  BY <1>2, <1>5, AlterFields
<1>7. k \in ColumnChange /\ LegalColumn(product, ts, t, f[j - 1], k)
  BY <1>1, <1>2, <1>5 DEF LegalAlteration
<1>8. d0 \in Defs
  BY <1>5 DEF Def, Defs
<1>9. f[j - 1] \in TableRecord
  BY <1>1, <1>2, <1>5, TableAfterTyped
<1>10. f[0] = now[t] /\ f[j] = UpdatedColumns(f[j - 1], k, d0)
  BY <1>2, <1>3, <1>5, TableAfterSteps
<1>11. u = With(now, t, f[n])
  BY <1>2, <1>3, UpdatedAlter
<1>12. /\ IsStatement(s) /\ s.table = t
       /\ s.sql \notin {"CREATE TABLE", "DROP TABLE", "RENAME TABLE"}
  <2>1. OfColumns(ColumnStatement(ts, t, k, d0), t)
    <3> HIDE DEF d0, k, t
    <3> QED BY <1>4, <1>7, <1>8, ColumnStatementTyped
  <2>2. OfColumns(s, t)
    BY <1>6, <2>1
  <2> HIDE DEF s
  <2> QED BY <2>2 DEF OfColumns
<1>13. \A l : l \in Nat /\ l > 1 => Half(product, now, c, v, i, l) = Mirror(product, t, f[l - 1])
  BY DEF Half
<1> HIDE DEF s, d0, k, f, n, u
<1>14. IsOf(s, c)
  <2>1. \A x : x \in Touched(s) => x = t
    BY <1>12 DEF Touched
  <2> QED BY <1>4, <1>12, <2>1 DEF IsOf
<1>15. Cleared(taint, s) = taint
  BY <1>12, NotCleared
<1>16. ASSUME t \notin taint PROVE Has(d, t, f[j - 1])
  <2>1. AtChange(product, d, now, c, v, t, i, j)
    BY <1>4, <1>16 DEF Placed
  <2>2. CASE j = 1
    <3>1. Agree(product, d, now, t)
      BY <2>1, <2>2 DEF AtChange
    <3>2. t \in DOMAIN d /\ d[t] = Mirror(product, t, f[j - 1])
      BY <1>3, <1>10, <2>2, <3>1 DEF Agree
    <3> QED BY <3>2 DEF Has
  <2>3. CASE j > 1
    <3>1. t \in DOMAIN d /\ d[t] = Half(product, now, c, v, i, j)
      BY <2>1, <2>3 DEF AtChange
    <3>2. d[t] = Mirror(product, t, f[j - 1])
      BY <1>5, <1>13, <2>3, <3>1
    <3> QED BY <3>1, <3>2 DEF Has
  <2> QED BY <1>5, <2>2, <2>3
<1>17. ASSUME t \notin taint
       PROVE  CanExecute(d, s) /\ t \in DOMAIN e /\ e[t] = Mirror(product, t, f[j])
  <2>1. Has(d, t, f[j - 1])
    BY <1>16, <1>17
  <2>2. Faithful(ts, t, f[j - 1], k, d0, d)
    <3> HIDE DEF t
    <3> QED BY <1>7, <1>8, <1>9, <2>1, LegalFaithful
  <2>3. t \in DOMAIN d
    BY <2>1 DEF Has
  <2>4. /\ CanExecute(d, s) /\ DOMAIN Executed(d, s) = DOMAIN d
        /\ Executed(d, s)[t] = Mirror(product, t, UpdatedColumns(f[j - 1], k, d0))
    BY <1>6, <2>2 DEF Faithful
  <2> QED BY <1>10, <2>3, <2>4
<1> HIDE DEF e
<1>18. ASSUME t \notin taint PROVE DoesAt(ts, now, c, v, i, j, d, t)
  <2>1. t \in DOMAIN e /\ e[t] = Mirror(product, t, f[j])
    BY <1>17, <1>18
  <2>2. CASE j < n
    <3>1. j + 1 \in Nat /\ j + 1 > 1 /\ (j + 1) - 1 = j
      BY <1>5
    <3>2. Half(product, now, c, v, i, j + 1) = Mirror(product, t, f[j])
      BY <1>13, <3>1
    <3>3. AtChange(product, e, now, c, v, t, i, j + 1)
      BY <2>1, <3>1, <3>2 DEF AtChange
    <3> QED BY <2>2, <3>3 DEF DoesAt, s, n, e
  <2>3. CASE j = n
    <3>1. t \in DOMAIN u /\ u[t] = f[n]
      BY <1>11, WithFacts
    <3>2. Agree(product, e, u, t)
      BY <2>1, <2>3, <3>1 DEF Agree
    <3>3. ~(j < n)
      BY <1>5, <2>3
    <3> QED BY <3>2, <3>3 DEF DoesAt, s, n, e, u
  <2> QED BY <1>3, <1>5, <2>2, <2>3
<1> HIDE DEF t
<1>19. /\ s = Statements(ts, c, v, i)[j]
       /\ (\A x \in About(c) : x \notin taint) => CanExecute(d, s)
       /\ \A x \in Table : x \notin About(c) => (x \in Cleared(taint, s) <=> x \in taint)
       /\ CanExecute(d, s) =>
            \A x \in About(c) : x \notin Cleared(taint, s) => DoesAt(ts, now, c, v, i, j, d, x)
  BY <1>4, <1>15, <1>17, <1>18 DEF s
<1> QED BY <1>14, <1>19, DoesIf

(* So does each statement of any legal change.                             *)
LEMMA ChangeDoes ==
    ASSUME product \in Servers,
           NEW ts \in TablesSet, NEW now \in TablesSet, NEW c,
           NEW v \in Nat, NEW i \in Nat, LegalChange(product, ts, now, c, v, i),
           NEW j \in 1 .. StatementCount(product, c),
           NEW d \in Databases, NEW taint, Placed(d, now, c, v, i, j, taint)
    PROVE  Does(ts, now, c, v, i, j, d, taint)
<1>1. CASE c.do = "create"
  BY <1>1, CreateDoes
<1>2. CASE c.do = "drop"
  BY <1>2, DropDoes
<1>3. CASE c.do = "rename"
  BY <1>3, RenameDoes
<1>4. CASE c.do = "alter"
  BY <1>4, AlterDoes
<1> QED BY <1>1, <1>2, <1>3, <1>4, KindIs

(* The statements of a change are as many as StatementCount says.          *)
LEMMA CountIs ==
    ASSUME product \in Servers, NEW c \in Change, NEW ts, NEW v, NEW i
    PROVE  Len(Statements(ts, c, v, i)) = StatementCount(product, c)
<1>1. ASSUME NEW t \in Table, NEW st \in BOOLEAN, NEW ix \in BOOLEAN, c = Create(t, st, ix)
      PROVE  Len(Statements(ts, c, v, i)) = StatementCount(product, c)
  <2>1. c.do = "create" /\ c.table = t /\ c.stamped = st /\ c.indexed = ix
    BY <1>1 DEF Create
  <2>2. Statements(ts, c, v, i) = CreateStatements(c, Def(v, i, 0))
    BY <2>1 DEF Statements
  <2>3. First # NoName
    BY ServerAssumption
  <2> QED BY <2>1, <2>2, <2>3 DEF CreateStatements, StatementCount
<1>2. ASSUME NEW t \in Table, c = DropTable(t)
      PROVE  Len(Statements(ts, c, v, i)) = StatementCount(product, c)
  BY <1>2 DEF DropTable, Statements, StatementCount
<1>3. ASSUME NEW t \in Table, NEW u \in Table, c = RenameTable(t, u)
      PROVE  Len(Statements(ts, c, v, i)) = StatementCount(product, c)
  BY <1>3 DEF RenameTable, Statements, StatementCount
<1>4. ASSUME NEW t \in Table, NEW cs \in Seq(ColumnChange), c = Alter(t, cs)
      PROVE  Len(Statements(ts, c, v, i)) = StatementCount(product, c)
  <2>1. c.do = "alter" /\ c.columns = cs
    BY <1>4 DEF Alter
  <2>2. DOMAIN cs = 1 .. Len(cs) /\ Len(cs) \in Nat
    OBVIOUS
  <2> DEFINE q == [j \in DOMAIN c.columns |-> ColumnStatement(ts, c.table, c.columns[j], Def(v, i, j))]
  <2>3. Statements(ts, c, v, i) = q
    BY <2>1 DEF Statements
  <2>4. DOMAIN q = 1 .. Len(cs)
    BY <2>1, <2>2
  <2> HIDE DEF q
  <2>5. Len(q) = Len(cs)
    BY <2>2, <2>4
  <2> QED BY <2>1, <2>3, <2>5 DEF StatementCount
<1> QED BY <1>1, <1>2, <1>3, <1>4 DEF Change

-----------------------------------------------------------------------------
(* A single statement that was executed already is refused, or changes     *)
(* nothing but what is tainted: by the kind of change.                     *)
LEMMA AddRepeated ==
    ASSUME NEW ts, NEW name, NEW t \in TableRecord, NEW d0 \in Defs,
           NEW n \in Column, n \notin DOMAIN t.columns, NEW st \in BOOLEAN,
           NEW d, Has(d, name, UpdatedColumns(t, AddColumn(n, st), d0))
    PROVE  ~CanExecute(d, ColumnStatement(ts, name, AddColumn(n, st), d0))
<1> DEFINE s == ColumnStatement(ts, name, AddColumn(n, st), d0)
           u == UpdatedColumns(t, AddColumn(n, st), d0)
<1>1. IsAdded(s, name, n, st, d0)
  BY AddedFields
<1>2. u = [columns |-> With(t.columns, n, Declared(d0, st)), index |-> t.index]
  BY ColumnAdded
<1>3. DOMAIN d[name].columns = DOMAIN u.columns
  BY HasFields
<1> HIDE DEF s, u
<1>4. u.columns = With(t.columns, n, Declared(d0, st))
  BY <1>2
<1>5. n \in DOMAIN u.columns
  BY <1>4, WithFacts
<1>6. s.sql = "ADD COLUMN" /\ s.table = name /\ s.name = n
  BY <1>1 DEF IsAdded
<1>7. ~CanExecute(d, s)
  BY <1>3, <1>5, <1>6 DEF CanExecute
<1> QED BY <1>7 DEF s

LEMMA DropRepeated ==
    ASSUME NEW ts, NEW name, NEW t \in TableRecord, NEW d0 \in Defs,
           NEW n \in DOMAIN t.columns, NEW d, Has(d, name, UpdatedColumns(t, DropColumn(n), d0))
    PROVE  ~CanExecute(d, ColumnStatement(ts, name, DropColumn(n), d0))
<1> DEFINE s == ColumnStatement(ts, name, DropColumn(n), d0)
           u == UpdatedColumns(t, DropColumn(n), d0)
<1>1. IsDropped(s, ts, name, n)
  BY DroppedFields
<1>2. u = [columns |-> Without(t.columns, n), index |-> Index(t, n, NoName)]
  BY ColumnDropped
<1>3. DOMAIN d[name].columns = DOMAIN u.columns
  BY HasFields
<1> HIDE DEF s, u
<1>4. u.columns = Without(t.columns, n)
  BY <1>2
<1>5. n \notin DOMAIN u.columns
  BY <1>4, WithoutFacts
<1>6. s.sql = "DROP COLUMN" /\ s.table = name /\ s.name = n
  BY <1>1 DEF IsDropped
<1>7. ~CanExecute(d, s)
  BY <1>3, <1>5, <1>6 DEF CanExecute
<1> QED BY <1>7 DEF s

LEMMA RenameRepeated ==
    ASSUME NEW ts, NEW name, NEW t \in TableRecord, NEW d0 \in Defs,
           NEW n \in DOMAIN t.columns, NEW m \in Column, m \notin DOMAIN t.columns,
           NEW d, Has(d, name, UpdatedColumns(t, RenameColumn(n, m), d0))
    PROVE  ~CanExecute(d, ColumnStatement(ts, name, RenameColumn(n, m), d0))
<1> DEFINE s == ColumnStatement(ts, name, RenameColumn(n, m), d0)
           u == UpdatedColumns(t, RenameColumn(n, m), d0)
<1>1. IsRenamed(s, ts, name, n, m)
  BY RenamedFields
<1>2. u = [columns |-> Moved(t.columns, n, m), index |-> Index(t, n, m)]
  BY ColumnRenamed
<1>3. DOMAIN d[name].columns = DOMAIN u.columns
  BY HasFields
<1> HIDE DEF s, u
<1>4. u.columns = Moved(t.columns, n, m) /\ m # n
  BY <1>2
<1>5. n \notin DOMAIN u.columns
  BY <1>4, MovedFacts
<1>6. s.sql = "RENAME COLUMN" /\ s.table = name /\ s.name = n
  BY <1>1 DEF IsRenamed
<1>7. ~CanExecute(d, s)
  BY <1>3, <1>5, <1>6 DEF CanExecute
<1> QED BY <1>7 DEF s

(* A function that has e at n already.                                     *)
LEMMA WithAgain ==
    ASSUME NEW f, NEW n, NEW e
    PROVE  With(With(f, n, e), n, e) = With(f, n, e)
BY DEF With

LEMMA AlterRepeated ==
    ASSUME NEW ts, NEW name, NEW t \in TableRecord, NEW d0 \in Defs,
           NEW n \in DOMAIN t.columns, NEW st \in BOOLEAN,
           NEW d, Has(d, name, UpdatedColumns(t, AlterColumn(n, st), d0)),
           CanExecute(d, ColumnStatement(ts, name, AlterColumn(n, st), d0))
    PROVE  Executed(d, ColumnStatement(ts, name, AlterColumn(n, st), d0))[name] = d[name]
<1> DEFINE s == ColumnStatement(ts, name, AlterColumn(n, st), d0)
           u == UpdatedColumns(t, AlterColumn(n, st), d0)
           x == d[name]
           y == OnServer(product, Declared(d0, st))
<1>1. IsAltered(s, ts, name, n, st, d0)
  BY AlteredFields
<1>2. u = [columns |-> With(t.columns, n, Declared(d0, st)), index |-> t.index]
  BY ColumnAltered
<1>3. x \in DbTable /\ x.columns = Shown(product, u.columns)
  BY HasFields
<1>4. CanExecute(d, s)
  OBVIOUS
<1>5. InServer(Declared(d0, st)) = y
  <2>1. Declared(d0, st) \in ColumnRecord
    BY DEF Declared, ColumnRecord, Defs
  <2> QED BY <2>1, InServerTyped
<1> HIDE DEF s, u, x, y
<1>6. /\ s.sql \in {"ALTER COLUMN", "nothing", "unknown"} /\ s.table = name
      /\ s.name = n /\ s.column = Declared(d0, st)
  BY <1>1 DEF IsAltered
<1>7. CASE s.sql = "nothing"
  <2>1. Executed(d, s) = d
    BY <1>7 DEF Executed
  <2> QED BY <2>1 DEF s
<1>8. CASE s.sql = "unknown"
  BY <1>4, <1>8 DEF CanExecute
<1>9. CASE s.sql = "ALTER COLUMN"
  <2>1. u.columns = With(t.columns, n, Declared(d0, st))
    BY <1>2
  <2>2. x.columns = With(Shown(product, t.columns), n, y)
    BY <1>3, <2>1, ShownWith DEF y
  <2>3. With(x.columns, n, y) = x.columns
    BY <2>2, WithAgain
  <2>4. ExecutedTable(x, s) = [columns |-> With(x.columns, s.name, InServer(s.column)),
                               index |-> x.index, triggers |-> x.triggers]
    BY <1>3, <1>9, ExecutedFields
  <2>5. x = [columns |-> x.columns, index |-> x.index, triggers |-> x.triggers]
    BY <1>3, DbFields
  <2>6. ExecutedTable(x, s) = x
    BY <1>5, <1>6, <2>3, <2>4, <2>5
  <2>7. Executed(d, s) = With(d, name, ExecutedTable(x, s))
    BY <1>6, <1>9 DEF Executed, x
  <2>8. Executed(d, s)[name] = ExecutedTable(x, s)
    BY <2>7, WithFacts
  <2> QED BY <2>6, <2>8 DEF s, x
<1> QED BY <1>6, <1>7, <1>8, <1>9

(* A change of a column that was made before: its statement is refused, or *)
(* changes nothing.                                                        *)
LEMMA ColumnRepeated ==
    ASSUME NEW ts, NEW name, NEW t \in TableRecord, NEW d0 \in Defs,
           NEW c, LegalColumn(product, ts, name, t, c),
           NEW d, Has(d, name, UpdatedColumns(t, c, d0)),
           CanExecute(d, ColumnStatement(ts, name, c, d0))
    PROVE  Executed(d, ColumnStatement(ts, name, c, d0))[name] = d[name]
<1>1. CASE \E n \in Column \ DOMAIN t.columns, st \in BOOLEAN : c = AddColumn(n, st)
  BY <1>1, AddRepeated
<1>2. CASE \E n \in DOMAIN t.columns, st \in BOOLEAN : c = AlterColumn(n, st)
  BY <1>2, AlterRepeated
<1>3. CASE \E n \in DOMAIN t.columns : c = DropColumn(n)
  BY <1>3, DropRepeated
<1>4. CASE \E n \in DOMAIN t.columns, m \in Column \ DOMAIN t.columns : c = RenameColumn(n, m)
  BY <1>4, RenameRepeated
<1> QED BY <1>1, <1>2, <1>3, <1>4, LegalColumnKinds

(* All but the tainted tables are what the schema says.                    *)
AllAgree(d, ts, taint) == \A x \in Table \ taint : Agree(product, d, ts, x)

(* It is enough to look at the tables that the change is about.            *)
LEMMA RepeatedIf ==
    ASSUME NEW ts, NEW c, NEW d \in Databases, NEW taint, AllAgree(d, ts, taint),
           NEW s, IsOf(s, c), CanExecute(d, s),
           \A x \in Table : x \notin About(c) => (x \in Cleared(taint, s) <=> x \in taint),
           \A x \in About(c) : x \notin Cleared(taint, s) => Agree(product, Executed(d, s), ts, x)
    PROVE  AllAgree(Executed(d, s), ts, Cleared(taint, s))
<1> DEFINE e == Executed(d, s)
<1>1. ASSUME NEW x \in Table, x \notin Cleared(taint, s) PROVE Agree(product, e, ts, x)
  <2>1. CASE x \in About(c)
    BY <1>1, <2>1
  <2>2. CASE x \notin About(c)
    <3>1. x \notin taint
      BY <1>1, <2>2
    <3>2. Agree(product, d, ts, x)
      BY <3>1 DEF AllAgree
    <3>3. IsStatement(s) /\ x \notin Touched(s)
      BY <2>2 DEF IsOf
    <3>4. Same(d, e, x)
      BY <3>3, ExecutedFrame DEF Same
    <3> HIDE DEF e
    <3> QED BY <3>2, <3>4 DEF Agree, Same
  <2> QED BY <2>1, <2>2
<1> QED BY <1>1 DEF AllAgree

(* A change of one statement that was made before: if the server executes  *)
(* it again, every table stays as it is meant.                             *)
LEMMA Repeated ==
    ASSUME product \in Servers,
           NEW ts \in TablesSet, NEW now \in TablesSet, NEW c,
           NEW v \in Nat, NEW i \in Nat, LegalChange(product, ts, now, c, v, i),
           StatementCount(product, c) = 1,
           NEW d \in Databases, NEW taint, AllAgree(d, UpdatedTables(now, c, v, i), taint),
           NEW s, s = Statements(ts, c, v, i)[1], CanExecute(d, s)
    PROVE  AllAgree(Executed(d, s), UpdatedTables(now, c, v, i), Cleared(taint, s))
<1> DEFINE e == Executed(d, s)
           u == UpdatedTables(now, c, v, i)
<1>1. IsOf(s, c)
  <2>1. 1 \in 1 .. StatementCount(product, c)
    OBVIOUS
  <2>2. Placed(d, now, c, v, i, 1, Table)
    BY DEF Placed
  <2>3. Does(ts, now, c, v, i, 1, d, Table)
    BY <2>1, <2>2, ChangeDoes
  <2> QED BY <2>3 DEF Does
<1>2. \A x \in Table : x \notin taint => Agree(product, d, u, x)
  BY DEF AllAgree
<1>3. c.table \in About(c)
  BY AboutIs
<1>4. CASE c.do = "create"
  <2>1. PICK t \in Table, st \in BOOLEAN, ix \in BOOLEAN : t \notin DOMAIN now /\ c = Create(t, st, ix)
    BY <1>4, CreateKind
  <2>2. \A x : x \in About(c) <=> x = t
    BY <2>1, AboutIs, ChangeFields
  <2>3. IsMade(s, t, st, Def(v, i, 0))
    BY <2>1, CreateFields
  <2>4. s.sql = "CREATE TABLE" /\ s.table = t
    BY <2>3 DEF IsMade
  <2>5. u = With(now, t, NewTable(c, Def(v, i, 0)))
    BY <2>1, UpdatedCreate
  <2> HIDE DEF u
  <2>6. t \in DOMAIN u
    BY <2>5, WithFacts
  <2>7. t \notin DOMAIN d
    BY <2>4 DEF CanExecute
  <2>8. t \in taint
    BY <1>2, <2>6, <2>7 DEF Agree
  <2>9. Cleared(taint, s) = taint
    BY <2>4, NotCleared
  <2> HIDE DEF e
  <2>10. /\ \A x \in Table : x \notin About(c) => (x \in Cleared(taint, s) <=> x \in taint)
         /\ \A x \in About(c) : x \notin Cleared(taint, s) => Agree(product, e, u, x)
    BY <2>2, <2>8, <2>9
  <2> QED BY <1>1, <2>10, RepeatedIf DEF e, u
<1>5. CASE c.do = "drop"
  <2>1. PICK t \in Table : t \in DOMAIN now /\ c = DropTable(t)
    BY <1>5, DropKind
  <2>2. \A x : x \in About(c) <=> x = t
    BY <2>1, AboutIs, ChangeFields
  <2>3. IsDropping(s, ts, t)
    BY <2>1, DropFields
  <2>4. s.sql = "DROP TABLE" /\ s.table = t
    BY <2>3 DEF IsDropping
  <2>5. u = Without(now, t)
    BY <2>1, UpdatedDrop
  <2>6. e = Without(d, t)
    BY <2>4 DEF Executed
  <2> HIDE DEF e, u
  <2>7. t \notin DOMAIN e /\ t \notin DOMAIN u
    BY <2>5, <2>6, WithoutFacts
  <2>8. Agree(product, e, u, t)
    BY <2>7 DEF Agree
  <2>9. \A x : x \in Cleared(taint, s) <=> x \in taint /\ x # t
    BY <2>3, DropCleared
  <2>10. /\ \A x \in Table : x \notin About(c) => (x \in Cleared(taint, s) <=> x \in taint)
         /\ \A x \in About(c) : x \notin Cleared(taint, s) => Agree(product, e, u, x)
    BY <2>2, <2>8, <2>9
  <2> QED BY <1>1, <2>10, RepeatedIf DEF e, u
<1>6. CASE c.do = "rename"
  <2>1. PICK t \in Table, w \in Table :
              /\ t \in DOMAIN now /\ w \notin DOMAIN now /\ t # w /\ c = RenameTable(t, w)
              /\ NoTriggers(product, now[t])
    BY <1>6, RenameKind
  <2>2. \A x : x \in About(c) <=> x = t \/ x = w
    BY <2>1, AboutIs, ChangeFields
  <2>3. IsRenaming(s, t, w)
    BY <2>1, RenameFields
  <2>4. s.sql = "RENAME TABLE" /\ s.table = t /\ s.to = w
    BY <2>3 DEF IsRenaming
  <2>5. u = Moved(now, t, w)
    BY <2>1, UpdatedRename
  <2>6. e = Moved(d, t, w)
    BY <2>4 DEF Executed
  <2>7. t \in DOMAIN d
    BY <2>4 DEF CanExecute
  <2> HIDE DEF e, u
  <2>8. t \notin DOMAIN e /\ t \notin DOMAIN u
    BY <2>1, <2>5, <2>6, <2>7, MovedFacts
  <2>9. Agree(product, e, u, t)
    BY <2>8 DEF Agree
  <2>10. t \in taint
    BY <1>2, <2>7, <2>8 DEF Agree
  <2>11. \A x : x \in Cleared(taint, s) <=> (x \in taint /\ x # t) \/ x = w
    BY <2>3, <2>10, RenameCleared
  <2>12. /\ \A x \in Table : x \notin About(c) => (x \in Cleared(taint, s) <=> x \in taint)
         /\ \A x \in About(c) : x \notin Cleared(taint, s) => Agree(product, e, u, x)
    BY <2>2, <2>9, <2>11
  <2> QED BY <1>1, <2>12, RepeatedIf DEF e, u
<1>7. CASE c.do = "alter"
  <2> DEFINE t == c.table
             d0 == Def(v, i, 1)
             f == TableAfter(now[t], c, v, i)
             k == c.columns[1]
  <2>1. LegalAlteration(product, ts, now, c, v, i)
    BY <1>7, AlterKind
  <2>2. Len(c.columns) = 1 /\ DOMAIN c.columns = 1 .. Len(c.columns) /\ t \in DOMAIN now
    BY <1>7, <2>1, AlterCount, AlterColumns DEF LegalAlteration
  <2>3. t \in Table /\ now[t] \in TableRecord /\ \A x : x \in About(c) <=> x = t
    BY <1>7, <2>2, TablesAre, AboutIs
  <2>4. k \in ColumnChange /\ LegalColumn(product, ts, t, f[0], k)
    <3>1. 1 \in 1 .. Len(c.columns) /\ 1 - 1 = 0
      BY <2>2
    <3>2. k \in ColumnChange /\ LegalColumn(product, ts, t, f[1 - 1], k)
      BY <2>1, <3>1 DEF LegalAlteration
    <3> HIDE DEF f, k, t
    <3> QED BY <3>1, <3>2
  <2>5. f[0] = now[t] /\ f[1] = UpdatedColumns(now[t], k, d0)
    BY <2>2, TableAfterSteps
  <2>6. d0 \in Defs
    BY DEF Def, Defs
  <2>7. u = With(now, t, f[1])
    BY <1>7, <2>2, UpdatedAlter
  <2>8. s = ColumnStatement(ts, t, k, d0)
    BY <1>7, <2>2, AlterFields
  <2> HIDE DEF f, u, k, d0
  <2>9. t \in DOMAIN u /\ u[t] = UpdatedColumns(now[t], k, d0)
    BY <2>5, <2>7, WithFacts
  <2>10. s.table = t /\ s.sql \notin {"CREATE TABLE", "DROP TABLE", "RENAME TABLE"}
    <3>1. OfColumns(ColumnStatement(ts, t, k, d0), t)
      <4> HIDE DEF t
      <4> QED BY <2>3, <2>4, <2>6, ColumnStatementTyped
    <3>2. OfColumns(s, t)
      BY <2>8, <3>1
    <3> QED BY <3>2 DEF OfColumns
  <2>11. Cleared(taint, s) = taint
    BY <2>10, NotCleared
  <2>12. ASSUME t \notin taint PROVE Agree(product, e, u, t)
    <3>1. Agree(product, d, u, t)
      BY <1>2, <2>3, <2>12
    <3>2. t \in DOMAIN d /\ d[t] = Mirror(product, t, u[t])
      BY <2>9, <3>1 DEF Agree
    <3>3. Has(d, t, UpdatedColumns(now[t], k, d0))
      BY <2>9, <3>2 DEF Has
    <3>4. LegalColumn(product, ts, t, now[t], k)
      BY <2>4, <2>5
    <3>5. CanExecute(d, ColumnStatement(ts, t, k, d0))
      BY <2>8
    <3>6. Executed(d, ColumnStatement(ts, t, k, d0))[t] = d[t]
      <4> HIDE DEF t
      <4> QED BY <2>3, <2>6, <3>3, <3>4, <3>5, ColumnRepeated
    <3>7. e[t] = d[t]
      BY <2>8, <3>6
    <3>8. t \in DOMAIN e
      <4>1. s.sql = "nothing" \/ s.sql # "nothing"
        OBVIOUS
      <4>2. e = d \/ e = With(d, t, ExecutedTable(d[t], s))
        BY <2>10 DEF Executed
      <4> HIDE DEF e, t
      <4> QED BY <3>2, <4>2, WithFacts
    <3> HIDE DEF e
    <3> QED BY <2>9, <3>2, <3>7, <3>8 DEF Agree
  <2> HIDE DEF t, e
  <2>13. /\ \A x \in Table : x \notin About(c) => (x \in Cleared(taint, s) <=> x \in taint)
         /\ \A x \in About(c) : x \notin Cleared(taint, s) => Agree(product, e, u, x)
    BY <2>3, <2>11, <2>12
  <2> QED BY <1>1, <2>13, RepeatedIf DEF e, u
<1> QED BY <1>4, <1>5, <1>6, <1>7, KindIs

-----------------------------------------------------------------------------
(* What is released keeps within the limits.                               *)

(* What ReleaseSome releases is legal: a column change...                  *)
LEMMA WithinLimits ==
    ASSUME product \in Servers, NEW ts, NEW name, NEW t \in TableRecord,
           NEW c \in ColumnChanges(t), IsWithinLimits(ts, name, t, c)
    PROVE  LegalColumn(product, ts, name, t, c) /\ c \in ColumnChange
<1>0. DOMAIN t.columns \subseteq Column
  BY TableFields
<1>1. /\ RenamesAreOfStored(ts, name, t, c) /\ AltersAreOfStored(ts, name, t, c)
      /\ DropsAreOfStored(ts, name, t, c) /\ StampsStay(ts, name, t, c)
  BY DEF IsWithinLimits
<1>2. ASSUME NEW n \in Column \ DOMAIN t.columns, NEW st \in BOOLEAN, c = AddColumn(n, st)
      PROVE  LegalColumn(product, ts, name, t, c) /\ c \in ColumnChange
  <2>1. c.do = "add"
    BY <1>2 DEF AddColumn
  <2> QED BY <1>2, <2>1 DEF LegalColumn, ColumnChange
<1>3. ASSUME NEW n \in DOMAIN t.columns, NEW st \in BOOLEAN, c = AlterColumn(n, st)
      PROVE  LegalColumn(product, ts, name, t, c) /\ c \in ColumnChange
  <2>1. c.do = "alter"
    BY <1>3 DEF AlterColumn
  <2>2. product = "POSTGRE" =>
          c.name \in DOMAIN Known(ts, name) /\ (c.stamped <=> c.name \in StampedOf(t))
    BY <1>1, <2>1 DEF AltersAreOfStored, StampsStay
  <2>3. c \in {AlterColumn(k, b) : k \in DOMAIN t.columns, b \in BOOLEAN} /\ c \in ColumnChange
    BY <1>0, <1>3 DEF ColumnChange
  <2> QED BY <2>1, <2>2, <2>3 DEF LegalColumn
<1>4. ASSUME NEW n \in DOMAIN t.columns, c = DropColumn(n)
      PROVE  LegalColumn(product, ts, name, t, c) /\ c \in ColumnChange
  <2>1. c.do = "drop"
    BY <1>4 DEF DropColumn
  <2>2. product = "POSTGRE" => name \in DOMAIN ts /\ StampedOf(ts[name]) = StampedOf(t)
    BY <1>1, <2>1 DEF DropsAreOfStored
  <2>3. c \in {DropColumn(k) : k \in DOMAIN t.columns} /\ c \in ColumnChange
    BY <1>0, <1>4 DEF ColumnChange
  <2> QED BY <2>1, <2>2, <2>3 DEF LegalColumn
<1>5. ASSUME NEW n \in DOMAIN t.columns, NEW m \in Column \ DOMAIN t.columns, c = RenameColumn(n, m)
      PROVE  LegalColumn(product, ts, name, t, c) /\ c \in ColumnChange
  <2>1. c.do = "rename"
    BY <1>5 DEF RenameColumn
  <2>2. /\ product = "MYSQL" =>
             c.name \in DOMAIN Known(ts, name) /\ Known(ts, name)[c.name] = t.columns[c.name]
        /\ product = "POSTGRE" => c.name \notin StampedOf(t)
    BY <1>1, <2>1 DEF RenamesAreOfStored, StampsStay
  <2>3. /\ c \in {RenameColumn(k, l) : k \in DOMAIN t.columns, l \in Column \ DOMAIN t.columns}
        /\ c \in ColumnChange
    BY <1>0, <1>5 DEF ColumnChange
  <2> QED BY <2>1, <2>2, <2>3 DEF LegalColumn
<1>6. \/ \E n \in Column \ DOMAIN t.columns, st \in BOOLEAN : c = AddColumn(n, st)
      \/ \E n \in DOMAIN t.columns, st \in BOOLEAN : c = AlterColumn(n, st)
      \/ \E n \in DOMAIN t.columns : c = DropColumn(n)
      \/ \E n \in DOMAIN t.columns, m \in Column \ DOMAIN t.columns : c = RenameColumn(n, m)
  BY DEF ColumnChanges
<1> QED BY <1>2, <1>3, <1>4, <1>5, <1>6

(* ...the changes of one table...                                          *)
LEMMA AlterationIsLegal ==
    ASSUME product \in Servers, NEW ts \in TablesSet, NEW now \in TablesSet,
           NEW name \in DOMAIN now, NEW v \in Nat, NEW i \in Nat,
           NEW c \in Alterations(ts, now, name, v, i)
    PROVE  c \in Change /\ LegalChange(product, ts, now, c, v, i)
<1> DEFINE t == now[name]
           first == {x \in ColumnChanges(t) : IsWithinLimits(ts, name, t, x)}
           then(x) == UpdatedColumns(t, x, Def(v, i, 1))
           f == TableAfter(t, c, v, i)
<1>1. t \in TableRecord /\ name \in Table
  BY PartialIs DEF TablesSet
<1>2. Def(v, i, 1) \in Defs
  BY DEF Def, Defs
<1>3. ASSUME NEW x \in first
      PROVE  LegalColumn(product, ts, name, t, x) /\ x \in ColumnChange /\ then(x) \in TableRecord
  <2>1. LegalColumn(product, ts, name, t, x) /\ x \in ColumnChange
    BY <1>1, <1>3, WithinLimits
  <2> QED BY <1>1, <1>2, <2>1, LegalColumnTyped
<1>4. ASSUME NEW cs \in Seq(ColumnChange), cs # <<>>, c = Alter(name, cs),
             \A j \in 1 .. Len(cs) : LegalColumn(product, ts, name, f[j - 1], cs[j])
      PROVE  c \in Change /\ LegalChange(product, ts, now, c, v, i)
  <2>1. c.do = "alter" /\ c.table = name /\ c.columns = cs
    BY <1>4 DEF Alter
  <2>2. c \in Change
    BY <1>1, <1>4 DEF Change
  <2>3. c \in {Alter(x, y) : x \in DOMAIN now, y \in Seq(ColumnChange)}
    BY <1>4
  <2> HIDE DEF f
  <2> QED BY <1>4, <2>1, <2>2, <2>3 DEF LegalChange, f
<1>5. ASSUME NEW x \in first, c = Alter(name, <<x>>)
      PROVE  c \in Change /\ LegalChange(product, ts, now, c, v, i)
  <2>1. /\ <<x>> \in Seq(ColumnChange) /\ <<x>> # <<>> /\ Len(<<x>>) = 1
        /\ <<x>>[1] = x
    BY <1>3
  <2>2. c.columns = <<x>>
    BY <1>5 DEF Alter
  <2>3. f[0] = t
    BY <2>1, <2>2, TableAfterSteps
  <2>4. \A j \in 1 .. Len(<<x>>) : LegalColumn(product, ts, name, f[j - 1], <<x>>[j])
    <3> HIDE DEF f, first, t
    <3>1. SUFFICES LegalColumn(product, ts, name, f[1 - 1], x)
      BY <2>1
    <3> QED BY <1>3, <2>3
  <2> HIDE DEF f, first, t
  <2> QED BY <1>4, <1>5, <2>1, <2>4
<1>6. ASSUME NEW x \in first, NEW y \in ColumnChanges(then(x)),
             IsWithinLimits(ts, name, then(x), y), c = Alter(name, <<x, y>>)
      PROVE  c \in Change /\ LegalChange(product, ts, now, c, v, i)
  <2>1. LegalColumn(product, ts, name, then(x), y) /\ y \in ColumnChange
    BY <1>3, <1>6, WithinLimits
  <2>2. /\ <<x, y>> \in Seq(ColumnChange) /\ <<x, y>> # <<>> /\ Len(<<x, y>>) = 2
        /\ <<x, y>>[1] = x /\ <<x, y>>[2] = y
    BY <1>3, <2>1
  <2>3. c.columns = <<x, y>>
    BY <1>6 DEF Alter
  <2>4. f[0] = t /\ f[1] = UpdatedColumns(f[1 - 1], c.columns[1], Def(v, i, 1))
    BY <2>2, <2>3, TableAfterSteps
  <2>5. f[1] = then(x)
    BY <2>2, <2>3, <2>4
  <2>6. \A j \in 1 .. Len(<<x, y>>) : LegalColumn(product, ts, name, f[j - 1], <<x, y>>[j])
    <3> HIDE DEF f, first, t, then
    <3>1. LegalColumn(product, ts, name, f[1 - 1], x)
      BY <1>3, <2>4
    <3>2. LegalColumn(product, ts, name, f[2 - 1], y)
      BY <2>1, <2>5
    <3> QED BY <2>2, <3>1, <3>2
  <2> HIDE DEF f, first, t, then
  <2> QED BY <1>4, <1>6, <2>2, <2>6
<1>7. \/ \E x \in first : c = Alter(name, <<x>>)
      \/ \E x \in first : \E y \in ColumnChanges(then(x)) :
            IsWithinLimits(ts, name, then(x), y) /\ c = Alter(name, <<x, y>>)
  BY DEF Alterations
<1> HIDE DEF first, then, t
<1> QED BY <1>5, <1>6, <1>7

(* ...and a change of the tables.                                          *)
LEMMA ReleasedIsLegal ==
    ASSUME product \in Servers, NEW ts \in TablesSet, NEW now \in TablesSet,
           NEW v \in Nat, NEW i \in Nat, NEW c \in Changes(ts, now, v, i)
    PROVE  c \in Change /\ LegalChange(product, ts, now, c, v, i)
<1>0. DOMAIN now \subseteq Table
  BY PartialIs DEF TablesSet
<1>1. ASSUME NEW t \in Table \ DOMAIN now, NEW st \in BOOLEAN, NEW ix \in BOOLEAN,
             c = Create(t, st, ix)
      PROVE  c \in Change /\ LegalChange(product, ts, now, c, v, i)
  <2>1. c.do = "create"
    BY <1>1 DEF Create
  <2> QED BY <1>1, <2>1 DEF Change, LegalChange
<1>2. ASSUME NEW t \in DOMAIN now, c = DropTable(t), TableIsWithinLimits(ts, now[c.table], c)
      PROVE  c \in Change /\ LegalChange(product, ts, now, c, v, i)
  <2>1. c.do = "drop"
    BY <1>2 DEF DropTable
  <2>2. product = "POSTGRE" =>
          c.table \in DOMAIN ts /\ StampedOf(ts[c.table]) = StampedOf(now[c.table])
    BY <1>2, <2>1 DEF TableIsWithinLimits
  <2>3. c \in {DropTable(x) : x \in DOMAIN now} /\ c \in Change
    BY <1>0, <1>2 DEF Change
  <2> QED BY <2>1, <2>2, <2>3 DEF LegalChange
<1>3. ASSUME NEW t \in DOMAIN now, NEW u \in Table \ DOMAIN now, c = RenameTable(t, u),
             TableIsWithinLimits(ts, now[c.table], c)
      PROVE  c \in Change /\ LegalChange(product, ts, now, c, v, i)
  <2>1. c.do = "rename"
    BY <1>3 DEF RenameTable
  <2>2. product = "POSTGRE" => StampedOf(now[c.table]) = {}
    BY <1>3, <2>1 DEF TableIsWithinLimits
  <2>3. c \in {RenameTable(x, y) : x \in DOMAIN now, y \in Table \ DOMAIN now} /\ c \in Change
    BY <1>0, <1>3 DEF Change
  <2> QED BY <2>1, <2>2, <2>3 DEF LegalChange
<1>4. \/ \E t \in Table \ DOMAIN now, st \in BOOLEAN, ix \in BOOLEAN : c = Create(t, st, ix)
      \/ /\ TableIsWithinLimits(ts, now[c.table], c)
         /\ \/ \E t \in DOMAIN now : c = DropTable(t)
            \/ \E t \in DOMAIN now, u \in Table \ DOMAIN now : c = RenameTable(t, u)
      \/ \E t \in DOMAIN now : c \in Alterations(ts, now, t, v, i)
  BY DEF Changes
<1> QED BY <1>1, <1>2, <1>3, <1>4, AlterationIsLegal

(* A migration of one change, and one of two.                              *)
LEMMA MigrationIsLegal ==
    ASSUME product \in Servers, NEW ts \in TablesSet, NEW v \in Nat,
           NEW c \in Changes(ts, ts, v, 1)
    PROVE  /\ LegalMigration(product, ts, <<c>>, v)
           /\ \A d \in Changes(ts, UpdatedTables(ts, c, v, 1), v, 2) :
                LegalMigration(product, ts, <<c, d>>, v)
<1>1. c \in Change /\ LegalChange(product, ts, ts, c, v, 1)
  BY ReleasedIsLegal
<1>2. UpdatedTables(ts, c, v, 1) \in TablesSet
  BY <1>1, UpdatedTyped
<1>3. LegalMigration(product, ts, <<c>>, v)
  <2> DEFINE f == TablesAfter(ts, <<c>>, v)
  <2>1. <<c>> \in Seq(Change) /\ <<c>> # <<>> /\ Len(<<c>>) = 1 /\ <<c>>[1] = c
    BY <1>1
  <2>2. f[0] = ts
    BY <2>1, TablesAfterSteps
  <2> HIDE DEF f
  <2>3. \A i \in 1 .. Len(<<c>>) : LegalChange(product, ts, f[i - 1], <<c>>[i], v, i)
    <3>1. SUFFICES LegalChange(product, ts, f[1 - 1], c, v, 1)
      BY <2>1
    <3> QED BY <1>1, <2>2
  <2> QED BY <2>1, <2>3 DEF LegalMigration, f
<1>4. ASSUME NEW d \in Changes(ts, UpdatedTables(ts, c, v, 1), v, 2)
      PROVE  LegalMigration(product, ts, <<c, d>>, v)
  <2> DEFINE m == <<c, d>>
             f == TablesAfter(ts, m, v)
  <2>1. d \in Change /\ LegalChange(product, ts, UpdatedTables(ts, c, v, 1), d, v, 2)
    BY <1>2, ReleasedIsLegal
  <2>2. m \in Seq(Change) /\ m # <<>> /\ Len(m) = 2 /\ m[1] = c /\ m[2] = d
    BY <1>1, <2>1
  <2>3. f[0] = ts /\ f[1] = UpdatedTables(f[1 - 1], m[1], v, 1)
    BY <2>2, TablesAfterSteps
  <2>4. f[1] = UpdatedTables(ts, c, v, 1)
    BY <2>2, <2>3
  <2> HIDE DEF f, m
  <2>5. \A i \in 1 .. Len(m) : LegalChange(product, ts, f[i - 1], m[i], v, i)
    <3>1. LegalChange(product, ts, f[1 - 1], m[1], v, 1)
      BY <1>1, <2>2, <2>3
    <3>2. LegalChange(product, ts, f[2 - 1], m[2], v, 2)
      BY <2>1, <2>2, <2>4
    <3> QED BY <2>2, <3>1, <3>2
  <2> QED BY <2>2, <2>5 DEF LegalMigration, f, m
<1> QED BY <1>3, <1>4

-----------------------------------------------------------------------------
(* The invariant.                                                          *)

(* What every step needs of the invariant.                                 *)
LEMMA Basics ==
    ASSUME Inv
    PROVE  /\ product \in Servers
           /\ history \in Seq(Seq(Change)) /\ latest = Len(history) /\ latest \in Nat
           /\ \A v \in 0 .. latest : ideal[v] \in TablesSet
           /\ \A v \in 1 .. latest :
                 /\ v \in Nat /\ v - 1 \in 0 .. latest
                 /\ LegalMigration(product, ideal[v - 1], history[v], v)
                 /\ ideal[v] = UpdatedTo(ideal[v - 1], history[v], v)
<1>1. product \in Servers
  BY ServerAssumption DEF Inv, TypesInv, Servers
<1>2. history \in Seq(Seq(Change)) /\ latest = Len(history) /\ latest \in Nat
  BY DEF Inv, ReleasesInv, latest
<1>3. \A v \in 0 .. latest : ideal[v] \in TablesSet
  <2>1. ideal \in [0 .. latest -> TablesSet]
    BY DEF Inv, ReleasesInv
  <2> QED BY <2>1
<1>4. \A v \in 1 .. latest : v \in Nat /\ v - 1 \in 0 .. latest
  BY <1>2
<1>5. \A v \in 1 .. latest : /\ LegalMigration(product, ideal[v - 1], history[v], v)
                            /\ ideal[v] = UpdatedTo(ideal[v - 1], history[v], v)
  BY DEF Inv, ReleasesInv
<1> QED BY <1>1, <1>2, <1>3, <1>4, <1>5

(* Every change has a statement.                                           *)
LEMMA CountPositive ==
    ASSUME NEW p, NEW ts, NEW now, NEW c, NEW v, NEW i, LegalChange(p, ts, now, c, v, i)
    PROVE  StatementCount(p, c) \in Nat \ {0}
<1>1. CASE c.do = "alter"
  <2>1. Len(c.columns) \in Nat \ {0}
    BY <1>1, AlterKind DEF LegalAlteration
  <2> QED BY <1>1, <2>1, AlterCount
<1>2. CASE c.do # "alter"
  BY <1>2 DEF StatementCount
<1> QED BY <1>1, <1>2

(* IsRepeatable, as the invariant has it.                                  *)
LEMMA RepeatableIsSingle ==
    ASSUME Inv, NEW v \in 1 .. latest, IsRepeatable(v)
    PROVE  IsSingle(product, history[v])
<1>1. LegalMigration(product, ideal[v - 1], history[v], v) /\ ideal[v - 1] \in TablesSet /\ v \in Nat
  BY Basics
<1>2. Len(history[v]) = 1 /\ Len(Statements(schema.tables, history[v][1], v, 1)) = 1
  BY DEF IsRepeatable
<1>3. history[v][1] \in Change
  <2>1. 1 \in 1 .. Len(history[v])
    BY <1>2
  <2> QED BY <1>1, <2>1, MigrationStep
<1>4. StatementCount(product, history[v][1]) = 1
  <2>1. product \in Servers
    BY Basics
  <2> QED BY <1>2, <1>3, <2>1, CountIs
<1> QED BY <1>2, <1>4 DEF IsSingle

(* A change is about tables.                                               *)
LEMMA AboutTables ==
    ASSUME NEW c \in Change
    PROVE  \A x : x \in About(c) => x \in Table
<1>1. c.table \in Table /\ (c.do = "rename" => c.to \in Table)
  BY DEF Change, Create, DropTable, RenameTable, Alter
<1> QED BY <1>1, AboutIs

(* Nothing changes in what was released.                                   *)
LEMMA ReleasesKept ==
    ASSUME Inv, UNCHANGED <<product, history, ideal>>
    PROVE  ReleasesInv' /\ latest' = latest
<1>1. latest' = latest
  BY DEF latest
<1> QED BY <1>1 DEF Inv, ReleasesInv

(* The initial states.                                                     *)
LEMMA InitInv ==
    ASSUME Init PROVE Inv
<1>1. latest = 0 /\ history \in Seq(Seq(Change))
  BY DEF Init, latest
<1>2. <<>> \in TablesSet /\ DOMAIN <<>> = {}
  BY EmptyPartial DEF TablesSet
<1>3. <<>> \in Databases
  BY EmptyPartial DEF Databases
<1>4. ideal \in [0 .. 0 -> TablesSet] /\ ideal[0] = <<>>
  BY <1>2 DEF Init
<1>5. ReleasesInv
  BY <1>1, <1>4, ServerAssumption DEF ReleasesInv
<1>6. TypesInv
  <2>1. schema \in [version : 0 .. latest, tables : TablesSet] /\ schema.tables = ideal[schema.version]
    BY <1>1, <1>2, <1>4 DEF Init, EmptySchema
  <2>2. /\ stored \in 0 .. latest /\ dbversion \in 0 .. latest /\ unstored \in 0 .. latest
        /\ change \in Nat \ {0} /\ step \in Nat \ {0} /\ faults \in 0 .. MaxFaults
    BY <1>1, ServerAssumption DEF Init
  <2>3. has_error \in BOOLEAN /\ code \in {"OK", "EXEC_ERROR"} /\ pc \in {"down", "idle", "running"}
    BY DEF Init
  <2>4. product \in Product /\ db \in Databases /\ tainted \subseteq Table
    BY <1>3 DEF Init
  <2> QED BY <2>1, <2>2, <2>3, <2>4 DEF TypesInv
<1>7. RestInv
  <2>1. \A x \in Table : Agree(product, db, ideal[0], x)
    BY <1>2, <1>4 DEF Agree, Init
  <2> QED BY <2>1 DEF Init, RestInv, Base
<1>8. RunningInv /\ CalmInv
  BY DEF Init, RunningInv, CalmInv
<1> QED BY <1>5, <1>6, <1>7, <1>8 DEF Inv

(* A release adds a version and changes none before.                       *)
LEMMA ReleaseStep ==
    ASSUME Inv, pc = "down", latest < MaxVersion,
           NEW m, LegalMigration(product, ideal[latest], m, latest + 1), Release(m)
    PROVE  Inv'
<1> DEFINE w == latest + 1
           next == UpdatedTo(ideal[latest], m, w)
<1>1. /\ history' = Append(history, m) /\ ideal' = With(ideal, w, next)
      /\ UNCHANGED <<product, stored, db, dbversion, schema, pc, change, step, has_error, code,
                     tainted, unstored, faults>>
  BY DEF Release, server, memory, running, ghosts
<1>2. latest \in Nat /\ history \in Seq(Seq(Change)) /\ m \in Seq(Change) /\ latest = Len(history)
  BY Basics DEF LegalMigration
<1>3. /\ history' \in Seq(Seq(Change)) /\ Len(history') = w
      /\ history'[w] = m
      /\ \A v \in 1 .. latest : history'[v] = history[v]
  BY <1>1, <1>2
<1>4. latest' = w
  BY <1>3 DEF latest
<1>5. ideal \in [0 .. latest -> TablesSet] /\ ideal[0] = <<>>
  BY DEF Inv, ReleasesInv
<1>6. next \in TablesSet
  <2> DEFINE f == TablesAfter(ideal[latest], m, w)
  <2>1. ideal[latest] \in TablesSet /\ w \in Nat
    BY <1>2, Basics
  <2>2. Len(m) \in 0 .. Len(m)
    BY <1>2
  <2>3. \A i \in 0 .. Len(m) : f[i] \in TablesSet
    <3>1. LegalMigration(product, ideal[latest], m, w)
      OBVIOUS
    <3> HIDE DEF w
    <3> QED BY <2>1, <3>1, MigrationTyped
  <2>4. f[Len(m)] \in TablesSet
    <3> HIDE DEF f
    <3> QED BY <2>2, <2>3
  <2> QED BY <2>4 DEF UpdatedTo
<1>7. \A v : v \in 0 .. w <=> v \in 0 .. latest \/ v = w
  <2>1. w \in Nat /\ w = latest + 1
    BY <1>2
  <2> HIDE DEF w
  <2>2. \A v : v \in 0 .. w => v \in 0 .. latest \/ v = w
    BY <1>2, <2>1
  <2>3. \A v : v \in 0 .. latest => v \in 0 .. w
    BY <1>2, <2>1
  <2>4. w \in 0 .. w
    BY <2>1
  <2> QED BY <2>2, <2>3, <2>4
<1> HIDE DEF next
<1>8. /\ ideal' \in [0 .. w -> TablesSet]
      /\ ideal'[w] = next
      /\ \A v \in 0 .. latest : ideal'[v] = ideal[v]
  <2>1. w \notin 0 .. latest
    BY <1>2
  <2>2. DOMAIN ideal = 0 .. latest /\ \A v \in 0 .. latest : ideal[v] \in TablesSet
    BY <1>5
  <2>3. ideal' = [x \in DOMAIN ideal \cup {w} |-> IF x = w THEN next ELSE ideal[x]]
    BY <1>1 DEF With
  <2>4. DOMAIN ideal \cup {w} = 0 .. w
    <3>1. \A x : x \in DOMAIN ideal \cup {w} <=> x \in 0 .. latest \/ x = w
      BY <2>2
    <3> HIDE DEF w
    <3> QED BY <1>7, <3>1
  <2>5. ideal' = [x \in 0 .. w |-> IF x = w THEN next ELSE ideal[x]]
    BY <2>3, <2>4
  <2> HIDE DEF w
  <2>6. \A x \in 0 .. w : ideal'[x] \in TablesSet
    BY <1>6, <1>7, <2>2, <2>5
  <2> QED BY <1>7, <2>1, <2>5, <2>6
<1>9. ReleasesInv'
  <2>1. w <= MaxVersion
    BY <1>2, ServerAssumption
  <2>2. ASSUME NEW v \in 1 .. w
        PROVE  /\ LegalMigration(product', ideal'[v - 1], history'[v], v)
               /\ ideal'[v] = UpdatedTo(ideal'[v - 1], history'[v], v)
    <3>1. CASE v = w
      <4>1. v - 1 = latest /\ latest \in 0 .. latest
        BY <1>2, <3>1
      <4>2. ideal'[v - 1] = ideal[latest] /\ history'[v] = m
        BY <1>3, <1>8, <3>1, <4>1
      <4> QED BY <1>1, <1>8, <3>1, <4>2 DEF next
    <3>2. CASE v \in 1 .. latest
      <4>1. v - 1 \in 0 .. latest /\ v \in 0 .. latest
        BY <1>2, <3>2
      <4> QED BY <1>1, <1>3, <1>8, <3>2, <4>1, Basics
    <3> QED BY <1>2, <3>1, <3>2
  <2>3. ideal'[0] = <<>>
    BY <1>2, <1>5, <1>8
  <2> QED BY <1>3, <1>4, <1>8, <2>1, <2>2, <2>3 DEF ReleasesInv
<1>10. /\ stored \in 0 .. latest /\ dbversion \in 0 .. latest /\ unstored \in 0 .. latest
       /\ schema.version \in 0 .. latest /\ 0 .. latest \subseteq 0 .. w
  BY <1>2 DEF Inv, TypesInv
<1>11. TypesInv'
  <2>1. schema \in [version : 0 .. w, tables : TablesSet]
    BY <1>10 DEF Inv, TypesInv
  <2>2. schema.tables = ideal'[schema.version]
    BY <1>8, <1>10 DEF Inv, TypesInv
  <2> QED BY <1>1, <1>4, <1>10, <2>1, <2>2 DEF Inv, TypesInv
<1>12. RestInv'
  <2>1. Base' = Base /\ Base \in 0 .. latest
    BY <1>1, <1>10 DEF Base
  <2>2. unstored # 0 => history'[unstored] = history[unstored]
    BY <1>3, <1>10
  <2>3. ideal'[Base] = ideal[Base]
    BY <1>8, <2>1
  <2> QED BY <1>1, <2>1, <2>2, <2>3 DEF Inv, RestInv
<1>13. RunningInv' /\ CalmInv'
  BY <1>1 DEF RunningInv, CalmInv, Inv
<1> QED BY <1>9, <1>11, <1>12, <1>13 DEF Inv

LEMMA ReleaseSomeInv ==
    ASSUME Inv, ReleaseSome PROVE Inv'
<1> DEFINE ts == ideal[latest]
           v == latest + 1
<1>1. ts \in TablesSet /\ v \in Nat /\ product \in Servers
  BY Basics
<1>2. PICK c \in Changes(ts, ts, v, 1) :
        \/ Release(<<c>>)
        \/ \E d \in Changes(ts, UpdatedTables(ts, c, v, 1), v, 2) : Release(<<c, d>>)
  BY DEF ReleaseSome
<1>3. pc = "down" /\ latest < MaxVersion
  BY DEF ReleaseSome
<1>4. /\ LegalMigration(product, ts, <<c>>, v)
      /\ \A d \in Changes(ts, UpdatedTables(ts, c, v, 1), v, 2) :
            LegalMigration(product, ts, <<c, d>>, v)
  BY <1>1, MigrationIsLegal
<1> QED BY <1>2, <1>3, <1>4, ReleaseStep

(* Starting a program, including a migration and ending.                   *)
LEMMA OpenInv ==
    ASSUME Inv, Open PROVE Inv'
<1>1. /\ pc = "down" /\ pc' = "idle" /\ dbversion' = stored /\ schema' = EmptySchema
      /\ UNCHANGED <<product, history, ideal, stored, db, change, step, has_error, code,
                     tainted, unstored, faults>>
  BY DEF Open, release, server, running, ghosts
<1>2. ReleasesInv' /\ latest' = latest /\ latest \in Nat
  BY <1>1, ReleasesKept, Basics
<1>3. ideal[0] = <<>> /\ <<>> \in TablesSet
  BY EmptyPartial DEF TablesSet, Inv, ReleasesInv
<1>4. TypesInv'
  <2>1. schema' \in [version : 0 .. latest, tables : TablesSet] /\ schema'.tables = ideal'[schema'.version]
    BY <1>1, <1>2, <1>3 DEF EmptySchema
  <2> QED BY <1>1, <1>2, <2>1 DEF Inv, TypesInv
<1>5. RestInv'
  <2>1. Base' = Base /\ \A x \in Table \ tainted : Agree(product, db, ideal[Base], x)
    BY <1>1 DEF Base, Inv, RestInv
  <2>2. schema'.version <= dbversion'
    BY <1>1, <1>2 DEF EmptySchema, Inv, TypesInv
  <2> QED BY <1>1, <2>1, <2>2 DEF Inv, RestInv
<1>6. RunningInv' /\ CalmInv'
  BY <1>1 DEF RunningInv, CalmInv, Inv
<1> QED BY <1>2, <1>4, <1>5, <1>6 DEF Inv

(* The schema in memory after its next migration is what was meant.        *)
LEMMA UpdatedIs ==
    ASSUME Inv, schema.version + 1 <= latest
    PROVE  LET v == schema.version + 1
           IN  /\ v \in 1 .. latest
               /\ Updated(schema, v) = [version |-> v, tables |-> ideal[v]]
               /\ Updated(schema, v) \in [version : 0 .. latest, tables : TablesSet]
<1> DEFINE v == schema.version + 1
<1>1. v \in 1 .. latest /\ v - 1 = schema.version /\ latest \in Nat
  <2>1. schema \in [version : 0 .. latest, tables : TablesSet]
    BY DEF Inv, TypesInv
  <2>2. schema.version \in 0 .. latest /\ latest \in Nat
    BY <2>1, Basics
  <2> QED BY <2>2
<1>2. schema.tables = ideal[v - 1]
  BY <1>1 DEF Inv, TypesInv
<1>3. ideal[v] = UpdatedTo(schema.tables, history[v], v) /\ ideal[v] \in TablesSet
  BY <1>1, <1>2, Basics
<1>4. Updated(schema, v) = [version |-> v, tables |-> ideal[v]]
  BY <1>3 DEF Updated
<1> HIDE DEF v
<1>5. v \in 0 .. latest
  BY <1>1
<1>6. Updated(schema, v) \in [version : 0 .. latest, tables : TablesSet]
  BY <1>3, <1>4, <1>5
<1> QED BY <1>1, <1>4, <1>6 DEF v

LEMMA IncludeInv ==
    ASSUME Inv, Include PROVE Inv'
<1> DEFINE v == schema.version + 1
<1>1. /\ pc = "idle" /\ v <= latest /\ dbversion >= v
      /\ schema' = Updated(schema, v) /\ code' = "OK"
      /\ UNCHANGED <<product, history, ideal, stored, db, dbversion, pc, change, step, has_error,
                     tainted, unstored, faults>>
  BY DEF Include, release, server, ghosts
<1>2. ReleasesInv' /\ latest' = latest /\ latest \in Nat
  BY <1>1, ReleasesKept, Basics
<1>3. /\ v \in 1 .. latest
      /\ schema' = [version |-> v, tables |-> ideal[v]]
      /\ schema' \in [version : 0 .. latest, tables : TablesSet]
  BY <1>1, UpdatedIs
<1> HIDE DEF v
<1>4. TypesInv'
  <2>1. schema'.tables = ideal'[schema'.version]
    BY <1>1, <1>3
  <2> QED BY <1>1, <1>2, <1>3, <2>1 DEF Inv, TypesInv
<1>5. RestInv'
  <2>1. Base' = Base /\ schema'.version <= dbversion'
    BY <1>1, <1>3 DEF Base, Inv, TypesInv
  <2> QED BY <1>1, <2>1 DEF Inv, RestInv
<1>6. RunningInv' /\ CalmInv'
  BY <1>1 DEF RunningInv, CalmInv, Inv
<1> QED BY <1>2, <1>4, <1>5, <1>6 DEF Inv

LEMMA CloseInv ==
    ASSUME Inv, Close PROVE Inv'
<1>1. /\ pc = "idle" /\ pc' = "down"
      /\ UNCHANGED <<product, history, ideal, stored, db, dbversion, schema, change, step,
                     has_error, code, tainted, unstored, faults>>
  BY DEF Close, release, server, memory, running, ghosts
<1>2. ReleasesInv' /\ latest' = latest
  BY <1>1, ReleasesKept
<1>3. TypesInv'
  BY <1>1, <1>2 DEF Inv, TypesInv
<1>4. Base' = Base
  BY <1>1 DEF Base
<1>5. RestInv' /\ RunningInv' /\ CalmInv'
  BY <1>1, <1>4 DEF Inv, RestInv, RunningInv, CalmInv
<1> QED BY <1>2, <1>3, <1>5 DEF Inv

(* The first statement of a migration is next: the database is what the    *)
(* version before means, or what this one means if it was executed.        *)
LEMMA BeginInv ==
    ASSUME Inv, Begin PROVE Inv'
<1> DEFINE v == schema.version + 1
           m == history[v]
<1>1. /\ pc = "idle" /\ v <= latest /\ dbversion < v
      /\ pc' = "running" /\ change' = 1 /\ step' = 1 /\ has_error' = FALSE
      /\ UNCHANGED <<product, history, ideal, stored, db, dbversion, schema, code,
                     tainted, unstored, faults>>
  BY DEF Begin, release, server, memory, ghosts
<1>2. ReleasesInv' /\ latest' = latest /\ latest \in Nat
  BY <1>1, ReleasesKept, Basics
<1>3. TypesInv'
  <2>1. change' \in Nat \ {0} /\ step' \in Nat \ {0} /\ pc' \in {"down", "idle", "running"}
    BY <1>1
  <2>2. has_error' \in BOOLEAN
    BY <1>1
  <2> HIDE DEF v
  <2> QED BY <1>1, <1>2, <2>1, <2>2 DEF Inv, TypesInv
<1>4. /\ schema.version \in 0 .. latest /\ stored \in 0 .. latest /\ dbversion \in 0 .. latest
      /\ unstored \in 0 .. latest
  BY DEF Inv, TypesInv
<1>5. v \in 1 .. latest /\ v - 1 = schema.version
  BY <1>1, <1>2, <1>4
<1>6. dbversion = schema.version
  BY <1>1, <1>4 DEF Inv, RestInv
<1>7. Base' = Base
  BY <1>1 DEF Base
<1>8. RestInv' /\ CalmInv'
  BY <1>1, <1>7 DEF Inv, RestInv, CalmInv
<1>9. dbversion \in {stored, Base} /\ unstored \in {0, stored + 1}
  BY <1>1 DEF Inv, RestInv
<1>10. \/ dbversion = stored /\ unstored \in {0, v}
       \/ dbversion = stored + 1 /\ unstored = dbversion
  BY <1>4, <1>6, <1>9 DEF Base
<1>11. /\ LegalMigration(product, ideal[v - 1], m, v) /\ ideal[v - 1] \in TablesSet /\ v \in Nat
  BY <1>5, Basics
<1>12. /\ Len(m) \in Nat \ {0} /\ TablesAfter(ideal[v - 1], m, v)[0] = ideal[v - 1]
       /\ LegalChange(product, ideal[v - 1], ideal[v - 1], m[1], v, 1) /\ m[1] \in Change
  <2> HIDE DEF m, v
  <2>1. Len(m) \in Nat \ {0} /\ TablesAfter(ideal[v - 1], m, v)[0] = ideal[v - 1]
    BY <1>11, MigrationStart
  <2>2. 1 \in 1 .. Len(m) /\ 1 - 1 = 0
    BY <2>1
  <2>3. /\ m[1] \in Change
        /\ LegalChange(product, ideal[v - 1], TablesAfter(ideal[v - 1], m, v)[1 - 1], m[1], v, 1)
    BY <1>11, <2>2, MigrationStep
  <2> QED BY <2>1, <2>2, <2>3
<1>13. StatementCount(product, m[1]) \in Nat \ {0}
  BY <1>11, <1>12, CountPositive
<1>14. ASSUME NEW x \in Table \ tainted
       PROVE  IF unstored = v THEN Agree(product, db, ideal[v], x)
              ELSE AgreeAt(product, db, ideal[v - 1], m, v, x, 1, 1)
  <2>1. Agree(product, db, ideal[Base], x)
    BY <1>1 DEF Inv, RestInv
  <2>2. CASE unstored = v
    BY <1>5, <2>1, <2>2 DEF Base
  <2>3. CASE unstored # v
    <3>1. Base = v - 1
      <4>1. v - 1 = schema.version
        BY <1>5
      <4> HIDE DEF m, v
      <4>2. CASE dbversion = stored /\ unstored = 0
        BY <1>6, <4>1, <4>2 DEF Base
      <4>3. CASE dbversion = stored + 1 /\ unstored = dbversion
        <5>1. unstored # 0
          BY <1>4, <4>3
        <5> QED BY <1>6, <4>1, <4>3, <5>1 DEF Base
      <4> QED BY <1>10, <2>3, <4>2, <4>3
    <3>2. AgreeAt(product, db, ideal[v - 1], m, v, x, 1, 1)
      <4> HIDE DEF m, v
      <4>1. 1 - 1 = 0 /\ ~(1 > 1)
        OBVIOUS
      <4>2. TablesAfter(ideal[v - 1], m, v)[1 - 1] = ideal[v - 1]
        BY <1>12, <4>1
      <4> QED BY <2>1, <3>1, <4>1, <4>2 DEF AgreeAt, AtChange
    <3> QED BY <2>3, <3>2
  <2> QED BY <2>2, <2>3
<1>15. RunningInv'
  <2>1. 1 <= Len(m) /\ 1 <= StatementCount(product, m[1])
    BY <1>12, <1>13
  <2> HIDE DEF m
  <2>2. RunningInv' = LET w == v IN
          /\ w <= latest
          /\ dbversion = schema.version
          /\ \/ dbversion = stored /\ unstored \in {0, w}
             \/ dbversion = stored + 1 /\ unstored = dbversion
          /\ IF 1 <= Len(m) THEN 1 <= StatementCount(product, m[1]) /\ ~FALSE
             ELSE 1 = Len(m) + 1 /\ 1 = 1
          /\ \A x \in Table \ tainted :
                IF unstored = w THEN Agree(product, db, ideal[w], x)
                ELSE AgreeAt(product, db, ideal[w - 1], m, w, x, 1, 1)
    BY <1>1, <1>2 DEF RunningInv, m
  <2> QED BY <2>1, <2>2, <1>1, <1>6, <1>10, <1>14
<1> QED BY <1>2, <1>3, <1>8, <1>15 DEF Inv

(* What is known of a migration that runs, and of its next statement.      *)
LEMMA RunningFacts ==
    ASSUME Inv, pc = "running"
    PROVE  LET v == schema.version + 1
               ts == ideal[v - 1]
               m == history[v]
           IN  /\ v \in 1 .. latest /\ v - 1 = schema.version /\ v \in Nat
               /\ ts \in TablesSet /\ schema.tables = ts /\ Migration = m
               /\ LegalMigration(product, ts, m, v)
               /\ ideal[v] = TablesAfter(ts, m, v)[Len(m)]
               /\ Len(m) \in Nat \ {0}
<1> DEFINE v == schema.version + 1
           m == history[v]
<1>1. v \in 1 .. latest /\ v - 1 = schema.version
  BY Basics DEF Inv, RunningInv, TypesInv
<1>2. /\ LegalMigration(product, ideal[v - 1], m, v) /\ ideal[v - 1] \in TablesSet /\ v \in Nat
      /\ ideal[v] = UpdatedTo(ideal[v - 1], m, v)
  BY <1>1, Basics
<1>3. Len(m) \in Nat \ {0}
  BY <1>2, MigrationStart
<1> QED BY <1>1, <1>2, <1>3 DEF Migration, UpdatedTo, Inv, TypesInv

(* The statement whose turn it is.                                         *)
LEMMA NextStatement ==
    ASSUME Inv, pc = "running", ~IsThrough
    PROVE  LET v == schema.version + 1
               ts == ideal[v - 1]
               m == history[v]
               now == TablesAfter(ts, m, v)[change - 1]
               c == m[change]
               s == Ongoing[step]
           IN  /\ change \in 1 .. Len(m) /\ c \in Change /\ now \in TablesSet
               /\ LegalChange(product, ts, now, c, v, change)
               /\ TablesAfter(ts, m, v)[change] = UpdatedTables(now, c, v, change)
               /\ step \in 1 .. StatementCount(product, c)
               /\ Len(Ongoing) = StatementCount(product, c)
               /\ s = Statements(ts, c, v, change)[step]
               /\ IsOf(s, c)
               /\ ~has_error
<1> DEFINE v == schema.version + 1
           ts == ideal[v - 1]
           m == history[v]
           now == TablesAfter(ts, m, v)[change - 1]
           c == m[change]
           s == Ongoing[step]
<1>1. /\ v \in Nat /\ ts \in TablesSet /\ schema.tables = ts /\ Migration = m
      /\ LegalMigration(product, ts, m, v) /\ Len(m) \in Nat \ {0} /\ product \in Servers
  BY RunningFacts, Basics
<1>2. change \in Nat \ {0} /\ step \in Nat \ {0} /\ ~(change > Len(m))
  BY <1>1 DEF Inv, TypesInv, IsThrough
<1>3. step <= StatementCount(product, c) /\ ~has_error
  BY <1>1, <1>2 DEF Inv, RunningInv
<1>4. Ongoing = Statements(ts, c, v, change)
  BY <1>1 DEF Ongoing
<1> HIDE DEF v, m, ts
<1>5. change \in 1 .. Len(m) /\ change - 1 \in 0 .. Len(m)
  BY <1>1, <1>2
<1>6. /\ c \in Change /\ now \in TablesSet /\ LegalChange(product, ts, now, c, v, change)
      /\ TablesAfter(ts, m, v)[change] = UpdatedTables(now, c, v, change)
  <2>1. now \in TablesSet
    BY <1>1, <1>5, MigrationTyped
  <2> QED BY <1>1, <1>5, <2>1, MigrationStep
<1> HIDE DEF now, c
<1>7. StatementCount(product, c) \in Nat \ {0} /\ change \in Nat
  BY <1>2, <1>6, CountPositive
<1>8. step \in 1 .. StatementCount(product, c)
  BY <1>2, <1>3, <1>7
<1>9. Len(Ongoing) = StatementCount(product, c)
  BY <1>1, <1>4, <1>6, CountIs
<1>10. Does(ts, now, c, v, change, step, db, Table)
  <2>1. db \in Databases
    BY DEF Inv, TypesInv
  <2>2. Placed(db, now, c, v, change, step, Table)
    BY DEF Placed
  <2> QED BY <1>1, <1>6, <1>7, <1>8, <2>1, <2>2, ChangeDoes
<1>11. IsOf(s, c)
  BY <1>4, <1>10 DEF Does
<1> QED BY <1>3, <1>4, <1>5, <1>6, <1>8, <1>9, <1>11 DEF v, m, ts, now, c

(* Clearing a table leaves a set of tables.                                *)
LEMMA ClearedTables ==
    ASSUME NEW taint \in SUBSET Table, NEW s, IsStatement(s)
    PROVE  Cleared(taint, s) \in SUBSET Table /\ (taint = {} => Cleared(taint, s) = {})
<1>1. s.sql = "RENAME TABLE" => s.to \in Table
  BY DEF IsStatement
<1> QED BY <1>1 DEF Cleared

(* The place after a statement, and what the tables are there.             *)
LEMMA Advanced ==
    ASSUME Inv, pc = "running", ~IsThrough, Advance
    PROVE  LET m == history[schema.version + 1]
           IN  /\ change' \in Nat \ {0} /\ step' \in Nat \ {0}
               /\ IF change' <= Len(m) THEN step' <= StatementCount(product, m[change'])
                  ELSE change' = Len(m) + 1 /\ step' = 1
               /\ \/ /\ step < StatementCount(product, m[change])
                     /\ change' = change /\ step' = step + 1
                  \/ /\ step = StatementCount(product, m[change])
                     /\ change' = change + 1 /\ step' = 1
<1> DEFINE v == schema.version + 1
           m == history[v]
           n == StatementCount(product, m[change])
<1>1. change \in 1 .. Len(m) /\ Len(Ongoing) = n /\ step \in 1 .. n /\ m[change] \in Change
  BY NextStatement
<1>2. Len(m) \in Nat \ {0} /\ LegalMigration(product, ideal[v - 1], m, v)
      /\ ideal[v - 1] \in TablesSet /\ v \in Nat
  BY RunningFacts
<1> HIDE DEF m, v
<1>3. \A i \in 1 .. Len(m) : StatementCount(product, m[i]) \in Nat \ {0}
  <2> SUFFICES ASSUME NEW i \in 1 .. Len(m) PROVE StatementCount(product, m[i]) \in Nat \ {0}
    OBVIOUS
  <2>1. /\ m[i] \in Change
        /\ LegalChange(product, ideal[v - 1], TablesAfter(ideal[v - 1], m, v)[i - 1], m[i], v, i)
    BY <1>2, MigrationStep
  <2> QED BY <2>1, CountPositive
<1>4. n \in Nat \ {0}
  BY <1>1, <1>3
<1> HIDE DEF n
<1>5. CASE step < n
  <2>1. change' = change /\ step' = step + 1
    BY <1>1, <1>5 DEF Advance
  <2> QED BY <1>1, <1>2, <1>4, <1>5, <2>1 DEF n, m, v
<1>6. CASE ~(step < n)
  <2>1. change' = change + 1 /\ step' = 1 /\ step = n
    BY <1>1, <1>4, <1>6 DEF Advance
  <2>2. change' <= Len(m) => 1 <= StatementCount(product, m[change'])
    BY <1>1, <1>2, <1>3, <2>1
  <2>3. ~(change' <= Len(m)) => change' = Len(m) + 1
    BY <1>1, <1>2, <2>1
  <2> QED BY <1>1, <1>2, <2>1, <2>2, <2>3 DEF n, m, v
<1> QED BY <1>5, <1>6

(* A statement that is executed takes every untainted table to its next    *)
(* place, or leaves it if the migration was executed before.               *)
LEMMA SucceedTables ==
    ASSUME Inv, Succeed
    PROVE  LET v == schema.version + 1
               m == history[v]
           IN  \A x \in Table \ tainted' :
                  IF unstored = v THEN Agree(product, db', ideal[v], x)
                  ELSE AgreeAt(product, db', ideal[v - 1], m, v, x, change', step')
<1> DEFINE v == schema.version + 1
           ts == ideal[v - 1]
           m == history[v]
           now == TablesAfter(ts, m, v)[change - 1]
           c == m[change]
           n == StatementCount(product, c)
           s == Statements(ts, c, v, change)[step]
           e == Executed(db, s)
<1>1. pc = "running" /\ ~IsThrough /\ Advance
  BY DEF Succeed
<1>2. /\ v \in 1 .. latest /\ v \in Nat /\ ts \in TablesSet /\ product \in Servers
      /\ Len(m) \in Nat \ {0} /\ ideal[v] = TablesAfter(ts, m, v)[Len(m)]
  BY <1>1, RunningFacts, Basics
<1>3. /\ change \in 1 .. Len(m) /\ c \in Change /\ now \in TablesSet
      /\ LegalChange(product, ts, now, c, v, change)
      /\ TablesAfter(ts, m, v)[change] = UpdatedTables(now, c, v, change)
      /\ step \in 1 .. n
      /\ s = Ongoing[step]
  BY <1>1, NextStatement
<1>4. \/ step < n /\ change' = change /\ step' = step + 1
      \/ step = n /\ change' = change + 1 /\ step' = 1
  BY <1>1, Advanced
<1>5. CanExecute(db, s) /\ db' = e
  BY <1>3 DEF Succeed
<1>6. tainted' = Cleared(tainted, s)
  BY <1>3 DEF Succeed, Untainted, Cleared
<1>7. db \in Databases /\ tainted \in SUBSET Table
  BY DEF Inv, TypesInv
<1>8. \A x \in Table \ tainted :
         IF unstored = v THEN Agree(product, db, ideal[v], x)
         ELSE AgreeAt(product, db, ts, m, v, x, change, step)
  BY <1>1 DEF Inv, RunningInv
<1>9. unstored = v => IsSingle(product, m)
  BY <1>2 DEF Inv, RestInv
<1> HIDE DEF v, m
<1>10. CASE unstored = v
  <2>1. Len(m) = 1 /\ change = 1 /\ m[1] = c /\ n = 1 /\ step = 1
    <3>1. Len(m) = 1 /\ StatementCount(product, m[1]) = 1
      BY <1>9, <1>10 DEF IsSingle
    <3>2. change = 1
      BY <1>3, <3>1
    <3> QED BY <1>3, <3>1, <3>2
  <2>2. ideal[v] = UpdatedTables(now, c, v, change)
    BY <1>2, <1>3, <2>1
  <2> HIDE DEF now, c, ts
  <2>3. AllAgree(e, UpdatedTables(now, c, v, change), Cleared(tainted, s))
    <3>1. s = Statements(ts, c, v, change)[1] /\ change \in Nat
      BY <2>1
    <3>2. AllAgree(db, UpdatedTables(now, c, v, change), tainted)
      BY <1>8, <1>10, <2>2 DEF AllAgree
    <3>3. StatementCount(product, c) = 1 /\ CanExecute(db, s)
      BY <1>5, <2>1
    <3> HIDE DEF s
    <3> QED BY <1>2, <1>3, <1>7, <3>1, <3>2, <3>3, Repeated
  <2> HIDE DEF e, s
  <2>4. \A x \in Table \ tainted' : Agree(product, db', ideal[v], x)
    BY <1>5, <1>6, <2>2, <2>3 DEF AllAgree
  <2> QED BY <1>10, <2>4 DEF v
<1>11. CASE unstored # v
  <2>1. Placed(db, now, c, v, change, step, tainted)
    BY <1>8, <1>11 DEF AgreeAt, Placed
  <2>2. change \in Nat
    BY <1>2, <1>3
  <2>3. Does(ts, now, c, v, change, step, db, tainted)
    <3> HIDE DEF ts, now, c
    <3> QED BY <1>2, <1>3, <1>7, <2>1, <2>2, ChangeDoes
  <2>4. \A x \in Table \ Cleared(tainted, s) :
           IF step < n THEN AtChange(product, e, now, c, v, x, change, step + 1)
           ELSE Agree(product, e, UpdatedTables(now, c, v, change), x)
    <3>1. \A x \in Table \ Cleared(tainted, s) : DoesAt(ts, now, c, v, change, step, db, x)
      BY <1>5, <2>3 DEF Does
    <3> QED BY <3>1 DEF DoesAt
  <2> HIDE DEF s, e
  <2>5. ASSUME NEW x \in Table \ tainted'
        PROVE  AgreeAt(product, db', ts, m, v, x, change', step')
    <3>1. CASE step < n /\ change' = change /\ step' = step + 1
      BY <1>5, <1>6, <2>4, <3>1 DEF AgreeAt
    <3>2. CASE step = n /\ change' = change + 1 /\ step' = 1
      <4>1. change' - 1 = change /\ ~(step < n) /\ ~(step' > 1)
        BY <1>2, <1>3, <3>2
      <4>2. Agree(product, db', TablesAfter(ts, m, v)[change' - 1], x)
        BY <1>3, <1>5, <1>6, <2>4, <4>1
      <4> QED BY <4>1, <4>2 DEF AgreeAt, AtChange
    <3> QED BY <1>4, <3>1, <3>2
  <2> QED BY <1>11, <2>5 DEF v, m
<1> QED BY <1>10, <1>11 DEF v, m

(* A statement was executed.                                               *)
LEMMA SucceedInv ==
    ASSUME Inv, Succeed PROVE Inv'
<1> DEFINE v == schema.version + 1
           m == history[v]
           s == Ongoing[step]
<1>1. /\ pc = "running" /\ ~IsThrough /\ CanExecute(db, s) /\ Advance
      /\ db' = Executed(db, s) /\ tainted' = Untainted(s)
      /\ UNCHANGED <<product, history, ideal, stored, dbversion, schema, pc, has_error, code,
                     unstored, faults>>
  BY DEF Succeed, release, memory
<1>2. ReleasesInv' /\ latest' = latest
  BY <1>1, ReleasesKept
<1>3. IsStatement(s) /\ ~has_error
  BY <1>1, NextStatement DEF IsOf
<1>4. tainted' = Cleared(tainted, s)
  BY <1>1 DEF Untainted, Cleared
<1>5. tainted' \subseteq Table /\ (tainted = {} => tainted' = {})
  BY <1>3, <1>4, ClearedTables DEF Inv, TypesInv
<1>6. db' \in Databases
  BY <1>1, <1>3, ExecutedFrame DEF Inv, TypesInv
<1>7. /\ change' \in Nat \ {0} /\ step' \in Nat \ {0}
      /\ IF change' <= Len(m) THEN step' <= StatementCount(product, m[change'])
         ELSE change' = Len(m) + 1 /\ step' = 1
  BY <1>1, Advanced
<1>8. TypesInv'
  BY <1>1, <1>2, <1>5, <1>6, <1>7 DEF Inv, TypesInv
<1>9. RestInv'
  BY <1>1 DEF Inv, RestInv
<1>10. CalmInv'
  BY <1>1, <1>5 DEF Inv, CalmInv
<1>11. RunningInv'
  <2>1. \A x \in Table \ tainted' :
           IF unstored = v THEN Agree(product, db', ideal[v], x)
           ELSE AgreeAt(product, db', ideal[v - 1], m, v, x, change', step')
    BY SucceedTables
  <2>2. /\ v <= latest /\ dbversion = schema.version
        /\ \/ dbversion = stored /\ unstored \in {0, v}
           \/ dbversion = stored + 1 /\ unstored = dbversion
    BY <1>1 DEF Inv, RunningInv
  <2> QED BY <1>1, <1>2, <1>3, <1>7, <2>1, <2>2 DEF RunningInv
<1> QED BY <1>2, <1>8, <1>9, <1>10, <1>11 DEF Inv

LEMMA SameAgrees ==
    ASSUME NEW p, NEW d, NEW a, NEW b, NEW x, Agree(p, d, a, x), Same(a, b, x)
    PROVE  Agree(p, d, b, x)
BY DEF Agree, Same

(* The next place when a statement failed.                                 *)
LEMMA GivenUp ==
    ASSUME Inv, pc = "running", ~IsThrough, GiveUp(Ongoing[step])
    PROVE  LET m == history[schema.version + 1]
               s == Ongoing[step]
           IN  /\ change' \in Nat \ {0} /\ step' \in Nat \ {0}
               /\ IF change' <= Len(m) THEN step' <= StatementCount(product, m[change'])
                  ELSE change' = Len(m) + 1 /\ step' = 1
               /\ \/ s.after = "migration" /\ change' = Len(m) + 1 /\ step' = 1
                  \/ s.after # "migration" /\ change' = change + 1 /\ step' = 1
                  \/ /\ s.after # "migration" /\ step < StatementCount(product, m[change])
                     /\ change' = change /\ step' = step + 1
<1> DEFINE v == schema.version + 1
           m == history[v]
           s == Ongoing[step]
           ts == ideal[v - 1]
<1>1. change \in 1 .. Len(m) /\ IsStatement(s)
  BY NextStatement DEF IsOf
<1>2. /\ Len(m) \in Nat \ {0} /\ LegalMigration(product, ts, m, v) /\ Migration = m
      /\ ts \in TablesSet /\ v \in Nat
  BY RunningFacts
<1>3. s.after \in {"migration", "table", "none"}
  BY <1>1 DEF IsStatement
<1>4. CASE s.after = "migration"
  <2>1. change' = Len(m) + 1 /\ step' = 1
    BY <1>2, <1>4 DEF GiveUp
  <2> HIDE DEF m, s
  <2>2. ~(change' <= Len(m)) /\ change' \in Nat \ {0} /\ step' \in Nat \ {0}
    BY <1>2, <2>1
  <2> QED BY <1>4, <2>1, <2>2 DEF m, s
<1>5. CASE s.after = "table"
  <2>1. change' = change + 1 /\ step' = 1
    BY <1>5 DEF GiveUp
  <2> HIDE DEF m, s, v, ts
  <2>2. ASSUME change + 1 <= Len(m) PROVE 1 <= StatementCount(product, m[change + 1])
    <3>1. change + 1 \in 1 .. Len(m) /\ (change + 1) - 1 \in 0 .. Len(m)
      BY <1>1, <1>2, <2>2
    <3>2. LegalChange(product, ts, TablesAfter(ts, m, v)[(change + 1) - 1], m[change + 1], v,
                      change + 1)
      BY <1>2, <3>1, MigrationStep
    <3>3. StatementCount(product, m[change + 1]) \in Nat \ {0}
      BY <3>2, CountPositive
    <3> QED BY <3>3
  <2>3. change + 1 \in Nat \ {0} /\ (~(change + 1 <= Len(m)) => change + 1 = Len(m) + 1)
    BY <1>1, <1>2
  <2>4. s.after # "migration"
    BY <1>5
  <2> QED BY <1>5, <2>1, <2>2, <2>3, <2>4 DEF m, s, v
<1>6. CASE s.after = "none"
  <2>1. Advance
    BY <1>6 DEF GiveUp
  <2>2. s.after # "migration"
    BY <1>6
  <2> QED BY <2>1, <2>2, Advanced
<1> QED BY <1>3, <1>4, <1>5, <1>6

(* What a failed statement gives up was about tables that are tainted now, *)
(* or was executed before.                                                 *)
LEMMA FailTables ==
    ASSUME Inv, Fail
    PROVE  LET v == schema.version + 1
               m == history[v]
           IN  \A x \in Table \ tainted' :
                  IF unstored = v THEN Agree(product, db, ideal[v], x)
                  ELSE AgreeAt(product, db, ideal[v - 1], m, v, x, change', step')
<1> DEFINE v == schema.version + 1
           ts == ideal[v - 1]
           m == history[v]
           f == TablesAfter(ts, m, v)
           now == f[change - 1]
           c == m[change]
           s == Ongoing[step]
<1>1. /\ pc = "running" /\ ~IsThrough /\ GiveUp(s)
      /\ tainted' = IF unstored = v THEN tainted ELSE tainted \cup Lost(s)
  BY DEF Fail
<1>2. /\ v \in 1 .. latest /\ v \in Nat /\ ts \in TablesSet /\ product \in Servers
      /\ Len(m) \in Nat \ {0} /\ LegalMigration(product, ts, m, v) /\ Migration = m
  BY <1>1, RunningFacts, Basics
<1>3. /\ change \in 1 .. Len(m) /\ c \in Change /\ now \in TablesSet
      /\ LegalChange(product, ts, now, c, v, change)
      /\ f[change] = UpdatedTables(now, c, v, change)
      /\ step \in 1 .. StatementCount(product, c)
  BY <1>1, NextStatement
<1>4. \A x \in Table \ tainted :
         IF unstored = v THEN Agree(product, db, ideal[v], x)
         ELSE AgreeAt(product, db, ts, m, v, x, change, step)
  BY <1>1 DEF Inv, RunningInv
<1>5. \/ s.after = "migration" /\ change' = Len(m) + 1 /\ step' = 1
      \/ s.after # "migration" /\ change' = change + 1 /\ step' = 1
      \/ s.after # "migration" /\ change' = change /\ step' = step + 1
  BY <1>1, GivenUp
<1>6. c.table \in About(c)
  BY AboutIs
<1>7. Lost(s) = UNION {About(m[i]) : i \in change .. (IF s.after = "migration" THEN Len(m) ELSE change)}
  BY <1>2 DEF Lost
<1> HIDE DEF v, m, ts, f
<1>8. CASE unstored = v
  BY <1>1, <1>4, <1>8 DEF v
<1>9. CASE unstored # v
  <2> SUFFICES ASSUME NEW x \in Table \ tainted'
               PROVE  AgreeAt(product, db, ts, m, v, x, change', step')
    BY <1>9 DEF v, m, ts
  <2>1. x \notin tainted /\ x \notin Lost(s)
    BY <1>1, <1>9
  <2>2. x \notin About(c)
    <3>1. change \in change .. (IF s.after = "migration" THEN Len(m) ELSE change)
      BY <1>2, <1>3
    <3> QED BY <1>7, <2>1, <3>1
  <2>3. Agree(product, db, now, x)
    BY <1>4, <1>6, <1>9, <2>1, <2>2 DEF AgreeAt, AtChange, f
  <2>4. CASE s.after = "migration" /\ change' = Len(m) + 1 /\ step' = 1
    <3>1. \A i \in change .. Len(m) : x \notin About(m[i])
      BY <1>7, <2>1, <2>4
    <3>2. Len(m) \in change .. Len(m)
      BY <1>2, <1>3
    <3>3. Same(f[change - 1], f[Len(m)], x)
      BY <1>2, <1>3, <3>1, <3>2, Untouched DEF f
    <3>4. change' - 1 = Len(m) /\ ~(step' > 1)
      BY <1>2, <2>4
    <3>5. Agree(product, db, f[change' - 1], x)
      BY <2>3, <3>3, <3>4, SameAgrees
    <3> QED BY <3>4, <3>5 DEF AgreeAt, AtChange, f
  <2>5. CASE s.after # "migration" /\ change' = change + 1 /\ step' = 1
    <3>1. change' - 1 = change /\ ~(step' > 1) /\ change \in Nat
      BY <1>2, <1>3, <2>5
    <3>2. Same(now, UpdatedTables(now, c, v, change), x)
      <4> HIDE DEF now, c
      <4> QED BY <1>3, <2>2, UpdatedSame
    <3>3. Agree(product, db, f[change' - 1], x)
      BY <1>3, <2>3, <3>1, <3>2, SameAgrees
    <3> QED BY <3>1, <3>3 DEF AgreeAt, AtChange, f
  <2>6. CASE s.after # "migration" /\ change' = change /\ step' = step + 1
    BY <1>6, <2>2, <2>3, <2>6 DEF AgreeAt, AtChange, f
  <2> QED BY <1>5, <2>4, <2>5, <2>6
<1> QED BY <1>8, <1>9

(* No statement is refused before there was a fault.                       *)
LEMMA CalmFails ==
    ASSUME Inv, Fail PROVE faults' # 0
<1> DEFINE v == schema.version + 1
           ts == ideal[v - 1]
           m == history[v]
           now == TablesAfter(ts, m, v)[change - 1]
           c == m[change]
           s == Ongoing[step]
<1>1. pc = "running" /\ ~IsThrough /\ ((~CanExecute(db, s) /\ faults' = faults) \/ faults' = faults + 1)
  BY DEF Fail
<1>2. faults \in Nat
  BY ServerAssumption DEF Inv, TypesInv
<1>3. SUFFICES ASSUME faults = 0, ~CanExecute(db, s) PROVE FALSE
  BY <1>1, <1>2
<1>4. tainted = {} /\ unstored = 0
  BY <1>3 DEF Inv, CalmInv
<1>5. /\ v \in Nat \ {0} /\ ts \in TablesSet /\ product \in Servers /\ Len(m) \in Nat
  BY <1>1, RunningFacts, Basics
<1>6. /\ change \in 1 .. Len(m) /\ c \in Change /\ now \in TablesSet
      /\ LegalChange(product, ts, now, c, v, change)
      /\ step \in 1 .. StatementCount(product, c)
      /\ s = Statements(ts, c, v, change)[step]
  BY <1>1, NextStatement
<1>7. Placed(db, now, c, v, change, step, {})
  BY <1>1, <1>4, <1>5 DEF Inv, RunningInv, AgreeAt, Placed
<1>8. Does(ts, now, c, v, change, step, db, {})
  <2>1. db \in Databases /\ change \in Nat
    BY <1>5, <1>6 DEF Inv, TypesInv
  <2> HIDE DEF v, ts, m, now, c
  <2> QED BY <1>5, <1>6, <1>7, <2>1, ChangeDoes
<1> QED BY <1>3, <1>6, <1>8 DEF Does

(* A statement failed.                                                     *)
LEMMA FailInv ==
    ASSUME Inv, Fail PROVE Inv'
<1> DEFINE v == schema.version + 1
           m == history[v]
           s == Ongoing[step]
<1>1. /\ pc = "running" /\ ~IsThrough /\ GiveUp(s)
      /\ faults' = faults \/ (faults < MaxFaults /\ faults' = faults + 1)
      /\ has_error' = (has_error \/ s.after = "migration")
      /\ tainted' = IF unstored = v THEN tainted ELSE tainted \cup Lost(s)
      /\ UNCHANGED <<product, history, ideal, stored, db, dbversion, schema, pc, code, unstored>>
  BY DEF Fail, release, server, memory
<1>2. ReleasesInv' /\ latest' = latest
  BY <1>1, ReleasesKept
<1>3. /\ v \in 1 .. latest /\ LegalMigration(product, ideal[v - 1], m, v) /\ Migration = m
      /\ ideal[v - 1] \in TablesSet /\ v \in Nat /\ Len(m) \in Nat \ {0}
  BY <1>1, RunningFacts
<1>4. change \in 1 .. Len(m) /\ ~has_error
  BY <1>1, NextStatement
<1>5. /\ change' \in Nat \ {0} /\ step' \in Nat \ {0}
      /\ IF change' <= Len(m) THEN step' <= StatementCount(product, m[change'])
         ELSE change' = Len(m) + 1 /\ step' = 1
      /\ s.after = "migration" => change' = Len(m) + 1
  BY <1>1, GivenUp
<1>6. Lost(s) = UNION {About(m[i]) : i \in change .. (IF s.after = "migration" THEN Len(m) ELSE change)}
  BY <1>3 DEF Lost
<1>7. Lost(s) \subseteq Table
  <2> HIDE DEF m, s, v
  <2>1. \A i \in 1 .. Len(m) : \A x : x \in About(m[i]) => x \in Table
    <3>1. \A i \in 1 .. Len(m) : m[i] \in Change
      BY <1>3, MigrationStep
    <3> QED BY <3>1, AboutTables
  <2>2. \A i \in change .. (IF s.after = "migration" THEN Len(m) ELSE change) : i \in 1 .. Len(m)
    BY <1>3, <1>4
  <2>3. ASSUME NEW x \in Lost(s) PROVE x \in Table
    <3>1. PICK i \in change .. (IF s.after = "migration" THEN Len(m) ELSE change) : x \in About(m[i])
      BY <1>6
    <3> QED BY <2>1, <2>2, <3>1
  <2> QED BY <2>3
<1>8. tainted' \subseteq Table /\ faults' \in 0 .. MaxFaults
  <2>1. faults \in 0 .. MaxFaults /\ tainted \subseteq Table /\ MaxFaults \in Nat
    BY ServerAssumption DEF Inv, TypesInv
  <2> QED BY <1>1, <1>7, <2>1
<1>9. TypesInv'
  BY <1>1, <1>2, <1>5, <1>8 DEF Inv, TypesInv
<1>10. RestInv'
  BY <1>1 DEF Inv, RestInv
<1>11. CalmInv'
  BY CalmFails DEF CalmInv
<1>12. RunningInv'
  <2>1. \A x \in Table \ tainted' :
           IF unstored = v THEN Agree(product, db, ideal[v], x)
           ELSE AgreeAt(product, db, ideal[v - 1], m, v, x, change', step')
    BY FailTables
  <2>2. /\ v <= latest /\ dbversion = schema.version
        /\ \/ dbversion = stored /\ unstored \in {0, v}
           \/ dbversion = stored + 1 /\ unstored = dbversion
    BY <1>1 DEF Inv, RunningInv
  <2>3. has_error' /\ IsSingle(product, m) /\ unstored # v => About(m[1]) \subseteq tainted'
    <3> HIDE DEF m, s, v
    <3>1. SUFFICES ASSUME s.after = "migration", Len(m) = 1, unstored # v
                   PROVE  About(m[1]) \subseteq tainted'
      BY <1>1, <1>4 DEF IsSingle
    <3>2. 1 \in change .. Len(m)
      BY <1>4, <3>1
    <3> QED BY <1>1, <1>6, <3>1, <3>2
  <2>4. change' <= Len(m) => ~has_error'
    <3> HIDE DEF m, s
    <3>1. Len(m) + 1 > Len(m)
      BY <1>3
    <3>2. change' <= Len(m) => s.after # "migration"
      BY <1>3, <1>5, <3>1
    <3> QED BY <1>1, <1>4, <3>2
  <2> QED BY <1>1, <1>2, <1>5, <2>1, <2>2, <2>3, <2>4 DEF RunningInv
<1> QED BY <1>2, <1>9, <1>10, <1>11, <1>12 DEF Inv

(* Every change was executed or given up.                                  *)
LEMMA ThroughFacts ==
    ASSUME Inv, pc = "running", IsThrough
    PROVE  LET v == schema.version + 1
               m == history[v]
           IN  /\ change = Len(m) + 1 /\ step = 1
               /\ \A x \in Table \ tainted : Agree(product, db, ideal[v], x)
<1> DEFINE v == schema.version + 1
           m == history[v]
           ts == ideal[v - 1]
<1>1. /\ Len(m) \in Nat \ {0} /\ Migration = m /\ ideal[v] = TablesAfter(ts, m, v)[Len(m)]
  BY RunningFacts
<1>2. change > Len(m) /\ change \in Nat
  BY <1>1 DEF IsThrough, Inv, TypesInv
<1>3. change = Len(m) + 1 /\ step = 1
  BY <1>1, <1>2 DEF Inv, RunningInv
<1>4. ASSUME NEW x \in Table \ tainted PROVE Agree(product, db, ideal[v], x)
  <2>1. IF unstored = v THEN Agree(product, db, ideal[v], x)
        ELSE AgreeAt(product, db, ts, m, v, x, change, step)
    BY DEF Inv, RunningInv
  <2> HIDE DEF v, m, ts
  <2>2. change - 1 = Len(m) /\ ~(step > 1)
    BY <1>1, <1>3
  <2> QED BY <1>1, <2>1, <2>2 DEF AgreeAt, AtChange
<1> QED BY <1>3, <1>4

(* A migration ends, and its version is stored or not.                     *)
LEMMA FinishedInv ==
    ASSUME Inv, NEW version, FinishWith(schema.version + 1, version),
           \/ version = schema.version + 1
           \/ /\ version = stored /\ dbversion = stored /\ unstored \in {0, schema.version + 1}
              /\ IsSingle(product, history[schema.version + 1]) /\ faults' # 0,
           faults' \in faults .. MaxFaults
    PROVE  Inv'
<1> DEFINE v == schema.version + 1
           m == history[v]
<1>1. /\ pc = "running" /\ IsThrough
      /\ dbversion' = v /\ stored' = version
      /\ unstored' = IF version = v THEN 0 ELSE v
      /\ schema' = Updated(schema, v)
      /\ code' = IF has_error THEN "EXEC_ERROR" ELSE "OK"
      /\ pc' = IF has_error THEN "down" ELSE "idle"
      /\ change' = 1 /\ step' = 1
      /\ UNCHANGED <<product, history, ideal, db, has_error, tainted>>
  BY DEF FinishWith, release
<1>2. ReleasesInv' /\ latest' = latest /\ latest \in Nat
  BY <1>1, ReleasesKept, Basics
<1>3. v \in 1 .. latest /\ v \in Nat /\ v - 1 = schema.version
  BY <1>1, RunningFacts
<1>4. \A x \in Table \ tainted : Agree(product, db, ideal[v], x)
  BY <1>1, ThroughFacts
<1>5. schema' = [version |-> v, tables |-> ideal[v]]
      /\ schema' \in [version : 0 .. latest, tables : TablesSet]
  BY <1>1, <1>3, UpdatedIs
<1>6. stored \in 0 .. latest /\ faults \in 0 .. MaxFaults /\ MaxFaults \in Nat
  BY ServerAssumption DEF Inv, TypesInv
<1>7. dbversion = schema.version
  BY <1>1 DEF Inv, RunningInv
<1>8. \/ version = v /\ stored' = v /\ unstored' = 0
      \/ version = v - 1 /\ stored' = v - 1 /\ unstored' = v /\ IsSingle(product, m) /\ faults' # 0
  <2> HIDE DEF m
  <2> QED BY <1>1, <1>3, <1>7 DEF m
<1> HIDE DEF v, m
<1>9. stored' \in 0 .. latest /\ unstored' \in 0 .. latest /\ dbversion' \in 0 .. latest
      /\ faults' \in 0 .. MaxFaults
  BY <1>1, <1>2, <1>3, <1>6, <1>8
<1>10. TypesInv'
  <2>1. schema'.tables = ideal'[schema'.version]
    BY <1>1, <1>5
  <2> QED BY <1>1, <1>2, <1>5, <1>9, <2>1 DEF Inv, TypesInv
<1>11. Base' = v
  BY <1>3, <1>8 DEF Base
<1>12. RestInv'
  <2>1. unstored' \in {0, stored' + 1}
    BY <1>3, <1>8
  <2>2. unstored' # 0 => IsSingle(product', history'[unstored'])
    BY <1>1, <1>8 DEF m
  <2>3. \A x \in Table \ tainted' : Agree(product', db', ideal'[Base'], x)
    BY <1>1, <1>4, <1>11
  <2>4. schema'.version <= dbversion' /\ dbversion' \in {stored', Base'}
    BY <1>1, <1>3, <1>5, <1>11
  <2> QED BY <2>1, <2>2, <2>3, <2>4 DEF RestInv
<1>13. CalmInv'
  <2>1. SUFFICES ASSUME faults' = 0
                 PROVE  tainted' = {} /\ unstored' = 0 /\ code' = "OK" /\ ~has_error'
    BY DEF CalmInv
  <2>2. faults = 0
    BY <1>6, <2>1
  <2>3. tainted = {} /\ ~has_error
    BY <2>2 DEF Inv, CalmInv
  <2> QED BY <1>1, <1>8, <2>1, <2>3
<1>14. RunningInv'
  BY <1>1 DEF RunningInv
<1> QED BY <1>2, <1>10, <1>12, <1>13, <1>14 DEF Inv

LEMMA FinishInv ==
    ASSUME Inv, Finish PROVE Inv'
<1>1. FinishWith(schema.version + 1, schema.version + 1) /\ faults' = faults
  BY DEF Finish
<1>2. faults' \in faults .. MaxFaults
  BY <1>1, ServerAssumption DEF Inv, TypesInv
<1> QED BY <1>1, <1>2, FinishedInv

LEMMA FinishUnstoredInv ==
    ASSUME Inv, FinishUnstored PROVE Inv'
<1> DEFINE v == schema.version + 1
<1>1. /\ pc = "running" /\ IsRepeatable(v) /\ NoOtherUnstored(v)
      /\ faults < MaxFaults /\ faults' = faults + 1
      /\ FinishWith(v, stored)
  BY DEF FinishUnstored
<1>2. v \in 1 .. latest
  BY <1>1, RunningFacts
<1>3. IsSingle(product, history[v])
  BY <1>1, <1>2, RepeatableIsSingle
<1>4. /\ schema.version \in Nat /\ dbversion = schema.version
      /\ \/ dbversion = stored
         \/ dbversion = stored + 1 /\ unstored = dbversion
  BY <1>1 DEF Inv, RunningInv, TypesInv
<1>5. unstored \in {0, v}
  BY <1>1 DEF NoOtherUnstored
<1>6. stored \in Nat
  BY Basics DEF Inv, TypesInv
<1>7. dbversion = stored
  BY <1>4, <1>5, <1>6
<1>8. faults' \in faults .. MaxFaults /\ faults' # 0
  BY <1>1, ServerAssumption DEF Inv, TypesInv
<1> QED BY <1>1, <1>3, <1>5, <1>7, <1>8, FinishedInv

(* What the database keeps when the process dies.                          *)
LEMMA CrashTables ==
    ASSUME Inv, Crash
    PROVE  LET v == schema.version + 1
           IN  /\ unstored' \in {0, stored + 1}
               /\ unstored' # 0 => IsSingle(product, history[unstored'])
               /\ \A x \in Table \ tainted : Agree(product, db, ideal[Base'], x)
<1> DEFINE v == schema.version + 1
           m == history[v]
           ts == ideal[v - 1]
           f == TablesAfter(ts, m, v)
<1>1. /\ pc = "running" /\ (IsRepeatable(v) \/ (change = 1 /\ step = 1))
      /\ IsThrough /\ ~has_error => NoOtherUnstored(v)
      /\ unstored' = IF IsThrough /\ ~has_error THEN v ELSE unstored
      /\ stored' = stored
  BY DEF Crash, server
<1>2. /\ v \in 1 .. latest /\ v \in Nat /\ v - 1 = schema.version /\ ts \in TablesSet
      /\ Len(m) \in Nat \ {0} /\ LegalMigration(product, ts, m, v) /\ Migration = m
      /\ ideal[v] = f[Len(m)] /\ product \in Servers
  BY <1>1, RunningFacts, Basics
<1>3. IsRepeatable(v) => IsSingle(product, m)
  BY <1>2, RepeatableIsSingle
<1>4. /\ dbversion = v - 1 /\ stored \in Nat
      /\ \/ dbversion = stored /\ unstored \in {0, v}
         \/ dbversion = stored + 1 /\ unstored = dbversion
  BY <1>1, <1>2, Basics DEF Inv, RunningInv, TypesInv
<1>5. unstored \in {0, stored + 1} /\ (unstored # 0 => IsSingle(product, history[unstored]))
  BY DEF Inv, RestInv
<1>6. ASSUME IsThrough PROVE IsSingle(product, m)
  <2>1. change = Len(m) + 1
    BY <1>1, <1>6, ThroughFacts
  <2> HIDE DEF m, v
  <2>2. change # 1
    BY <1>2, <2>1
  <2> QED BY <1>1, <1>3, <2>2
<1>7. Base' = IF unstored' = 0 THEN stored ELSE unstored'
  BY <1>1 DEF Base
<1>8. CASE IsThrough /\ ~has_error
  <2>1. unstored' = v /\ unstored \in {0, v} /\ v = stored + 1
    BY <1>1, <1>2, <1>4, <1>8 DEF NoOtherUnstored
  <2>2. \A x \in Table \ tainted : Agree(product, db, ideal[v], x)
    BY <1>1, <1>8, ThroughFacts
  <2>3. Base' = v
    BY <1>2, <1>7, <2>1
  <2> QED BY <1>6, <1>8, <2>1, <2>2, <2>3
<1>9. CASE ~(IsThrough /\ ~has_error) /\ unstored = v
  <2>1. \A x \in Table \ tainted : Agree(product, db, ideal[v], x)
    BY <1>1, <1>9 DEF Inv, RunningInv
  <2>2. unstored' = unstored /\ Base' = v
    BY <1>1, <1>2, <1>7, <1>9
  <2> QED BY <1>5, <2>1, <2>2
<1>10. CASE ~(IsThrough /\ ~has_error) /\ unstored # v
  <2>1. unstored' = unstored /\ Base' = v - 1
    <3>1. unstored' = unstored
      BY <1>1, <1>10
    <3>2. (unstored = 0 /\ stored = v - 1) \/ (unstored = v - 1 /\ stored + 1 = v - 1)
      BY <1>4, <1>10
    <3> HIDE DEF v
    <3> QED BY <1>2, <1>4, <1>7, <3>1, <3>2
  <2>2. ASSUME NEW x \in Table \ tainted PROVE Agree(product, db, ts, x)
    <3>1. CASE ~IsThrough
      <4>1. /\ change \in 1 .. Len(m) /\ step \in 1 .. StatementCount(product, m[change])
        BY <1>1, <3>1, NextStatement
      <4>2. change = 1 /\ step = 1
        <5> HIDE DEF m, v
        <5>1. CASE change = 1 /\ step = 1
          BY <5>1
        <5>2. CASE IsSingle(product, m)
          <6>1. change = 1
            BY <4>1, <5>2 DEF IsSingle
          <6> QED BY <4>1, <5>2, <6>1 DEF IsSingle
        <5> QED BY <1>1, <1>3, <5>1, <5>2
      <4>3. AgreeAt(product, db, ts, m, v, x, 1, 1)
        BY <1>1, <1>10, <4>2 DEF Inv, RunningInv
      <4>4. f[0] = ts
        <5> HIDE DEF m, v, ts
        <5> QED BY <1>2, MigrationStart DEF f
      <4> HIDE DEF m, v, ts
      <4>5. 1 - 1 = 0 /\ ~(1 > 1)
        OBVIOUS
      <4> QED BY <4>3, <4>4, <4>5 DEF AgreeAt, AtChange, f
    <3>2. CASE IsThrough /\ has_error
      <4>1. IsSingle(product, m)
        BY <1>6, <3>2
      <4>2. x \notin About(m[1])
        BY <1>1, <1>10, <3>2, <4>1 DEF Inv, RunningInv
      <4>3. Agree(product, db, f[1], x)
        BY <1>1, <1>2, <3>2, <4>1, ThroughFacts DEF IsSingle
      <4> HIDE DEF m, v, ts
      <4>4. Len(m) = 1 /\ 1 \in 1 .. Len(m) /\ 1 \in 1 .. 1
        BY <4>1 DEF IsSingle
      <4>5. \A l \in 1 .. 1 : x \notin About(m[l])
        BY <4>2
      <4>6. Same(f[1 - 1], f[1], x)
        BY <1>2, <4>4, <4>5, Untouched DEF f
      <4>7. f[0] = ts /\ 1 - 1 = 0
        BY <1>2, MigrationStart DEF f
      <4>8. Same(ts, f[1], x)
        BY <4>6, <4>7
      <4> HIDE DEF f
      <4> QED BY <4>3, <4>8 DEF Agree, Same
    <3> QED BY <1>10, <3>1, <3>2
  <2> QED BY <1>5, <2>1, <2>2
<1> QED BY <1>8, <1>9, <1>10

(* The process dies.                                                       *)
LEMMA CrashInv ==
    ASSUME Inv, Crash PROVE Inv'
<1> DEFINE v == schema.version + 1
<1>1. /\ pc = "running" /\ pc' = "down" /\ change' = 1 /\ step' = 1 /\ has_error' = FALSE
      /\ faults < MaxFaults /\ faults' = faults + 1
      /\ unstored' = IF IsThrough /\ ~has_error THEN v ELSE unstored
      /\ UNCHANGED <<product, history, ideal, stored, db, dbversion, schema, code, tainted>>
  BY DEF Crash, release, server, memory
<1>2. ReleasesInv' /\ latest' = latest
  BY <1>1, ReleasesKept
<1>3. v \in 1 .. latest /\ unstored \in 0 .. latest /\ latest \in Nat
  BY <1>1, RunningFacts, Basics DEF Inv, TypesInv
<1>4. faults' \in 0 .. MaxFaults /\ faults' # 0
  BY <1>1, ServerAssumption DEF Inv, TypesInv
<1>5. unstored' \in 0 .. latest
  BY <1>1, <1>3
<1>6. TypesInv'
  <2>1. change' \in Nat \ {0} /\ step' \in Nat \ {0} /\ pc' \in {"down", "idle", "running"}
    BY <1>1
  <2>2. has_error' \in BOOLEAN
    BY <1>1
  <2> HIDE DEF v
  <2> QED BY <1>1, <1>2, <1>4, <1>5, <2>1, <2>2 DEF Inv, TypesInv
<1>7. RestInv'
  <2>1. /\ unstored' \in {0, stored + 1}
        /\ unstored' # 0 => IsSingle(product, history[unstored'])
        /\ \A x \in Table \ tainted : Agree(product, db, ideal[Base'], x)
    BY CrashTables
  <2> QED BY <1>1, <2>1 DEF RestInv
<1>8. RunningInv' /\ CalmInv'
  BY <1>1, <1>4 DEF RunningInv, CalmInv
<1> QED BY <1>2, <1>6, <1>7, <1>8 DEF Inv

(* Nothing happens.                                                        *)
LEMMA StutterInv ==
    ASSUME Inv, UNCHANGED vars PROVE Inv'
<1>1. UNCHANGED <<product, history, ideal, stored, db, dbversion, schema, pc, change, step,
                  has_error, code, tainted, unstored, faults>>
  BY DEF vars
<1>2. ReleasesInv' /\ latest' = latest
  BY <1>1, ReleasesKept
<1>3. TypesInv'
  BY <1>1, <1>2 DEF Inv, TypesInv
<1>4. RestInv'
  BY <1>1 DEF Inv, RestInv, Base
<1>5. RunningInv' /\ CalmInv'
  BY <1>1, <1>2 DEF Inv, RunningInv, CalmInv
<1> QED BY <1>2, <1>3, <1>4, <1>5 DEF Inv

-----------------------------------------------------------------------------
(* The theorems.                                                           *)

(* Every step keeps the invariant, whatever is released, whatever fails    *)
(* and wherever the process dies: the schema in memory is what the         *)
(* migrations mean, and each table that no failure was about is what they  *)
(* mean at the place that the program has reached.                         *)
THEOREM ServerInvariant == Spec => []Inv
<1>1. Init => Inv
  BY InitInv
<1>2. Inv /\ [Next]_vars => Inv'
  <2> SUFFICES ASSUME Inv, [Next]_vars PROVE Inv'
    OBVIOUS
  <2>1. CASE ReleaseSome
    BY <2>1, ReleaseSomeInv
  <2>2. CASE Open
    BY <2>2, OpenInv
  <2>3. CASE Include
    BY <2>3, IncludeInv
  <2>4. CASE Begin
    BY <2>4, BeginInv
  <2>5. CASE Succeed
    BY <2>5, SucceedInv
  <2>6. CASE Fail
    BY <2>6, FailInv
  <2>7. CASE Finish
    BY <2>7, FinishInv
  <2>8. CASE Close
    BY <2>8, CloseInv
  <2>9. CASE FinishUnstored
    BY <2>9, FinishUnstoredInv
  <2>10. CASE Crash
    BY <2>10, CrashInv
  <2>11. CASE UNCHANGED vars
    BY <2>11, StutterInv
  <2> QED BY <2>1, <2>2, <2>3, <2>4, <2>5, <2>6, <2>7, <2>8, <2>9, <2>10, <2>11 DEF Next, Program
<1> QED BY <1>1, <1>2, PTL DEF Spec

(* The invariant has the types.                                            *)
LEMMA InvTypes ==
    ASSUME Inv PROVE TypeOK
<1>1. schema.tables \in Partial(Table, TableRecord) /\ schema.version \in 0 .. latest
  BY DEF Inv, TypesInv, TablesSet
<1>2. DOMAIN schema.tables \subseteq Table
  BY <1>1, PartialIs
<1>3. db \in Partial(Table, DbTable)
  BY DEF Inv, TypesInv, Databases
<1>4. DOMAIN db \subseteq Table /\ \A t \in DOMAIN db : db[t] \in DbTable
  BY <1>3, PartialIs
<1>5. \A t \in DOMAIN db : /\ DOMAIN db[t].columns \subseteq Column
                           /\ db[t].index \in DOMAIN db[t].columns \cup {NoName}
  BY <1>4, DbFields
<1> QED BY <1>1, <1>2, <1>4, <1>5 DEF Inv, TypesInv, ReleasesInv, TypeOK

(* A column of a server is what the server makes of it.                    *)
LEMMA AsMirror ==
    ASSUME NEW name, NEW t PROVE AsInSchema(name, t) = Mirror(product, name, t)
BY DEF AsInSchema, Mirror, InServer, OnServer, Triggers

(* The variables of the program, of the server and of the releases have    *)
(* their types whatever is released and whatever fails: an index is always *)
(* of a column that its table has, in the database as in the schema.       *)
THEOREM ServerTypeCorrect == Spec => []TypeOK
<1>1. Inv => TypeOK
  BY InvTypes
<1> QED BY <1>1, ServerInvariant, PTL

(* A program of MySQL or PostgreSQL that has included its release finds    *)
(* the tables of its schema in the database, each as it was defined last,  *)
(* except those that a failed or skipped statement was about.  A crash     *)
(* before the first statement of a migration, or after the only one,       *)
(* damages none, nor does a version that was not stored.                   *)
THEOREM DamageIsContained == Spec => []OthersAgree
<1>1. Inv => OthersAgree
  <2> SUFFICES ASSUME Inv, pc = "idle", schema.version = latest, NEW t \in Table \ tainted
               PROVE  /\ t \in DOMAIN db <=> t \in DOMAIN schema.tables
                      /\ t \in DOMAIN db => db[t] = AsInSchema(t, schema.tables[t])
    BY InvTypes DEF OthersAgree
  <2>1. /\ schema.version <= dbversion /\ dbversion \in {stored, Base}
        /\ unstored \in {0, stored + 1}
        /\ Agree(product, db, ideal[Base], t)
    BY DEF Inv, RestInv
  <2>2. /\ dbversion \in 0 .. latest /\ stored \in 0 .. latest /\ unstored \in 0 .. latest
        /\ latest \in Nat /\ schema.tables = ideal[latest]
    BY Basics DEF Inv, TypesInv
  <2>3. Base = latest
    BY <2>1, <2>2 DEF Base
  <2> QED BY <2>1, <2>2, <2>3, AsMirror DEF Agree
<1> QED BY <1>1, ServerInvariant, PTL

(* Without a fault no statement of a migration is refused, no error is     *)
(* returned and no table is damaged: each statement finds what it changes  *)
(* and finds free what it makes.                                           *)
THEOREM RefusalsAreCaused == Spec => []RefusalsHaveCauses
<1>1. Inv => RefusalsHaveCauses
  BY DEF Inv, CalmInv, RefusalsHaveCauses
<1> QED BY <1>1, ServerInvariant, PTL

(* After faults as well: a statement is refused only if the change it is   *)
(* made for is about a table that a failure was about, or if its migration *)
(* was executed before and its version not stored.  Errors do not spread.  *)
RefusedAreDamaged ==
    pc = "running" /\ ~IsThrough /\ unstored # schema.version + 1 /\ ~CanExecute(db, Ongoing[step]) =>
        About(Migration[change]) \cap tainted # {}

THEOREM ErrorsDoNotSpread == Spec => []RefusedAreDamaged
<1>1. Inv => RefusedAreDamaged
  <2> DEFINE v == schema.version + 1
             ts == ideal[v - 1]
             m == history[v]
             now == TablesAfter(ts, m, v)[change - 1]
             c == m[change]
             s == Ongoing[step]
  <2> SUFFICES ASSUME Inv, pc = "running", ~IsThrough, unstored # v, About(Migration[change]) \cap tainted = {}
               PROVE  CanExecute(db, s)
    BY DEF RefusedAreDamaged
  <2>1. /\ v \in Nat \ {0} /\ ts \in TablesSet /\ product \in Servers /\ Len(m) \in Nat
        /\ Migration = m
    BY RunningFacts, Basics
  <2>2. /\ change \in 1 .. Len(m) /\ c \in Change /\ now \in TablesSet
        /\ LegalChange(product, ts, now, c, v, change)
        /\ step \in 1 .. StatementCount(product, c)
        /\ s = Statements(ts, c, v, change)[step]
    BY NextStatement
  <2>3. Placed(db, now, c, v, change, step, tainted)
    BY DEF Inv, RunningInv, AgreeAt, Placed
  <2>4. Does(ts, now, c, v, change, step, db, tainted)
    <3>1. db \in Databases /\ change \in Nat
      BY <2>1, <2>2 DEF Inv, TypesInv
    <3> HIDE DEF v, ts, m, now, c
    <3> QED BY <2>1, <2>2, <2>3, <3>1, ChangeDoes
  <2>5. \A x \in About(c) : x \notin tainted
    BY <2>1
  <2> QED BY <2>2, <2>4, <2>5 DEF Does
<1> QED BY <1>1, ServerInvariant, PTL

=============================================================================
