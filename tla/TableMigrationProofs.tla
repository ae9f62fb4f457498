------------------------ MODULE TableMigrationProofs ------------------------
(***************************************************************************)
(* Proofs about TableMigration, for any set of names and any number of     *)
(* migrations: the table in memory is what the migrations mean, and what a *)
(* synchronization reads of it is true.  What a synchronization makes of   *)
(* the table in the database keeps its rows and is what they mean, too.    *)
(***************************************************************************)
EXTENDS TableMigration, WellFoundedInduction, TLAPS

-----------------------------------------------------------------------------
(* Induction over the natural numbers, for sets instead of predicates.     *)

(* A set of natural numbers that is not empty has a least element.         *)
LEMMA Least ==
    ASSUME NEW T, T \subseteq Nat, T # {}
    PROVE  \E x \in T : \A y \in T : x <= y
<1> DEFINE R == OpToRel(<, Nat)
<1>1. IsWellFoundedOn(R, Nat)
  BY NatLessThanWellFounded
<1>2. PICK x \in T : \A y \in T : ~(<<y, x>> \in R)
  <2> HIDE DEF R
  <2> QED BY <1>1, WFMin
<1>3. \A y \in T : ~(y < x)
  BY <1>2, Zenon DEF OpToRel
<1> HIDE DEF R
<1> QED BY <1>3

(* A set that holds 0 and with every natural number the next holds them    *)
(* all: what a recursive function computes is proved of it step by step.   *)
LEMMA Induct ==
    ASSUME NEW T, 0 \in T, \A n \in T : n \in Nat => n + 1 \in T
    PROVE  Nat \subseteq T
<1>1. SUFFICES ASSUME Nat \ T # {} PROVE FALSE
  OBVIOUS
<1>2. PICK x \in Nat \ T : \A y \in Nat \ T : x <= y
  BY <1>1, Least
<1>3. x # 0 /\ x - 1 \in Nat /\ x - 1 < x
  BY <1>2
<1>4. x - 1 \in T
  BY <1>2, <1>3
<1>5. (x - 1) + 1 \in T
  BY <1>3, <1>4
<1>6. (x - 1) + 1 = x
  BY <1>2
<1> QED BY <1>5, <1>6

-----------------------------------------------------------------------------
(* Sequences grow at the front.                                            *)
LEMMA Prepended ==
    ASSUME NEW S, NEW q \in Seq(S), NEW x \in S
    PROVE  /\ <<x>> \o q \in Seq(S)
           /\ Len(<<x>> \o q) = Len(q) + 1
           /\ DOMAIN (<<x>> \o q) = 1 .. Len(q) + 1
           /\ (<<x>> \o q)[1] = x
           /\ \A i \in 1 .. Len(q) : (<<x>> \o q)[i + 1] = q[i]
           /\ \A i \in 2 .. Len(q) + 1 : (<<x>> \o q)[i] = q[i - 1] /\ i - 1 \in 1 .. Len(q)
  OBVIOUS

LEMMA PrependRange ==
    ASSUME NEW S, NEW q \in Seq(S), NEW x \in S
    PROVE  /\ <<x>> \o q \in Seq(S)
           /\ Range(<<x>> \o q) = Range(q) \cup {x}
<1>1. DOMAIN q = 1 .. Len(q) /\ DOMAIN (<<x>> \o q) = 1 .. Len(q) + 1
  BY Prepended
<1>2. ASSUME NEW y PROVE y \in Range(<<x>> \o q) => y \in Range(q) \cup {x}
  BY <1>1, Prepended DEF Range
<1>3. ASSUME NEW y \in Range(q) PROVE y \in Range(<<x>> \o q)
  <2>1. PICK i \in 1 .. Len(q) : y = q[i]
    BY <1>1, <1>3 DEF Range
  <2>2. i + 1 \in 1 .. Len(q) + 1 /\ (<<x>> \o q)[i + 1] = y
    BY <2>1, Prepended
  <2> QED BY <1>1, <2>2 DEF Range
<1>4. x \in Range(<<x>> \o q)
  BY <1>1, Prepended DEF Range
<1>5. <<x>> \o q \in Seq(S)
  BY Prepended
<1> QED BY <1>2, <1>3, <1>4, <1>5

LEMMA PrependOnce ==
    ASSUME NEW S, NEW q \in Seq(S), NEW x \in S, x \notin Range(q), IsInjective(q)
    PROVE  IsInjective(<<x>> \o q)
<1> DEFINE r == <<x>> \o q
<1>1. /\ Len(q) \in Nat /\ DOMAIN q = 1 .. Len(q) /\ DOMAIN r = 1 .. Len(q) + 1
      /\ r[1] = x
      /\ \A i \in 2 .. Len(q) + 1 : r[i] = q[i - 1] /\ i - 1 \in 1 .. Len(q)
  BY Prepended
<1> HIDE DEF r
<1>2. \A i \in DOMAIN q : q[i] # x
  BY DEF Range
<1>3. ASSUME NEW i \in DOMAIN r
      PROVE  \/ i = 1 /\ r[i] = x
             \/ i \in Int /\ i - 1 \in DOMAIN q /\ r[i] = q[i - 1]
  <2>1. i = 1 \/ i \in 2 .. Len(q) + 1
    BY <1>1
  <2> QED BY <1>1, <2>1
<1>4. ASSUME NEW i \in DOMAIN r, NEW j \in DOMAIN r, r[i] = r[j] PROVE i = j
  <2>1. CASE i = 1 \/ j = 1
    BY <1>2, <1>3, <1>4, <2>1
  <2>2. CASE i # 1 /\ j # 1
    <3>1. /\ i \in Int /\ i - 1 \in DOMAIN q /\ r[i] = q[i - 1]
          /\ j \in Int /\ j - 1 \in DOMAIN q /\ r[j] = q[j - 1]
      BY <1>3, <2>2
    <3>2. i - 1 = j - 1
      BY <1>4, <3>1 DEF IsInjective
    <3> QED BY <3>1, <3>2
  <2> QED BY <2>1, <2>2
<1>5. IsInjective(r)
  BY <1>4 DEF IsInjective
<1> QED BY <1>5 DEF r

-----------------------------------------------------------------------------
(* The inductive invariant, in parts.  The parts speak of any table t, of  *)
(* the names and definitions it should have and of what its fake columns   *)
(* were declared on, so that what the operators do to t can be said        *)
(* without the variables.                                                  *)

Records ==
    [kind : {"renamed", "dropped"}, column : Version,
     old : Name, name : Name \cup {NoName}]

Tables ==
    [version  : 0 .. MaxVersion,
     created  : BOOLEAN,
     flags    : SUBSET Flags,
     name     : [Version -> Name \cup {NoName}],
     old      : [Version -> Name \cup {NoName}],
     defined  : [Version -> 0 .. MaxVersion],
     on       : [Version -> Name \cup {NoName}],
     unsynced : Seq(Version),
     reentry  : Seq(Records)]

Databases ==
    [rows       : [Name -> Version \cup {NoColumn, Emptied}],
     defined    : [Name -> 0 .. MaxVersion],
     index      : [Name -> Name \cup {NoName}],
     constraint : [Name -> Name \cup {NoName}]]

Ideals ==
    [named : [Name -> 0 .. MaxVersion], defined : [Version -> 0 .. MaxVersion]]

IsMeant(t, i) ==
    /\ \A n \in Name, o \in Version : t.name[o] = n <=> i.named[n] = o
    /\ \A o \in Entries(t) : t.defined[o] = i.defined[o]

Unambiguous(t) ==
    /\ \A o \in Entries(t) : ~IsTraced(t, t.name[o])
    /\ \A i, j \in DOMAIN t.reentry : t.reentry[i].old = t.reentry[j].old => i = j

(* The name f leads to column o: it is the name of o, or was and is on     *)
(* record.                                                                 *)
Leads(t, f, o) ==
    \/ ~IsTraced(t, f) /\ f = t.name[o]
    \/ \E i \in DOMAIN t.reentry :
          /\ t.reentry[i].old = f
          /\ t.reentry[i].kind = "renamed"
          /\ t.reentry[i].column = o

Follow(t, target) ==
    \A o, p \in Version :
        o \in Entries(t) /\ p \in Entries(t) /\ target[o] = p => Leads(t, t.on[o], p)

(* What is on record for the database is of the versions so far, and once. *)
Recorded(t, v) ==
    /\ IsInjective(t.unsynced)
    /\ \A o \in Range(t.unsynced) : o <= v
    /\ \A o \in Version : t.old[o] # NoName => o <= v

(* What the database knows is told from the records: stored[n] is the      *)
(* column that is called n there.                                          *)
Told(t, stored) ==
    /\ \A o \in Entries(t) :
          ~IsFake(o) =>
             /\ o \notin Range(t.unsynced) => stored[t.name[o]] = o
             /\ t.old[o] # NoName => o \in Range(t.unsynced) /\ stored[t.old[o]] = o
    /\ \A o \in Range(t.unsynced) : o \in Entries(t) \/ Kind(o) = "index"

(* The variables.                                                          *)
Targets == [o \in Version |-> IF IsFake(o) THEN Target(o) ELSE NoColumn]

(* What a declaration was made on is there as long as the declaration.     *)
Declared(i, target) ==
    \A n \in Name :
        i.named[n] # NoColumn /\ target[i.named[n]] # NoColumn =>
            \E m \in Name : i.named[m] = target[i.named[n]]

(* What a release may ask for when the table should be i.                  *)
Legal(i, c, target) ==
    \/ /\ c.do = "add" /\ c.name \in Name /\ i.named[c.name] = NoColumn
       /\ \/ c.kind \in {"plain", "special"}
          \/ /\ c.kind \in {"index", "constraint"}
             /\ c.on \in Name /\ i.named[c.on] # NoColumn
    \/ c.do = "alter" /\ c.name \in Name /\ i.named[c.name] # NoColumn
    \/ /\ c.do = "drop" /\ c.old \in Name /\ i.named[c.old] # NoColumn
       /\ \A m \in Name : i.named[m] # NoColumn => target[i.named[m]] # i.named[c.old]
    \/ /\ c.do = "rename" /\ c.old \in Name /\ c.name \in Name
       /\ i.named[c.old] # NoColumn /\ i.named[c.name] = NoColumn

TypeInv ==
    /\ latest \in Version
    /\ history \in [Version -> Change]
    /\ ideal \in [0 .. MaxVersion -> Ideals]
    /\ table \in Tables /\ table.version <= latest
    /\ db \in Databases
    /\ dbversion \in 0 .. latest

(* The migrations of a release are legal one after the other.              *)
ReleasesInv ==
    /\ \A v \in 0 .. MaxVersion : \A n \in Name : ideal[v].named[n] <= v
    /\ \A o \in Version : IsFake(o) => history[o].on \in Name /\ Targets[o] # NoColumn
    /\ \A v \in 0 .. latest : Declared(ideal[v], Targets)
    /\ \A v \in 1 .. latest :
          /\ Legal(ideal[v - 1], history[v], Targets)
          /\ ideal[v] = Meant(ideal[v - 1], v, history[v])

TableInv ==
    /\ IsMeant(table, ideal[table.version])
    /\ Unambiguous(table)
    /\ Follow(table, Targets)
    /\ Recorded(table, table.version)

(* Once the table is known to be created, its records tell what the        *)
(* database has.                                                           *)
DatabaseInv ==
    table.created => table.version >= dbversion /\ Told(table, ideal[dbversion].named)

IInv == TypeInv /\ ReleasesInv /\ TableInv /\ DatabaseInv

-----------------------------------------------------------------------------
(* The fields of a table.                                                  *)
LEMMA Fields ==
    ASSUME NEW t \in Tables
    PROVE  /\ t.version \in 0 .. MaxVersion
           /\ t.created \in BOOLEAN
           /\ t.flags \subseteq Flags
           /\ t.name \in [Version -> Name \cup {NoName}]
           /\ t.old \in [Version -> Name \cup {NoName}]
           /\ t.defined \in [Version -> 0 .. MaxVersion]
           /\ t.on \in [Version -> Name \cup {NoName}]
           /\ t.unsynced \in Seq(Version)
           /\ t.reentry \in Seq(Records)
           /\ DOMAIN t.reentry = 1 .. Len(t.reentry)
           /\ DOMAIN t.unsynced = 1 .. Len(t.unsynced)
           /\ Len(t.reentry) \in Nat /\ Len(t.unsynced) \in Nat
           /\ \A i \in DOMAIN t.reentry : t.reentry[i] \in Records
           /\ Range(t.unsynced) \subseteq Version
           /\ Entries(t) \subseteq Version
<1>1. /\ t.version \in 0 .. MaxVersion
      /\ t.created \in BOOLEAN
      /\ t.flags \subseteq Flags
      /\ t.name \in [Version -> Name \cup {NoName}]
      /\ t.old \in [Version -> Name \cup {NoName}]
      /\ t.defined \in [Version -> 0 .. MaxVersion]
      /\ t.on \in [Version -> Name \cup {NoName}]
      /\ t.unsynced \in Seq(Version)
      /\ t.reentry \in Seq(Records)
  BY DEF Tables
<1>2. /\ DOMAIN t.reentry = 1 .. Len(t.reentry)
      /\ DOMAIN t.unsynced = 1 .. Len(t.unsynced)
      /\ Len(t.reentry) \in Nat /\ Len(t.unsynced) \in Nat
      /\ \A i \in DOMAIN t.reentry : t.reentry[i] \in Records
      /\ \A i \in DOMAIN t.unsynced : t.unsynced[i] \in Version
  BY <1>1
<1> QED BY <1>1, <1>2 DEF Range, Entries

LEMMA IsTracedIf ==
    ASSUME NEW t, NEW n
    PROVE  IsTraced(t, n) <=> \E i \in DOMAIN t.reentry : t.reentry[i].old = n
  BY DEF IsTraced, Hits

(* Tracing a name that leads to a column yields its name.                  *)
LEMMA ResolveLeads ==
    ASSUME NEW t \in Tables, NEW f, NEW p \in Version,
           Unambiguous(t), Leads(t, f, p), p \in Entries(t)
    PROVE  Resolve(t, f) = t.name[p]
<1>1. CASE ~IsTraced(t, f) /\ f = t.name[p]
  BY <1>1 DEF Resolve
<1>2. CASE \E i \in DOMAIN t.reentry :
              /\ t.reentry[i].old = f
              /\ t.reentry[i].kind = "renamed"
              /\ t.reentry[i].column = p
  <2>1. PICK i \in DOMAIN t.reentry :
              /\ t.reentry[i].old = f
              /\ t.reentry[i].kind = "renamed"
              /\ t.reentry[i].column = p
    BY <1>2
  <2>2. Hits(t, f) = {i}
    BY <2>1 DEF Hits, Unambiguous
  <2>3. i \in Nat
    BY Fields
  <2>4. FirstOf({i}) = i
    BY <2>3 DEF FirstOf
  <2>5. TracedName(t, f) = t.name[p]
    BY <2>1, <2>2, <2>4 DEF TracedName
  <2> QED BY <2>2, <2>5 DEF Resolve, IsTraced, Entries
<1> QED BY <1>1, <1>2 DEF Leads

-----------------------------------------------------------------------------
(* What becomes of the records when names are traced and reused.           *)

(* A set of indices has a first one.                                       *)
LEMMA FirstOfIsLeast ==
    ASSUME NEW T, T \subseteq Nat, T # {}
    PROVE  FirstOf(T) \in T /\ \A j \in T : FirstOf(T) <= j
<1>1. \E i \in T : \A j \in T : i <= j
  BY Least
<1> QED BY <1>1, Zenon DEF FirstOf

LEMMA FirstOfIndices ==
    ASSUME NEW T, T \subseteq Nat, T # {}
    PROVE  FirstOf(T) \in T
  BY FirstOfIsLeast

LEMMA ResolveType ==
    ASSUME NEW t \in Tables, NEW n \in Name \cup {NoName}
    PROVE  Resolve(t, n) \in Name \cup {NoName}
<1>1. SUFFICES ASSUME IsTraced(t, n) PROVE TracedName(t, n) \in Name \cup {NoName}
  BY DEF Resolve
<1> DEFINE hit == t.reentry[FirstOf(Hits(t, n))]
           renamings == {i \in DOMAIN t.reentry :
                           t.reentry[i].kind = "renamed" /\ t.reentry[i].column = hit.column}
<1>2. DOMAIN t.reentry \subseteq Nat /\ t.name \in [Version -> Name \cup {NoName}]
      /\ \A i \in DOMAIN t.reentry : t.reentry[i] \in Records
  BY Fields
<1>3. FirstOf(Hits(t, n)) \in DOMAIN t.reentry
  BY <1>1, <1>2, FirstOfIndices DEF IsTraced, Hits
<1>4. hit \in Records
  BY <1>2, <1>3
<1>5. hit.column \in Version /\ hit.kind \in {"renamed", "dropped"}
  BY <1>4 DEF Records
<1>6. CASE hit.kind = "renamed"
  <2>1. TracedName(t, n) = t.name[hit.column]
    BY <1>6 DEF TracedName
  <2> QED BY <2>1, <1>2, <1>5
<1>7. CASE hit.kind = "dropped" /\ renamings = {}
  <2>1. TracedName(t, n) = NoName
    BY <1>7 DEF TracedName
  <2> QED BY <2>1
<1>8. CASE hit.kind = "dropped" /\ renamings # {}
  <2>1. TracedName(t, n) = t.reentry[FirstOf(renamings)].name
    BY <1>8 DEF TracedName
  <2>2. renamings \subseteq Nat /\ renamings \subseteq DOMAIN t.reentry
    BY <1>2
  <2>3. FirstOf(renamings) \in renamings
    BY <1>8, <2>2, FirstOfIndices
  <2>4. t.reentry[FirstOf(renamings)] \in Records
    BY <1>2, <2>2, <2>3
  <2>5. t.reentry[FirstOf(renamings)].name \in Name \cup {NoName}
    BY <2>4 DEF Records
  <2> QED BY <2>1, <2>5
<1> QED BY <1>5, <1>6, <1>7, <1>8

(* What stays as it is when names are traced.                              *)
SameColumns(t, r) ==
    /\ r \in Tables
    /\ r.version = t.version /\ r.created = t.created /\ r.flags = t.flags
    /\ r.name = t.name /\ r.old = t.old /\ r.defined = t.defined
    /\ r.unsynced = t.unsynced

(* Tracing changes the names of declarations and nothing else, and leaves  *)
(* every one of them with the present name of its column.                  *)
LEMMA TraceNameKeeps ==
    ASSUME NEW t \in Tables, NEW target, Unambiguous(t), Follow(t, target)
    PROVE  /\ SameColumns(t, TraceName(t)) /\ TraceName(t).reentry = t.reentry
           /\ \A o, p \in Version :
                 o \in Entries(t) /\ p \in Entries(t) /\ target[o] = p =>
                    TraceName(t).on[o] = t.name[p]
<1> DEFINE traced == [o \in Version |->
                IF o \in Entries(t) THEN Resolve(t, t.on[o]) ELSE t.on[o]]
           r == TraceName(t)
<1>1. /\ r.version = t.version /\ r.created = t.created /\ r.flags = t.flags
      /\ r.name = t.name /\ r.old = t.old /\ r.defined = t.defined
      /\ r.unsynced = t.unsynced /\ r.reentry = t.reentry
      /\ r.on = traced
  BY DEF TraceName, Tables
<1>2. traced \in [Version -> Name \cup {NoName}]
  <2>1. t.on \in [Version -> Name \cup {NoName}]
    BY Fields
  <2>2. ASSUME NEW o \in Version PROVE traced[o] \in Name \cup {NoName}
    <3>1. t.on[o] \in Name \cup {NoName}
      BY <2>1
    <3>2. Resolve(t, t.on[o]) \in Name \cup {NoName}
      BY <3>1, ResolveType
    <3> QED BY <3>1, <3>2
  <2> QED BY <2>2
<1>3. r \in Tables
  <2>1. r = [t EXCEPT !.on = traced]
    BY DEF TraceName
  <2> HIDE DEF traced, r
  <2> QED BY <1>2, <2>1 DEF Tables
<1>4. ASSUME NEW o \in Version, NEW p \in Version,
             o \in Entries(t), p \in Entries(t), target[o] = p
      PROVE  r.on[o] = t.name[p]
  <2>1. Leads(t, t.on[o], p)
    BY <1>4 DEF Follow
  <2>2. Resolve(t, t.on[o]) = t.name[p]
    BY <2>1, <1>4, ResolveLeads
  <2> QED BY <1>1, <1>4, <2>2
<1> QED BY <1>1, <1>3, <1>4 DEF SameColumns

(* So it keeps the records of what was traced good.                        *)
LEMMA TraceNameFollows ==
    ASSUME NEW t \in Tables, NEW target, Unambiguous(t), Follow(t, target)
    PROVE  Unambiguous(TraceName(t)) /\ Follow(TraceName(t), target)
<1> DEFINE r == TraceName(t)
<1>1. /\ r.name = t.name /\ r.reentry = t.reentry
      /\ \A o, p \in Version :
            o \in Entries(t) /\ p \in Entries(t) /\ target[o] = p => r.on[o] = t.name[p]
  BY TraceNameKeeps DEF SameColumns
<1> HIDE DEF r
<1>2. Unambiguous(r)
  BY <1>1 DEF Unambiguous, Entries, IsTraced, Hits
<1>3. Follow(r, target)
  BY <1>1 DEF Unambiguous, Follow, Leads, Entries, IsTraced, Hits
<1> QED BY <1>2, <1>3 DEF r

(* After its name is reused nothing is traced to it, and all else holds.   *)
LEMMA ReuseNameKeeps ==
    ASSUME NEW t \in Tables, NEW target, NEW n, Unambiguous(t), Follow(t, target)
    PROVE  /\ SameColumns(t, ReuseName(t, n))
           /\ Unambiguous(ReuseName(t, n))
           /\ Follow(ReuseName(t, n), target)
           /\ ~IsTraced(ReuseName(t, n), n)
<1>1. CASE ~IsTraced(t, n)
  BY <1>1 DEF ReuseName, SameColumns
<1>2. CASE IsTraced(t, n)
  <2> DEFINE traced == TraceName(t)
             r == EraseReentry(traced)
  <2>1. ReuseName(t, n) = r
    BY <1>2 DEF ReuseName
  <2>2. /\ SameColumns(t, traced)
        /\ \A o, p \in Version :
              o \in Entries(t) /\ p \in Entries(t) /\ target[o] = p => traced.on[o] = t.name[p]
    BY TraceNameKeeps
  <2> HIDE DEF traced
  <2>3. /\ r.version = traced.version /\ r.created = traced.created /\ r.flags = traced.flags
        /\ r.name = traced.name /\ r.old = traced.old /\ r.defined = traced.defined
        /\ r.unsynced = traced.unsynced /\ r.on = traced.on /\ r.reentry = <<>>
    BY <2>2 DEF EraseReentry, Tables, SameColumns
  <2>4. r \in Tables
    <3>1. r = [traced EXCEPT !.reentry = <<>>] /\ <<>> \in Seq(Records)
      BY DEF EraseReentry
    <3> HIDE DEF r
    <3> QED BY <2>2, <3>1 DEF Tables, SameColumns
  <2> HIDE DEF r
  <2>5. \A m : ~IsTraced(r, m)
    BY <2>3 DEF IsTraced, Hits
  <2>6. Unambiguous(r)
    BY <2>3, <2>5 DEF Unambiguous
  <2>7. Follow(r, target)
    BY <2>2, <2>3, <2>5 DEF Follow, Leads, Entries, SameColumns
  <2>8. SameColumns(t, r)
    BY <2>2, <2>3, <2>4 DEF SameColumns
  <2> QED BY <2>1, <2>5, <2>6, <2>7, <2>8
<1> QED BY <1>1, <1>2

(* A record in front: what it adds to what is traced.                      *)
InFront(t, q, x) ==
    /\ \A n : IsTraced(q, n) <=> n = x.old \/ IsTraced(t, n)
    /\ \A i, j \in DOMAIN q.reentry : q.reentry[i].old = q.reentry[j].old => i = j
    /\ \A i \in DOMAIN t.reentry : \E j \in DOMAIN q.reentry : q.reentry[j] = t.reentry[i]
    /\ \E j \in DOMAIN q.reentry : q.reentry[j] = x

LEMMA RecordInFront ==
    ASSUME NEW t \in Tables, NEW q \in Tables, NEW x \in Records,
           q.reentry = <<x>> \o t.reentry, Unambiguous(t), ~IsTraced(t, x.old)
    PROVE  InFront(t, q, x)
<1>1. /\ t.reentry \in Seq(Records) /\ Len(t.reentry) \in Nat
      /\ DOMAIN t.reentry = 1 .. Len(t.reentry)
  BY Fields
<1>2. /\ DOMAIN q.reentry = 1 .. Len(t.reentry) + 1
      /\ q.reentry[1] = x
      /\ \A i \in 1 .. Len(t.reentry) : q.reentry[i + 1] = t.reentry[i]
      /\ \A i \in 2 .. Len(t.reentry) + 1 :
            q.reentry[i] = t.reentry[i - 1] /\ i - 1 \in 1 .. Len(t.reentry)
  BY <1>1, Prepended
<1>3. \A i \in DOMAIN t.reentry : \E j \in DOMAIN q.reentry : q.reentry[j] = t.reentry[i]
  <2> TAKE i \in DOMAIN t.reentry
  <2>1. i + 1 \in DOMAIN q.reentry /\ q.reentry[i + 1] = t.reentry[i]
    BY <1>1, <1>2
  <2> QED BY <2>1
<1>4. \E j \in DOMAIN q.reentry : q.reentry[j] = x
  <2>1. 1 \in DOMAIN q.reentry
    BY <1>1, <1>2
  <2> QED BY <1>2, <2>1
<1>5. ASSUME NEW j \in DOMAIN q.reentry
      PROVE  \/ j = 1 /\ q.reentry[j] = x
             \/ j - 1 \in DOMAIN t.reentry /\ q.reentry[j] = t.reentry[j - 1]
  <2>1. CASE j = 1
    BY <1>2, <2>1
  <2>2. CASE j # 1
    <3>1. j \in 2 .. Len(t.reentry) + 1
      BY <1>1, <1>2, <2>2
    <3> QED BY <1>1, <1>2, <3>1
  <2> QED BY <2>1, <2>2
<1>6. ASSUME NEW n PROVE IsTraced(q, n) <=> n = x.old \/ IsTraced(t, n)
  <2>1. /\ IsTraced(q, n) <=> \E i \in DOMAIN q.reentry : q.reentry[i].old = n
        /\ IsTraced(t, n) <=> \E i \in DOMAIN t.reentry : t.reentry[i].old = n
    BY IsTracedIf
  <2> QED BY <1>3, <1>4, <1>5, <2>1
<1>7. ASSUME NEW i \in DOMAIN q.reentry, NEW j \in DOMAIN q.reentry,
             q.reentry[i].old = q.reentry[j].old
      PROVE  i = j
  <2>1. \A k \in DOMAIN t.reentry : t.reentry[k].old # x.old
    BY IsTracedIf
  <2>2. i \in Int /\ j \in Int
    BY <1>1, <1>2
  <2>3. CASE i = 1 \/ j = 1
    BY <1>5, <1>7, <2>1, <2>3
  <2>4. CASE i # 1 /\ j # 1
    <3>1. /\ i - 1 \in DOMAIN t.reentry /\ q.reentry[i] = t.reentry[i - 1]
          /\ j - 1 \in DOMAIN t.reentry /\ q.reentry[j] = t.reentry[j - 1]
      BY <1>5, <2>4
    <3>2. i - 1 = j - 1
      BY <1>7, <3>1 DEF Unambiguous
    <3> QED BY <2>2, <3>2
  <2> QED BY <2>3, <2>4
<1> QED BY <1>3, <1>4, <1>6, <1>7 DEF InFront

-----------------------------------------------------------------------------
(* The list of what is on record for the database.                         *)

LEMMA PendingIs ==
    ASSUME NEW t \in Tables, NEW o
    PROVE  IsPending(t, o) <=> o \in Range(t.unsynced)
<1>1. DOMAIN t.unsynced = 1 .. Len(t.unsynced)
  BY Fields
<1> QED BY <1>1 DEF IsPending, Contains, Range

LEMMA RemoveAtIs ==
    ASSUME NEW S, NEW q \in Seq(S), NEW k \in 1 .. Len(q)
    PROVE  /\ RemoveAt(q, k) \in Seq(S)
           /\ Len(RemoveAt(q, k)) = Len(q) - 1
           /\ \A i \in 1 .. Len(q) - 1 : RemoveAt(q, k)[i] = IF i < k THEN q[i] ELSE q[i + 1]
<1> DEFINE a == SubSeq(q, 1, k - 1)
           b == SubSeq(q, k + 1, Len(q))
<1>1. k \in Nat /\ Len(q) \in Nat /\ 1 <= k /\ k <= Len(q)
  OBVIOUS
<1>2. a \in Seq(S) /\ Len(a) = k - 1 /\ \A i \in 1 .. k - 1 : a[i] = q[i]
  BY <1>1
<1>3. b \in Seq(S) /\ Len(b) = Len(q) - k /\ \A i \in 1 .. Len(q) - k : b[i] = q[k + i]
  BY <1>1
<1>4. RemoveAt(q, k) = a \o b
  BY DEF RemoveAt
<1> HIDE DEF a, b
<1>5. /\ a \o b \in Seq(S) /\ Len(a \o b) = Len(q) - 1
      /\ \A i \in 1 .. Len(q) - 1 : (a \o b)[i] = IF i < k THEN a[i] ELSE b[i - (k - 1)]
  <2>1. a \in Seq(S) /\ b \in Seq(S)
    BY <1>2, <1>3
  <2>2. a \o b \in Seq(S) /\ Len(a \o b) = Len(a) + Len(b)
    BY <2>1
  <2>3. \A i \in 1 .. Len(a) + Len(b) :
           (a \o b)[i] = IF i <= Len(a) THEN a[i] ELSE b[i - Len(a)]
    BY <2>1
  <2>4. Len(a) = k - 1 /\ Len(a) + Len(b) = Len(q) - 1
    BY <1>1, <1>2, <1>3
  <2>5. \A i \in 1 .. Len(q) - 1 : i <= k - 1 <=> i < k
    BY <1>1
  <2> QED BY <2>2, <2>3, <2>4, <2>5
<1>6. \A i \in 1 .. Len(q) - 1 :
         IF i < k THEN a[i] = q[i] ELSE b[i - (k - 1)] = q[i + 1]
  <2> SUFFICES ASSUME NEW i \in 1 .. Len(q) - 1, ~(i < k) PROVE b[i - (k - 1)] = q[i + 1]
    BY <1>1, <1>2
  <2>1. i - (k - 1) \in 1 .. Len(q) - k /\ k + (i - (k - 1)) = i + 1
    BY <1>1
  <2> QED BY <1>3, <2>1
<1> QED BY <1>4, <1>5, <1>6

(* What is in r is in q, in the same order.                                *)
KeepsOrder(q, r) ==
    \A i, j \in DOMAIN r :
        i < j => \E k, l \in DOMAIN q : k < l /\ q[k] = r[i] /\ q[l] = r[j]

(* What is removed from a list that has it once is gone, and nothing else; *)
(* what is left keeps its order.                                           *)
LEMMA RemoveFirstIs ==
    ASSUME NEW S, NEW q \in Seq(S), NEW e, IsInjective(q)
    PROVE  /\ RemoveFirst(q, e) \in Seq(S)
           /\ IsInjective(RemoveFirst(q, e))
           /\ Range(RemoveFirst(q, e)) = Range(q) \ {e}
           /\ KeepsOrder(q, RemoveFirst(q, e))
<1> DEFINE I == {i \in 1 .. Len(q) : q[i] = e}
           k == FirstOf(I)
           r == RemoveAt(q, k)
<1>1. DOMAIN q = 1 .. Len(q) /\ Len(q) \in Nat
  OBVIOUS
<1>2. CASE I = {}
  <2>1. RemoveFirst(q, e) = q
    BY <1>2 DEF RemoveFirst
  <2>2. e \notin Range(q)
    BY <1>1, <1>2 DEF Range
  <2>3. KeepsOrder(q, q)
    BY DEF KeepsOrder
  <2> QED BY <2>1, <2>2, <2>3
<1>3. CASE I # {}
  <2>1. SelectInSeq(q, LAMBDA v : v = e) = k
    BY <1>3 DEF SelectInSeq, Min, FirstOf
  <2>2. RemoveFirst(q, e) = r
    BY <1>3, <2>1 DEF RemoveFirst
  <2>3. k \in I
    <3>1. I \subseteq Nat
      OBVIOUS
    <3> QED BY <1>3, <3>1, FirstOfIndices
  <2> HIDE DEF k
  <2>4. k \in 1 .. Len(q) /\ q[k] = e
    BY <2>3
  <2>5. /\ r \in Seq(S) /\ Len(r) = Len(q) - 1
        /\ \A i \in 1 .. Len(q) - 1 : r[i] = IF i < k THEN q[i] ELSE q[i + 1]
    BY <2>4, RemoveAtIs
  <2> HIDE DEF r
  <2>6. DOMAIN r = 1 .. Len(q) - 1
    BY <2>5
  <2> DEFINE at == [i \in 1 .. Len(q) - 1 |-> IF i < k THEN i ELSE i + 1]
  <2>7. \A i \in DOMAIN r : at[i] \in 1 .. Len(q) /\ at[i] # k /\ r[i] = q[at[i]]
    BY <1>1, <2>4, <2>5, <2>6
  <2>8. \A i, j \in DOMAIN r : at[i] = at[j] => i = j
    BY <1>1, <2>4, <2>6
  <2>9. \A i \in 1 .. Len(q) : i # k => \E j \in DOMAIN r : at[j] = i
    <3> SUFFICES ASSUME NEW i \in 1 .. Len(q), i # k
                 PROVE  \E j \in DOMAIN r : at[j] = i
      OBVIOUS
    <3>1. CASE i < k
      <4>1. i \in 1 .. Len(q) - 1 /\ at[i] = i
        BY <1>1, <2>4, <3>1
      <4> QED BY <2>6, <4>1
    <3>2. CASE i > k
      <4> DEFINE j == i - 1
      <4>1. j \in 1 .. Len(q) - 1 /\ ~(j < k) /\ j + 1 = i
        BY <1>1, <2>4, <3>2
      <4>2. at[j] = i
        BY <4>1
      <4>3. j \in DOMAIN r
        BY <2>6, <4>1
      <4> HIDE DEF j
      <4> QED BY <4>2, <4>3
    <3>3. i < k \/ i > k
      BY <1>1, <2>4
    <3> QED BY <3>1, <3>2, <3>3
  <2>10. KeepsOrder(q, r)
    <3>1. ASSUME NEW i \in DOMAIN r, NEW j \in DOMAIN r, i < j PROVE at[i] < at[j]
      BY <1>1, <2>4, <2>6, <3>1
    <3> HIDE DEF at
    <3> QED BY <1>1, <2>7, <3>1 DEF KeepsOrder
  <2> HIDE DEF at
  <2>11. \A i, j \in 1 .. Len(q) : q[i] = q[j] => i = j
    BY <1>1 DEF IsInjective
  <2>12. IsInjective(r)
    BY <2>7, <2>8, <2>11 DEF IsInjective
  <2>13. Range(r) = Range(q) \ {e}
    <3>1. ASSUME NEW y \in Range(r) PROVE y \in Range(q) \ {e}
      BY <1>1, <2>4, <2>7, <2>11, <3>1 DEF Range
    <3>2. ASSUME NEW y \in Range(q) \ {e} PROVE y \in Range(r)
      <4>1. PICK i \in 1 .. Len(q) : y = q[i]
        BY <1>1, <3>2 DEF Range
      <4>2. i # k
        BY <2>4, <3>2, <4>1
      <4>3. PICK j \in DOMAIN r : at[j] = i
        BY <2>9, <4>2
      <4> QED BY <2>7, <4>1, <4>3 DEF Range
    <3> QED BY <3>1, <3>2
  <2> QED BY <2>2, <2>5, <2>12, <2>13, <2>10
<1> QED BY <1>2, <1>3

-----------------------------------------------------------------------------
(* Renaming a column.                                                      *)

(* The fields of the table q in which column p is renamed to n, given the  *)
(* table r in which that name was reused.                                  *)
IsRenamed(t, r, q, p, n) ==
    LET first == t.created /\ p \notin Range(t.unsynced)
    IN  /\ q \in Tables
        /\ q.version = t.version /\ q.created = t.created
        /\ q.name = [t.name EXCEPT ![p] = n]
        /\ q.old = [t.old EXCEPT ![p] =
                       IF first /\ t.old[p] = NoName THEN t.name[p] ELSE t.old[p]]
        /\ q.defined = t.defined
        /\ q.on = r.on
        /\ q.reentry = <<Record("renamed", p, t.name[p], n)>> \o r.reentry
        /\ q.unsynced = IF first THEN <<p>> \o t.unsynced ELSE t.unsynced
        /\ q.flags = t.flags \cup {"RENAMED"}

LEMMA RenameFields ==
    ASSUME NEW t \in Tables, NEW target, NEW p \in Version, NEW n \in Name,
           Unambiguous(t), Follow(t, target), t.name[p] \in Name
    PROVE  IsRenamed(t, ReuseName(t, n), Rename(t, p, n), p, n)
<1> DEFINE r == ReuseName(t, n)
           q == Rename(t, p, n)
           first == t.created /\ p \notin Range(t.unsynced)
           old == IF first /\ t.old[p] = NoName THEN t.name[p] ELSE t.old[p]
           x == Record("renamed", p, t.name[p], n)
           unsynced == IF first THEN <<p>> \o t.unsynced ELSE t.unsynced
           flags == t.flags \cup {"RENAMED"}
<1>1. SameColumns(t, r)
  BY ReuseNameKeeps
<1>2. IsPending(r, p) <=> p \in Range(t.unsynced)
  BY <1>1, PendingIs DEF SameColumns
<1>3. q = [r EXCEPT !.name[p] = n, !.old[p] = old, !.reentry = <<x>> \o r.reentry,
                    !.unsynced = unsynced, !.flags = flags]
  BY <1>1, <1>2 DEF Rename, AddUnsynced, SameColumns
<1>4. old \in Name \cup {NoName} /\ flags \subseteq Flags
  BY Fields DEF Flags
<1>5. <<x>> \o r.reentry \in Seq(Records)
  <2>1. x \in Records /\ r.reentry \in Seq(Records)
    BY <1>1, Fields DEF Record, Records, SameColumns
  <2> QED BY <2>1, Prepended
<1>6. unsynced \in Seq(Version)
  BY Fields, Prepended
<1> HIDE DEF r, q, old, x, unsynced, flags
<1>7. /\ q.version = r.version /\ q.created = r.created /\ q.name = [r.name EXCEPT ![p] = n]
      /\ q.old = [r.old EXCEPT ![p] = old] /\ q.defined = r.defined
      /\ q.on = r.on /\ q.reentry = <<x>> \o r.reentry
      /\ q.unsynced = unsynced /\ q.flags = flags
  BY <1>1, <1>3 DEF Tables, SameColumns
<1>8. q \in Tables
  <2>1. /\ [r.name EXCEPT ![p] = n] \in [Version -> Name \cup {NoName}]
        /\ [r.old EXCEPT ![p] = old] \in [Version -> Name \cup {NoName}]
    BY <1>1, <1>4, Fields DEF SameColumns
  <2> QED BY <1>1, <1>3, <1>4, <1>5, <1>6, <2>1 DEF Tables, SameColumns
<1>9. IsRenamed(t, r, q, p, n)
  BY <1>1, <1>7, <1>8 DEF IsRenamed, SameColumns, old, x, unsynced, flags
<1> QED BY <1>9 DEF r, q

(* No two columns have one name.                                           *)
OneEach(t) == \A o, p \in Version : t.name[o] = t.name[p] /\ o \in Entries(t) => o = p

(* The new name is nobody's: what is traced stays unambiguous, and every   *)
(* name that led to a column still does.                                   *)
LEMMA RenameTraces ==
    ASSUME NEW t \in Tables, NEW target, NEW p \in Version, NEW n \in Name,
           Unambiguous(t), Follow(t, target), t.name[p] \in Name, OneEach(t),
           \A o \in Version : t.name[o] # n
    PROVE  Unambiguous(Rename(t, p, n)) /\ Follow(Rename(t, p, n), target)
<1> DEFINE r == ReuseName(t, n)
           q == Rename(t, p, n)
           x == Record("renamed", p, t.name[p], n)
<1>1. /\ r \in Tables /\ r.name = t.name /\ Unambiguous(r) /\ Follow(r, target)
      /\ ~IsTraced(r, n)
  BY ReuseNameKeeps DEF SameColumns
<1>2. /\ q \in Tables /\ q.name = [t.name EXCEPT ![p] = n] /\ q.on = r.on
      /\ q.reentry = <<x>> \o r.reentry
  <2>1. IsRenamed(t, r, q, p, n)
    BY RenameFields
  <2> QED BY <2>1 DEF IsRenamed
<1>3. /\ x \in Records /\ x.old = t.name[p] /\ x.kind = "renamed" /\ x.column = p
  BY DEF Record, Records
<1> HIDE DEF r, q, x
<1>4. t.name \in [Version -> Name \cup {NoName}] /\ NoName \notin Name
  BY Fields, NameAssumption
<1>5. \A o \in Version : q.name[o] = IF o = p THEN n ELSE t.name[o]
  BY <1>2, <1>4
<1>6. /\ \A o \in Version : o \in Entries(q) <=> o \in Entries(t)
      /\ \A o \in Version : o \in Entries(r) <=> o \in Entries(t)
      /\ Entries(q) \subseteq Version
  BY <1>1, <1>4, <1>5 DEF Entries
<1>7. ~IsTraced(r, x.old)
  BY <1>1, <1>3, <1>4 DEF Unambiguous, Entries
<1>8. InFront(r, q, x)
  <2>1. r \in Tables /\ q \in Tables /\ x \in Records /\ Unambiguous(r)
        /\ q.reentry = <<x>> \o r.reentry /\ ~IsTraced(r, x.old)
    BY <1>1, <1>2, <1>3, <1>7
  <2> QED BY <2>1, RecordInFront
<1>9. ASSUME NEW o \in Entries(q) PROVE ~IsTraced(q, q.name[o])
  <2>1. CASE o = p
    BY <1>1, <1>3, <1>5, <1>8, <2>1 DEF InFront
  <2>2. CASE o # p
    <3>1. o \in Version /\ q.name[o] = t.name[o] /\ o \in Entries(r) /\ o \in Entries(t)
      BY <1>1, <1>5, <1>6, <1>9, <2>2
    <3>2. t.name[o] # t.name[p]
      BY <2>2, <3>1 DEF OneEach
    <3> QED BY <1>1, <1>3, <1>8, <3>1, <3>2 DEF Unambiguous, InFront
  <2> QED BY <2>1, <2>2
<1>10. Unambiguous(q)
  BY <1>8, <1>9 DEF Unambiguous, InFront
<1>11. ASSUME NEW o \in Version, NEW u \in Version,
              o \in Entries(q), u \in Entries(q), target[o] = u
       PROVE  Leads(q, q.on[o], u)
  <2> DEFINE f == r.on[o]
  <2> SUFFICES Leads(q, f, u)
    BY <1>2
  <2>1. Leads(r, f, u) /\ u \in Entries(t)
    BY <1>1, <1>6, <1>11 DEF Follow
  <2> HIDE DEF f
  <2>2. CASE ~IsTraced(r, f) /\ f = r.name[u] /\ u = p
    BY <1>1, <1>3, <1>8, <2>2 DEF Leads, InFront
  <2>3. CASE ~IsTraced(r, f) /\ f = r.name[u] /\ u # p
    <3>1. f = q.name[u] /\ f # t.name[p]
      BY <1>1, <1>5, <2>1, <2>3 DEF OneEach
    <3> QED BY <1>3, <1>8, <2>3, <3>1 DEF Leads, InFront
  <2>4. CASE \E i \in DOMAIN r.reentry :
                r.reentry[i].old = f /\ r.reentry[i].kind = "renamed" /\ r.reentry[i].column = u
    BY <1>8, <2>4 DEF Leads, InFront
  <2> QED BY <2>1, <2>2, <2>3, <2>4 DEF Leads, InFront
<1> QED BY <1>10, <1>11 DEF Follow, q

(* The database will be told of the last name; the record keeps the one it *)
(* has.                                                                    *)
LEMMA RenameTells ==
    ASSUME NEW t \in Tables, NEW r, NEW q, NEW p \in Version, NEW n \in Name,
           IsRenamed(t, r, q, p, n), t.name[p] \in Name, NEW v, Recorded(t, v), p <= v
    PROVE  Recorded(q, v) /\ \A stored : t.created /\ Told(t, stored) => Told(q, stored)
<1> DEFINE first == t.created /\ p \notin Range(t.unsynced)
<1>1. /\ q \in Tables /\ q.created = t.created
      /\ q.name = [t.name EXCEPT ![p] = n]
      /\ q.old = [t.old EXCEPT ![p] =
                    IF first /\ t.old[p] = NoName THEN t.name[p] ELSE t.old[p]]
      /\ q.unsynced = IF first THEN <<p>> \o t.unsynced ELSE t.unsynced
  BY DEF IsRenamed
<1>2. /\ t.name \in [Version -> Name \cup {NoName}] /\ NoName \notin Name
      /\ t.old \in [Version -> Name \cup {NoName}]
      /\ t.unsynced \in Seq(Version)
  BY Fields, NameAssumption
<1>3. \A o \in Version :
         /\ q.name[o] = IF o = p THEN n ELSE t.name[o]
         /\ q.old[o] = IF o = p /\ first /\ t.old[p] = NoName THEN t.name[p] ELSE t.old[o]
  BY <1>1, <1>2
<1>4. \A o : o \in Entries(q) <=> o \in Entries(t)
  BY <1>2, <1>3 DEF Entries
<1>5. /\ Range(q.unsynced) = IF first THEN Range(t.unsynced) \cup {p} ELSE Range(t.unsynced)
      /\ IsInjective(q.unsynced)
  <2>1. CASE first
    <3>1. p \notin Range(t.unsynced) /\ q.unsynced = <<p>> \o t.unsynced
          /\ IsInjective(t.unsynced)
      BY <1>1, <2>1 DEF Recorded
    <3>2. Range(q.unsynced) = Range(t.unsynced) \cup {p} /\ IsInjective(q.unsynced)
      BY <1>2, <3>1, PrependRange, PrependOnce
    <3> QED BY <2>1, <3>2
  <2>2. CASE ~first
    BY <1>1, <2>2 DEF Recorded
  <2> QED BY <2>1, <2>2
<1>6. Recorded(q, v)
  BY <1>3, <1>5 DEF Recorded
<1>7. ASSUME NEW stored, t.created, Told(t, stored) PROVE Told(q, stored)
  <2>1. p \in Range(q.unsynced) /\ p \in Entries(t)
    BY <1>2, <1>5, <1>7 DEF Entries
  <2>2. ASSUME NEW o \in Entries(q), ~IsFake(o)
        PROVE  /\ o \notin Range(q.unsynced) => stored[q.name[o]] = o
               /\ q.old[o] # NoName => o \in Range(q.unsynced) /\ stored[q.old[o]] = o
    <3>1. /\ o \in Version /\ o \in Entries(t)
          /\ o \notin Range(t.unsynced) => stored[t.name[o]] = o
          /\ t.old[o] # NoName => o \in Range(t.unsynced) /\ stored[t.old[o]] = o
      BY <1>4, <1>7, <2>2 DEF Told, Entries
    <3>2. CASE o # p
      BY <1>3, <1>5, <3>1, <3>2
    <3>3. CASE o = p
      BY <1>3, <1>5, <1>7, <2>1, <3>1, <3>3
    <3> QED BY <3>2, <3>3
  <2>3. \A o \in Range(q.unsynced) : o \in Entries(q) \/ Kind(o) = "index"
    BY <1>4, <1>5, <1>7, <2>1 DEF Told
  <2> QED BY <2>2, <2>3 DEF Told
<1> QED BY <1>6, <1>7

-----------------------------------------------------------------------------
(* Dropping a column, an index or a constraint.                            *)

(* The fields of the table q in which column p is dropped.                 *)
IsDropped(t, q, p) ==
    /\ q \in Tables
    /\ q.version = t.version /\ q.created = t.created
    /\ q.name = [t.name EXCEPT ![p] = NoName]
    /\ q.old = [t.old EXCEPT ![p] = t.name[p]]
    /\ q.defined = t.defined
    /\ q.on = t.on
    /\ q.reentry = IF t.old[p] = NoName
                   THEN <<Record("dropped", p, t.name[p], NoName)>> \o t.reentry
                   ELSE t.reentry
    /\ Range(q.unsynced) = IF Kind(p) = "index" THEN Range(t.unsynced) \cup {p}
                           ELSE Range(t.unsynced) \ {p}
    /\ IsInjective(q.unsynced)
    /\ Kind(p) = "index" => q.unsynced = <<p>> \o RemoveFirst(t.unsynced, p)
    /\ q.flags = IF Kind(p) = "index" THEN t.flags ELSE t.flags \cup {"DROPPED"}

LEMMA DropFields ==
    ASSUME NEW t \in Tables, NEW p \in Version, t.name[p] \in Name, IsInjective(t.unsynced)
    PROVE  IsDropped(t, Drop(t, p), p)
<1> DEFINE q == Drop(t, p)
           x == Record("dropped", p, t.name[p], NoName)
           reentry == IF t.old[p] = NoName THEN <<x>> \o t.reentry ELSE t.reentry
           others == RemoveFirst(t.unsynced, p)
           unsynced == IF Kind(p) = "index" THEN <<p>> \o others ELSE others
           flags == IF Kind(p) = "index" THEN t.flags ELSE t.flags \cup {"DROPPED"}
<1>1. q = [t EXCEPT !.name[p] = NoName, !.old[p] = t.name[p], !.reentry = reentry,
                    !.unsynced = unsynced, !.flags = flags]
  BY DEF Drop
<1>2. reentry \in Seq(Records) /\ flags \subseteq Flags
  <2>1. x \in Records /\ t.reentry \in Seq(Records)
    BY Fields DEF Record, Records
  <2>2. <<x>> \o t.reentry \in Seq(Records)
    BY <2>1, Prepended
  <2> QED BY <2>1, <2>2, Fields DEF Flags
<1>3. /\ others \in Seq(Version) /\ IsInjective(others)
      /\ Range(others) = Range(t.unsynced) \ {p}
  BY Fields, RemoveFirstIs
<1> HIDE DEF others
<1>4. /\ unsynced \in Seq(Version) /\ IsInjective(unsynced)
      /\ Range(unsynced) = IF Kind(p) = "index" THEN Range(t.unsynced) \cup {p}
                           ELSE Range(t.unsynced) \ {p}
  <2>1. p \notin Range(others)
    BY <1>3
  <2>2. /\ <<p>> \o others \in Seq(Version) /\ IsInjective(<<p>> \o others)
        /\ Range(<<p>> \o others) = Range(others) \cup {p}
    BY <1>3, <2>1, PrependRange, PrependOnce
  <2> QED BY <1>3, <2>2
<1> HIDE DEF q, reentry, unsynced, flags
<1>5. /\ q.version = t.version /\ q.created = t.created
      /\ q.name = [t.name EXCEPT ![p] = NoName]
      /\ q.old = [t.old EXCEPT ![p] = t.name[p]] /\ q.defined = t.defined
      /\ q.on = t.on /\ q.reentry = reentry /\ q.unsynced = unsynced /\ q.flags = flags
  BY <1>1 DEF Tables
<1>6. q \in Tables
  <2>1. /\ [t.name EXCEPT ![p] = NoName] \in [Version -> Name \cup {NoName}]
        /\ [t.old EXCEPT ![p] = t.name[p]] \in [Version -> Name \cup {NoName}]
    BY Fields
  <2> QED BY <1>1, <1>2, <1>4, <2>1 DEF Tables
<1>7. IsDropped(t, q, p)
  BY <1>4, <1>5, <1>6 DEF IsDropped, reentry, flags, unsynced, others
<1> QED BY <1>7 DEF q

(* Its name joins those that are traced; no other column is called so.     *)
LEMMA DropTraces ==
    ASSUME NEW t \in Tables, NEW q, NEW target, NEW p \in Version,
           Unambiguous(t), Follow(t, target), t.name[p] \in Name, OneEach(t),
           IsDropped(t, q, p)
    PROVE  Unambiguous(q) /\ Follow(q, target)
<1> DEFINE x == Record("dropped", p, t.name[p], NoName)
<1>1. /\ q \in Tables /\ q.name = [t.name EXCEPT ![p] = NoName] /\ q.on = t.on
      /\ q.reentry = IF t.old[p] = NoName THEN <<x>> \o t.reentry ELSE t.reentry
  BY DEF IsDropped
<1>2. /\ x \in Records /\ x.old = t.name[p]
  BY DEF Record, Records
<1> HIDE DEF x
<1>3. t.name \in [Version -> Name \cup {NoName}] /\ NoName \notin Name
  BY Fields, NameAssumption
<1>4. \A o \in Entries(q) :
         o \in Version /\ o \in Entries(t) /\ o # p /\ q.name[o] = t.name[o]
  BY <1>1, <1>3 DEF Entries
<1>5. \A o \in Entries(t) : o # p => t.name[o] # x.old
  BY <1>2 DEF OneEach, Entries
<1>6. CASE t.old[p] = NoName
  <2>1. ~IsTraced(t, x.old)
    BY <1>2, <1>3 DEF Unambiguous, Entries
  <2>2. InFront(t, q, x)
    <3>1. q.reentry = <<x>> \o t.reentry
      BY <1>1, <1>6
    <3> QED BY <1>1, <1>2, <2>1, <3>1, RecordInFront
  <2>3. Unambiguous(q)
    BY <1>4, <1>5, <2>2 DEF Unambiguous, InFront
  <2>4. ASSUME NEW o \in Version, NEW u \in Version,
               o \in Entries(q), u \in Entries(q), target[o] = u
        PROVE  Leads(q, q.on[o], u)
    <3> DEFINE f == t.on[o]
    <3> SUFFICES Leads(q, f, u)
      BY <1>1
    <3>1. Leads(t, f, u) /\ q.name[u] = t.name[u] /\ t.name[u] # x.old
      BY <1>4, <1>5, <2>4 DEF Follow
    <3> HIDE DEF f
    <3>2. CASE ~IsTraced(t, f) /\ f = t.name[u]
      BY <2>2, <3>1, <3>2 DEF Leads, InFront
    <3>3. CASE \E i \in DOMAIN t.reentry :
                  t.reentry[i].old = f /\ t.reentry[i].kind = "renamed" /\ t.reentry[i].column = u
      BY <2>2, <3>3 DEF Leads, InFront
    <3> QED BY <3>1, <3>2, <3>3 DEF Leads
  <2> QED BY <2>3, <2>4 DEF Follow
<1>7. CASE t.old[p] # NoName
  <2>1. q.reentry = t.reentry
    BY <1>1, <1>7
  <2>2. \A n : IsTraced(q, n) <=> IsTraced(t, n)
    BY <2>1 DEF IsTraced, Hits
  <2>3. Unambiguous(q)
    BY <1>4, <2>1, <2>2 DEF Unambiguous
  <2>4. ASSUME NEW o \in Version, NEW u \in Version,
               o \in Entries(q), u \in Entries(q), target[o] = u
        PROVE  Leads(q, q.on[o], u)
    <3>1. Leads(t, t.on[o], u) /\ q.on[o] = t.on[o] /\ q.name[u] = t.name[u]
      BY <1>1, <1>4, <2>4 DEF Follow
    <3> QED BY <2>1, <2>2, <3>1 DEF Leads
  <2> QED BY <2>3, <2>4 DEF Follow
<1> QED BY <1>6, <1>7

(* Nothing is left on record of a column that is gone.                     *)
LEMMA DropTells ==
    ASSUME NEW t \in Tables, NEW q, NEW p \in Version,
           IsDropped(t, q, p), t.name[p] \in Name, NEW v, Recorded(t, v), p <= v
    PROVE  Recorded(q, v) /\ \A stored : Told(t, stored) => Told(q, stored)
<1>1. /\ q \in Tables
      /\ q.name = [t.name EXCEPT ![p] = NoName]
      /\ q.old = [t.old EXCEPT ![p] = t.name[p]]
      /\ Range(q.unsynced) = IF Kind(p) = "index" THEN Range(t.unsynced) \cup {p}
                             ELSE Range(t.unsynced) \ {p}
      /\ IsInjective(q.unsynced)
  BY DEF IsDropped
<1>2. /\ t.name \in [Version -> Name \cup {NoName}] /\ NoName \notin Name
      /\ t.old \in [Version -> Name \cup {NoName}]
  BY Fields, NameAssumption
<1>3. \A o \in Version :
         /\ q.name[o] = IF o = p THEN NoName ELSE t.name[o]
         /\ q.old[o] = IF o = p THEN t.name[p] ELSE t.old[o]
  BY <1>1, <1>2
<1>4. \A o : o \in Entries(q) <=> o \in Entries(t) /\ o # p
  BY <1>2, <1>3 DEF Entries
<1>5. Recorded(q, v)
  BY <1>1, <1>3 DEF Recorded
<1>6. ASSUME NEW stored, Told(t, stored) PROVE Told(q, stored)
  <2>1. ASSUME NEW o \in Entries(q), ~IsFake(o)
        PROVE  /\ o \notin Range(q.unsynced) => stored[q.name[o]] = o
               /\ q.old[o] # NoName => o \in Range(q.unsynced) /\ stored[q.old[o]] = o
    <3>1. /\ o \in Version /\ o \in Entries(t) /\ o # p
          /\ o \notin Range(t.unsynced) => stored[t.name[o]] = o
          /\ t.old[o] # NoName => o \in Range(t.unsynced) /\ stored[t.old[o]] = o
      BY <1>4, <1>6, <2>1 DEF Told, Entries
    <3> QED BY <1>1, <1>3, <3>1
  <2>2. \A o \in Range(q.unsynced) : o \in Entries(q) \/ Kind(o) = "index"
    BY <1>1, <1>4, <1>6 DEF Told
  <2> QED BY <2>1, <2>2 DEF Told
<1> QED BY <1>5, <1>6

-----------------------------------------------------------------------------
(* Altering a column.                                                      *)

(* The fields of the table q in which column p is defined by version v.    *)
IsAltered(t, q, p, v) ==
    /\ q \in Tables
    /\ q.version = t.version /\ q.created = t.created
    /\ q.name = t.name
    /\ q.old = [t.old EXCEPT ![p] = NoName]
    /\ q.defined = [t.defined EXCEPT ![p] = v]
    /\ q.on = t.on
    /\ q.reentry = t.reentry
    /\ q.unsynced = t.unsynced
    /\ q.flags = t.flags \cup {"ALTERED"}

LEMMA AlterFields ==
    ASSUME NEW t \in Tables, NEW p \in Version, NEW v \in Version
    PROVE  IsAltered(t, Alter(t, p, v), p, v)
<1> DEFINE q == Alter(t, p, v)
           flags == t.flags \cup {"ALTERED"}
<1>1. q = [t EXCEPT !.defined[p] = v, !.old[p] = NoName, !.flags = flags]
  BY DEF Alter
<1>2. flags \subseteq Flags
  BY Fields DEF Flags
<1> HIDE DEF q, flags
<1>3. /\ q.version = t.version /\ q.created = t.created /\ q.name = t.name
      /\ q.old = [t.old EXCEPT ![p] = NoName] /\ q.defined = [t.defined EXCEPT ![p] = v]
      /\ q.on = t.on /\ q.reentry = t.reentry /\ q.unsynced = t.unsynced
      /\ q.flags = flags
  BY <1>1 DEF Tables
<1>4. q \in Tables
  <2>1. v \in 0 .. MaxVersion
    BY VersionAssumption DEF Version
  <2>2. /\ [t.defined EXCEPT ![p] = v] \in [Version -> 0 .. MaxVersion]
        /\ [t.old EXCEPT ![p] = NoName] \in [Version -> Name \cup {NoName}]
    BY <2>1, Fields
  <2> QED BY <1>1, <1>2, <2>2 DEF Tables
<1>5. IsAltered(t, q, p, v)
  BY <1>3, <1>4 DEF IsAltered, flags
<1> QED BY <1>5 DEF q

(* Neither a name nor a record changes; an old name less is not told.      *)
LEMMA AlterKeeps ==
    ASSUME NEW t \in Tables, NEW q, NEW target, NEW p \in Version, NEW w, NEW v,
           IsAltered(t, q, p, w), Unambiguous(t), Follow(t, target), Recorded(t, v)
    PROVE  /\ Unambiguous(q) /\ Follow(q, target) /\ Recorded(q, v)
           /\ \A stored : Told(t, stored) => Told(q, stored)
<1>1. /\ q.name = t.name /\ q.old = [t.old EXCEPT ![p] = NoName] /\ q.on = t.on
      /\ q.reentry = t.reentry /\ q.unsynced = t.unsynced
      /\ t.old \in [Version -> Name \cup {NoName}]
  BY Fields DEF IsAltered
<1>2. /\ \A n : IsTraced(q, n) <=> IsTraced(t, n)
      /\ Entries(q) = Entries(t)
      /\ \A o \in Version : q.old[o] = IF o = p THEN NoName ELSE t.old[o]
      /\ Entries(t) \subseteq Version
  BY <1>1 DEF IsTraced, Hits, Entries
<1>3. Unambiguous(q)
  BY <1>1, <1>2 DEF Unambiguous
<1>4. Follow(q, target)
  BY <1>1, <1>2 DEF Follow, Leads
<1>5. Recorded(q, v)
  BY <1>1, <1>2 DEF Recorded
<1>6. ASSUME NEW stored, Told(t, stored) PROVE Told(q, stored)
  BY <1>1, <1>2, <1>6 DEF Told
<1> QED BY <1>3, <1>4, <1>5, <1>6

-----------------------------------------------------------------------------
(* Adding a column, an index or a constraint.                              *)

(* The fields of the table q to which c adds column p, given the table r   *)
(* in which its name was reused.                                           *)
IsAdded(t, r, q, p, c) ==
    /\ q \in Tables
    /\ q.version = t.version /\ q.created = t.created
    /\ q.name = [t.name EXCEPT ![p] = c.name]
    /\ q.old = t.old
    /\ q.defined = [t.defined EXCEPT ![p] = p]
    /\ q.on = [r.on EXCEPT ![p] = c.on]
    /\ q.reentry = r.reentry
    /\ q.unsynced = IF t.created \/ c.kind = "index" THEN <<p>> \o t.unsynced ELSE t.unsynced
    /\ q.flags = t.flags \cup {AddedFlag(c.kind)}

LEMMA AddFields ==
    ASSUME NEW t \in Tables, NEW target, NEW p \in Version, NEW c \in Change,
           Unambiguous(t), Follow(t, target), c.name \in Name
    PROVE  IsAdded(t, ReuseName(t, c.name), Add(t, p, c), p, c)
<1> DEFINE r == ReuseName(t, c.name)
           q == Add(t, p, c)
           unsynced == IF t.created \/ c.kind = "index" THEN <<p>> \o t.unsynced ELSE t.unsynced
           flags == t.flags \cup {AddedFlag(c.kind)}
<1>1. SameColumns(t, r)
  BY ReuseNameKeeps
<1>2. q = [r EXCEPT !.name[p] = c.name, !.defined[p] = p, !.on[p] = c.on,
                    !.unsynced = unsynced, !.flags = flags]
  BY <1>1 DEF Add, AddUnsynced, SameColumns
<1>3. unsynced \in Seq(Version)
  BY Fields, Prepended
<1>4. c.on \in Name \cup {NoName} /\ flags \subseteq Flags /\ p \in 0 .. MaxVersion
  <2>1. AddedFlag(c.kind) \in Flags
    BY DEF AddedFlag, Flags
  <2> QED BY <2>1, Fields, VersionAssumption DEF Change, Version
<1> HIDE DEF r, q, unsynced, flags
<1>5. /\ q.version = r.version /\ q.created = r.created
      /\ q.name = [r.name EXCEPT ![p] = c.name] /\ q.old = r.old
      /\ q.defined = [r.defined EXCEPT ![p] = p] /\ q.on = [r.on EXCEPT ![p] = c.on]
      /\ q.reentry = r.reentry /\ q.unsynced = unsynced /\ q.flags = flags
  BY <1>1, <1>2 DEF Tables, SameColumns
<1>6. q \in Tables
  <2>1. /\ [r.name EXCEPT ![p] = c.name] \in [Version -> Name \cup {NoName}]
        /\ [r.defined EXCEPT ![p] = p] \in [Version -> 0 .. MaxVersion]
        /\ [r.on EXCEPT ![p] = c.on] \in [Version -> Name \cup {NoName}]
    BY <1>1, <1>4, Fields DEF SameColumns
  <2> QED BY <1>1, <1>2, <1>3, <1>4, <2>1 DEF Tables, SameColumns
<1>7. IsAdded(t, r, q, p, c)
  BY <1>1, <1>5, <1>6 DEF IsAdded, SameColumns, unsynced, flags
<1> QED BY <1>7 DEF r, q

(* The new p is declared on a column of today, if on any, and nothing      *)
(* older was declared on it.                                               *)
NewTarget(t, target, p, c) ==
    /\ \A o \in Version : t.name[o] # c.name
    /\ t.name[p] = NoName
    /\ \A o \in Entries(t) : target[o] # p
    /\ \A u \in Version : target[p] = u => u # p /\ (u \in Entries(t) => t.name[u] = c.on)

(* So it needs no tracing.                                                 *)
LEMMA AddTraces ==
    ASSUME NEW t \in Tables, NEW q, NEW target, NEW p \in Version, NEW c \in Change,
           Unambiguous(t), Follow(t, target), NewTarget(t, target, p, c), c.name \in Name,
           IsAdded(t, ReuseName(t, c.name), q, p, c)
    PROVE  Unambiguous(q) /\ Follow(q, target)
<1> DEFINE r == ReuseName(t, c.name)
<1>1. /\ r \in Tables /\ r.name = t.name /\ Unambiguous(r) /\ Follow(r, target)
      /\ ~IsTraced(r, c.name)
  BY ReuseNameKeeps DEF SameColumns
<1>2. /\ q.name = [t.name EXCEPT ![p] = c.name]
      /\ q.on = [r.on EXCEPT ![p] = c.on] /\ q.reentry = r.reentry
  BY DEF IsAdded
<1> HIDE DEF r
<1>3. /\ t.name \in [Version -> Name \cup {NoName}] /\ NoName \notin Name
      /\ r.on \in [Version -> Name \cup {NoName}]
  BY <1>1, Fields, NameAssumption
<1>4. \A o \in Version :
         /\ q.name[o] = IF o = p THEN c.name ELSE t.name[o]
         /\ q.on[o] = IF o = p THEN c.on ELSE r.on[o]
         /\ o \in Entries(q) <=> o = p \/ o \in Entries(t)
         /\ o \in Entries(r) <=> o \in Entries(t)
  BY <1>1, <1>2, <1>3 DEF Entries
<1>5. \A m : IsTraced(q, m) <=> IsTraced(r, m)
  BY <1>2 DEF IsTraced, Hits
<1>6. \A o \in Version : o \in Entries(t) => ~IsTraced(r, t.name[o])
  BY <1>1, <1>4 DEF Unambiguous
<1>7. Unambiguous(q)
  <2>1. ASSUME NEW o \in Entries(q) PROVE ~IsTraced(q, q.name[o])
    <3>1. o \in Version
      BY DEF Entries
    <3> QED BY <1>1, <1>4, <1>5, <1>6, <3>1
  <2>2. \A i, j \in DOMAIN q.reentry : q.reentry[i].old = q.reentry[j].old => i = j
    BY <1>1, <1>2 DEF Unambiguous
  <2> QED BY <2>1, <2>2 DEF Unambiguous
<1>8. ASSUME NEW o \in Version, NEW u \in Version,
             o \in Entries(q), u \in Entries(q), target[o] = u
      PROVE  Leads(q, q.on[o], u)
  <2>1. CASE o = p
    <3>1. q.on[o] = c.on /\ u # p /\ u \in Entries(t) /\ t.name[u] = c.on
      BY <1>4, <1>8, <2>1 DEF NewTarget
    <3>2. c.on = q.name[u] /\ ~IsTraced(r, c.on)
      BY <1>4, <1>6, <3>1
    <3> QED BY <1>5, <3>1, <3>2 DEF Leads
  <2>2. CASE o # p
    <3>1. o \in Entries(t) /\ u # p /\ u \in Entries(t)
      BY <1>4, <1>8, <2>2 DEF NewTarget
    <3>2. Leads(r, r.on[o], u)
      BY <1>1, <1>4, <1>8, <3>1 DEF Follow
    <3>3. q.on[o] = r.on[o] /\ q.name[u] = r.name[u]
      BY <1>1, <1>4, <2>2, <3>1
    <3> QED BY <1>2, <1>5, <3>2, <3>3 DEF Leads
  <2> QED BY <2>1, <2>2
<1> QED BY <1>7, <1>8 DEF Follow

(* The database has never seen the new column.                             *)
LEMMA AddTells ==
    ASSUME NEW t \in Tables, NEW r, NEW q, NEW p \in Version, NEW c,
           IsAdded(t, r, q, p, c), t.name[p] = NoName, c.name \in Name,
           NEW u \in Nat, u < p, Recorded(t, u)
    PROVE  /\ Recorded(q, p)
           /\ \A stored : t.created /\ Told(t, stored) => Told(q, stored)
<1> DEFINE new == t.created \/ c.kind = "index"
<1>1. /\ q.created = t.created /\ q.old = t.old
      /\ q.name = [t.name EXCEPT ![p] = c.name]
      /\ q.unsynced = IF new THEN <<p>> \o t.unsynced ELSE t.unsynced
  BY DEF IsAdded
<1>2. /\ t.name \in [Version -> Name \cup {NoName}] /\ NoName \notin Name
      /\ t.unsynced \in Seq(Version) /\ Range(t.unsynced) \subseteq Version
      /\ \A o \in Version : o \in Int
  BY Fields, NameAssumption DEF Version
<1>3. \A o \in Version :
         /\ q.name[o] = IF o = p THEN c.name ELSE t.name[o]
         /\ o \in Entries(q) <=> o = p \/ o \in Entries(t)
  BY <1>1, <1>2 DEF Entries
<1>4. p \notin Range(t.unsynced) /\ t.old[p] = NoName
  <2>1. ~(p <= u)
    BY <1>2
  <2> QED BY <2>1 DEF Recorded
<1>5. /\ Range(q.unsynced) = IF new THEN Range(t.unsynced) \cup {p} ELSE Range(t.unsynced)
      /\ IsInjective(q.unsynced)
  <2>1. IsInjective(t.unsynced)
    BY DEF Recorded
  <2>2. /\ Range(<<p>> \o t.unsynced) = Range(t.unsynced) \cup {p}
        /\ IsInjective(<<p>> \o t.unsynced)
    BY <1>2, <1>4, <2>1, PrependRange, PrependOnce
  <2> QED BY <1>1, <2>1, <2>2
<1>6. Recorded(q, p)
  <2>1. \A o \in Version : o <= u => o <= p
    BY <1>2
  <2> QED BY <1>1, <1>2, <1>5, <2>1 DEF Recorded
<1>7. ASSUME NEW stored, t.created, Told(t, stored) PROVE Told(q, stored)
  <2>1. ASSUME NEW o \in Entries(q), ~IsFake(o)
        PROVE  /\ o \notin Range(q.unsynced) => stored[q.name[o]] = o
               /\ q.old[o] # NoName => o \in Range(q.unsynced) /\ stored[q.old[o]] = o
    <3>1. o \in Version
      BY DEF Entries
    <3>2. CASE o = p
      BY <1>1, <1>4, <1>5, <1>7, <3>2
    <3>3. CASE o # p
      <4>1. /\ o \in Entries(t)
            /\ o \notin Range(t.unsynced) => stored[t.name[o]] = o
            /\ t.old[o] # NoName => o \in Range(t.unsynced) /\ stored[t.old[o]] = o
        BY <1>3, <1>7, <2>1, <3>1, <3>3 DEF Told
      <4> QED BY <1>1, <1>3, <1>5, <3>1, <3>3, <4>1
    <3> QED BY <3>2, <3>3
  <2>2. \A o \in Range(q.unsynced) : o \in Entries(q) \/ Kind(o) = "index"
    BY <1>2, <1>3, <1>5, <1>7 DEF Told
  <2> QED BY <2>1, <2>2 DEF Told
<1> QED BY <1>6, <1>7

-----------------------------------------------------------------------------
(* Including the next migration.                                           *)

(* What the change c to version v is declared on.                          *)
IsTargetOf(u, i, v, c) ==
    u = IF c.kind \in {"index", "constraint"} THEN Meant(i, v, c).named[c.on] ELSE NoColumn

(* What is true of the table t before the migration to version v, when it  *)
(* should be i.                                                            *)
Before(t, v, i, target) ==
    /\ t \in Tables /\ t.version = v - 1
    /\ i \in Ideals
    /\ \A n \in Name : i.named[n] <= v - 1
    /\ \A o \in Version : target[o] \in Int /\ target[o] <= o
    /\ IsMeant(t, i)
    /\ Unambiguous(t)
    /\ Follow(t, target)
    /\ Recorded(t, v - 1)

(* What is true of the table q that it makes of t, when it means i.        *)
After(t, q, v, i, target) ==
    /\ q \in Tables
    /\ q.created = t.created
    /\ IsMeant(q, i)
    /\ Unambiguous(q)
    /\ Follow(q, target)
    /\ Recorded(q, v)
    /\ \A stored : t.created /\ Told(t, stored) => Told(q, stored)

(* What follows: who is called what, and that version v is still unused.   *)
SoFar(t, v, i, target) ==
    /\ t.name \in [Version -> Name \cup {NoName}] /\ NoName \notin Name
    /\ OneEach(t)
    /\ \A o \in Entries(t) : o <= v - 1 /\ target[o] # v
    /\ t.name[v] = NoName
    /\ \A n \in Name : i.named[n] = NoColumn <=> \A o \in Version : t.name[o] # n
    /\ \A n \in Name : i.named[n] # NoColumn =>
          i.named[n] \in Version /\ t.name[i.named[n]] = n /\ i.named[n] \in Entries(t)
    /\ v \in Nat /\ v - 1 \in Nat /\ v - 1 < v

LEMMA BeforeSoFar ==
    ASSUME NEW t, NEW v \in Version, NEW i, NEW target, Before(t, v, i, target)
    PROVE  SoFar(t, v, i, target)
<1>1. /\ t \in Tables /\ IsMeant(t, i) /\ i.named \in [Name -> 0 .. MaxVersion]
      /\ \A n \in Name : i.named[n] <= v - 1
      /\ \A o \in Version : target[o] \in Int /\ target[o] <= o
  BY DEF Before, Ideals
<1>2. t.name \in [Version -> Name \cup {NoName}] /\ NoName \notin Name
  BY <1>1, Fields, NameAssumption
<1>3. Version \subseteq Nat /\ MaxVersion \in Nat /\ \A o \in Version : o >= 1 /\ o <= MaxVersion
  BY VersionAssumption DEF Version
<1>4. \A o \in Entries(t) : o \in Version /\ t.name[o] \in Name /\ i.named[t.name[o]] = o
  BY <1>1, <1>2 DEF Entries, IsMeant
<1>5. OneEach(t)
  BY <1>4 DEF OneEach, Entries
<1>6. ASSUME NEW o \in Entries(t) PROVE o <= v - 1 /\ target[o] # v
  <2>1. o \in Version /\ o <= v - 1
    BY <1>1, <1>4
  <2>2. target[o] \in Int /\ target[o] <= o
    BY <1>1, <2>1
  <2> QED BY <1>3, <2>1, <2>2
<1>7. t.name[v] = NoName
  <2>1. ~(v <= v - 1)
    BY <1>3
  <2> QED BY <1>6, <2>1 DEF Entries
<1>8. ASSUME NEW n \in Name
      PROVE  /\ i.named[n] = NoColumn <=> \A o \in Version : t.name[o] # n
             /\ i.named[n] # NoColumn =>
                   i.named[n] \in Version /\ t.name[i.named[n]] = n /\ i.named[n] \in Entries(t)
  <2>1. \A o \in Version : t.name[o] = n <=> i.named[n] = o
    BY <1>1 DEF IsMeant
  <2>2. i.named[n] = NoColumn \/ i.named[n] \in Version
    BY <1>1 DEF Version, NoColumn
  <2>3. NoColumn \notin Version
    BY DEF Version, NoColumn
  <2> QED BY <1>2, <2>1, <2>2, <2>3 DEF Entries
<1>9. v \in Nat /\ v - 1 \in Nat /\ v - 1 < v
  BY <1>3
<1> QED BY <1>2, <1>5, <1>6, <1>7, <1>8, <1>9, Zenon DEF SoFar

LEMMA AddIncluded ==
    ASSUME NEW t, NEW v \in Version, NEW c \in Change, NEW i, NEW target,
           Before(t, v, i, target), Legal(i, c, target), c.do = "add",
           IsTargetOf(target[v], i, v, c)
    PROVE  After(t, Add(t, v, c), v, Meant(i, v, c), target)
<1> DEFINE q == Add(t, v, c)
           r == ReuseName(t, c.name)
           meant == Meant(i, v, c)
<1>1. /\ t \in Tables /\ IsMeant(t, i) /\ i \in Ideals
      /\ \A m \in Name : i.named[m] <= v - 1
      /\ Unambiguous(t) /\ Follow(t, target) /\ Recorded(t, v - 1)
  BY DEF Before
<1>2. SoFar(t, v, i, target)
  BY BeforeSoFar
<1>3. c.name \in Name /\ i.named[c.name] = NoColumn
      /\ (c.kind \in {"index", "constraint"} => c.on \in Name /\ i.named[c.on] # NoColumn)
  BY DEF Legal
<1>4. /\ meant.named = [i.named EXCEPT ![c.name] = v]
      /\ meant.defined = [i.defined EXCEPT ![v] = v]
      /\ i.named \in [Name -> 0 .. MaxVersion] /\ i.defined \in [Version -> 0 .. MaxVersion]
  <2>1. meant = [i EXCEPT !.named[c.name] = v, !.defined[v] = v]
    BY DEF Meant
  <2> HIDE DEF meant
  <2> QED BY <1>1, <2>1 DEF Ideals
<1>5. IsAdded(t, r, q, v, c)
  BY <1>1, <1>3, AddFields
<1> HIDE DEF q, r
<1>6. /\ q \in Tables /\ q.created = t.created /\ q.name = [t.name EXCEPT ![v] = c.name]
      /\ q.defined = [t.defined EXCEPT ![v] = v]
      /\ t.name \in [Version -> Name \cup {NoName}]
      /\ t.defined \in [Version -> 0 .. MaxVersion]
  BY <1>1, <1>5, Fields DEF IsAdded
<1>7. IsMeant(q, meant)
  <2>1. ASSUME NEW m \in Name, NEW o \in Version
        PROVE  q.name[o] = m <=> meant.named[m] = o
    <3>1. t.name[o] = m <=> i.named[m] = o
      BY <1>1 DEF IsMeant
    <3>2. q.name[o] = IF o = v THEN c.name ELSE t.name[o]
      BY <1>6
    <3>3. meant.named[m] = IF m = c.name THEN v ELSE i.named[m]
      BY <1>4
    <3>4. i.named[m] # v
      BY <1>1, <1>2 DEF SoFar
    <3>5. t.name[o] # c.name
      BY <1>2, <1>3 DEF SoFar
    <3> HIDE DEF meant
    <3> QED BY <3>1, <3>2, <3>3, <3>4, <3>5
  <2>2. ASSUME NEW o \in Entries(q) PROVE q.defined[o] = meant.defined[o]
    <3>1. o \in Version /\ (o # v => o \in Entries(t))
      BY <1>6 DEF Entries
    <3>2. /\ q.defined[o] = IF o = v THEN v ELSE t.defined[o]
          /\ meant.defined[o] = IF o = v THEN v ELSE i.defined[o]
      BY <1>4, <1>6, <3>1
    <3> HIDE DEF meant
    <3> QED BY <1>1, <3>1, <3>2 DEF IsMeant
  <2> HIDE DEF meant
  <2> QED BY <2>1, <2>2 DEF IsMeant
<1>8. Unambiguous(q) /\ Follow(q, target)
  <2>1. ASSUME NEW u \in Version, target[v] = u
        PROVE  u # v /\ (u \in Entries(t) => t.name[u] = c.on)
    <3>1. c.kind \in {"index", "constraint"} /\ u = meant.named[c.on]
      BY <2>1 DEF IsTargetOf, NoColumn, Version
    <3>2. c.on \in Name /\ c.on # c.name
      BY <1>3, <3>1
    <3>3. u = i.named[c.on]
      BY <1>4, <3>1, <3>2
    <3> HIDE DEF meant
    <3>4. u <= v - 1 /\ t.name[u] = c.on
      BY <1>1, <3>2, <3>3 DEF IsMeant
    <3> QED BY <1>2, <3>4 DEF SoFar
  <2>2. NewTarget(t, target, v, c)
    BY <1>2, <1>3, <2>1 DEF NewTarget, SoFar
  <2> QED BY <1>1, <1>3, <1>5, <2>2, AddTraces DEF r
<1>9. Recorded(q, v) /\ \A stored : t.created /\ Told(t, stored) => Told(q, stored)
  <2>1. v - 1 \in Nat /\ v - 1 < v /\ t.name[v] = NoName
    BY <1>2 DEF SoFar
  <2> QED BY <1>1, <1>3, <1>5, <2>1, AddTells
<1> HIDE DEF meant
<1>10. After(t, q, v, meant, target)
  BY <1>6, <1>7, <1>8, <1>9 DEF After
<1> QED BY <1>10 DEF q, meant

LEMMA AlterIncluded ==
    ASSUME NEW t, NEW v \in Version, NEW c \in Change, NEW i, NEW target,
           Before(t, v, i, target), c.do = "alter", c.name \in Name,
           NEW p \in Version, i.named[c.name] = p
    PROVE  After(t, Alter(t, p, v), v, Meant(i, v, c), target)
<1> DEFINE q == Alter(t, p, v)
           meant == Meant(i, v, c)
<1>1. /\ t \in Tables /\ IsMeant(t, i) /\ i \in Ideals
      /\ Unambiguous(t) /\ Follow(t, target) /\ Recorded(t, v - 1)
  BY DEF Before
<1>2. SoFar(t, v, i, target)
  BY BeforeSoFar
<1>3. /\ meant.named = i.named /\ meant.defined = [i.defined EXCEPT ![p] = v]
      /\ i.defined \in [Version -> 0 .. MaxVersion]
  <2>1. meant = [i EXCEPT !.defined[p] = v]
    BY DEF Meant
  <2> HIDE DEF meant
  <2> QED BY <1>1, <2>1 DEF Ideals
<1>4. IsAltered(t, q, p, v)
  BY <1>1, AlterFields
<1> HIDE DEF q, meant
<1>5. /\ q \in Tables /\ q.created = t.created /\ q.name = t.name
      /\ q.defined = [t.defined EXCEPT ![p] = v] /\ t.defined \in [Version -> 0 .. MaxVersion]
  BY <1>1, <1>4, Fields DEF IsAltered
<1>6. IsMeant(q, meant)
  BY <1>1, <1>3, <1>5 DEF IsMeant, Entries
<1>7. /\ Unambiguous(q) /\ Follow(q, target) /\ Recorded(q, v - 1)
      /\ \A stored : Told(t, stored) => Told(q, stored)
  BY <1>1, <1>4, AlterKeeps
<1>8. Recorded(q, v)
  <2>1. \A o \in Version : o <= v - 1 => o <= v
    BY DEF Version
  <2>2. Range(q.unsynced) \subseteq Version
    BY <1>5, Fields
  <2> QED BY <1>7, <2>1, <2>2 DEF Recorded
<1>9. After(t, q, v, meant, target)
  BY <1>5, <1>6, <1>7, <1>8 DEF After
<1> QED BY <1>9 DEF q, meant

LEMMA DropIncluded ==
    ASSUME NEW t, NEW v \in Version, NEW c \in Change, NEW i, NEW target,
           Before(t, v, i, target), c.do = "drop", c.old \in Name,
           NEW p \in Version, i.named[c.old] = p
    PROVE  After(t, Drop(t, p), v, Meant(i, v, c), target)
<1> DEFINE q == Drop(t, p)
           meant == Meant(i, v, c)
<1>1. /\ t \in Tables /\ IsMeant(t, i) /\ i \in Ideals
      /\ Unambiguous(t) /\ Follow(t, target) /\ Recorded(t, v - 1)
  BY DEF Before
<1>2. SoFar(t, v, i, target)
  BY BeforeSoFar
<1>3. t.name[p] = c.old /\ NoColumn \notin Version
  BY <1>1 DEF IsMeant, NoColumn, Version
<1>4. /\ meant.named = [i.named EXCEPT ![c.old] = NoColumn] /\ meant.defined = i.defined
      /\ i.named \in [Name -> 0 .. MaxVersion]
  <2>1. meant = [i EXCEPT !.named[c.old] = NoColumn]
    BY DEF Meant
  <2> HIDE DEF meant
  <2> QED BY <1>1, <2>1 DEF Ideals
<1>5. IsDropped(t, q, p)
  BY <1>1, <1>3, DropFields DEF Recorded
<1> HIDE DEF q, meant
<1>6. /\ q \in Tables /\ q.created = t.created /\ q.name = [t.name EXCEPT ![p] = NoName]
      /\ q.defined = t.defined
      /\ t.name \in [Version -> Name \cup {NoName}] /\ NoName \notin Name
  BY <1>1, <1>5, Fields, NameAssumption DEF IsDropped
<1>7. IsMeant(q, meant)
  <2>1. ASSUME NEW m \in Name, NEW o \in Version
        PROVE  q.name[o] = m <=> meant.named[m] = o
    <3>1. t.name[o] = m <=> i.named[m] = o
      BY <1>1 DEF IsMeant
    <3>2. q.name[o] = IF o = p THEN NoName ELSE t.name[o]
      BY <1>6
    <3>3. meant.named[m] = IF m = c.old THEN NoColumn ELSE i.named[m]
      BY <1>4
    <3>4. t.name[o] = c.old <=> o = p
      BY <1>1 DEF IsMeant
    <3> QED BY <1>3, <1>6, <3>1, <3>2, <3>3, <3>4
  <2>2. \A o \in Entries(q) : o \in Entries(t)
    BY <1>6 DEF Entries
  <2> QED BY <1>1, <1>4, <1>6, <2>1, <2>2 DEF IsMeant
<1>8. Unambiguous(q) /\ Follow(q, target)
  BY <1>1, <1>2, <1>3, <1>5, DropTraces DEF SoFar
<1>9. Recorded(q, v - 1) /\ \A stored : Told(t, stored) => Told(q, stored)
  <2>1. p <= v - 1
    BY <1>2, <1>3, <1>6 DEF SoFar, Entries
  <2> QED BY <1>1, <1>3, <1>5, <2>1, DropTells
<1>10. Recorded(q, v)
  <2>1. \A o \in Version : o <= v - 1 => o <= v
    BY DEF Version
  <2>2. Range(q.unsynced) \subseteq Version
    BY <1>6, Fields
  <2> QED BY <1>9, <2>1, <2>2 DEF Recorded
<1>11. After(t, q, v, meant, target)
  BY <1>6, <1>7, <1>8, <1>9, <1>10 DEF After
<1> QED BY <1>11 DEF q, meant

LEMMA RenameIncluded ==
    ASSUME NEW t, NEW v \in Version, NEW c \in Change, NEW i, NEW target,
           Before(t, v, i, target), c.do = "rename", c.old \in Name, c.name \in Name,
           i.named[c.name] = NoColumn, NEW p \in Version, i.named[c.old] = p
    PROVE  After(t, Rename(t, p, c.name), v, Meant(i, v, c), target)
<1> DEFINE q == Rename(t, p, c.name)
           meant == Meant(i, v, c)
<1>1. /\ t \in Tables /\ IsMeant(t, i) /\ i \in Ideals
      /\ Unambiguous(t) /\ Follow(t, target) /\ Recorded(t, v - 1)
  BY DEF Before
<1>2. SoFar(t, v, i, target)
  BY BeforeSoFar
<1>3. t.name[p] = c.old /\ NoColumn \notin Version /\ c.old # c.name
  BY <1>1 DEF IsMeant, NoColumn, Version
<1>4. /\ meant.named = [i.named EXCEPT ![c.name] = p, ![c.old] = NoColumn]
      /\ meant.defined = i.defined
      /\ i.named \in [Name -> 0 .. MaxVersion]
  <2>1. meant = [i EXCEPT !.named[c.name] = p, !.named[c.old] = NoColumn]
    BY DEF Meant
  <2> HIDE DEF meant
  <2> QED BY <1>1, <2>1 DEF Ideals
<1>5. IsRenamed(t, ReuseName(t, c.name), q, p, c.name)
  BY <1>1, <1>3, RenameFields
<1>6. Unambiguous(q) /\ Follow(q, target)
  BY <1>1, <1>2, <1>3, RenameTraces DEF SoFar
<1> HIDE DEF q, meant
<1>7. /\ q \in Tables /\ q.created = t.created /\ q.name = [t.name EXCEPT ![p] = c.name]
      /\ q.defined = t.defined
      /\ t.name \in [Version -> Name \cup {NoName}] /\ NoName \notin Name
  BY <1>1, <1>5, Fields, NameAssumption DEF IsRenamed
<1>8. IsMeant(q, meant)
  <2>1. ASSUME NEW m \in Name, NEW o \in Version
        PROVE  q.name[o] = m <=> meant.named[m] = o
    <3>1. t.name[o] = m <=> i.named[m] = o
      BY <1>1 DEF IsMeant
    <3>2. q.name[o] = IF o = p THEN c.name ELSE t.name[o]
      BY <1>7
    <3>3. meant.named[m] = IF m = c.old THEN NoColumn ELSE IF m = c.name THEN p ELSE i.named[m]
      BY <1>3, <1>4
    <3>4. t.name[o] = c.old <=> o = p
      BY <1>1 DEF IsMeant
    <3>5. t.name[o] # c.name
      BY <1>2 DEF SoFar
    <3> QED BY <1>3, <3>1, <3>2, <3>3, <3>4, <3>5
  <2>2. \A o \in Entries(q) : o \in Entries(t)
    BY <1>3, <1>7 DEF Entries
  <2> QED BY <1>1, <1>4, <1>7, <2>1, <2>2 DEF IsMeant
<1>9. Recorded(q, v - 1) /\ \A stored : t.created /\ Told(t, stored) => Told(q, stored)
  <2>1. p <= v - 1
    BY <1>2, <1>3, <1>7 DEF SoFar, Entries
  <2> QED BY <1>1, <1>3, <1>5, <2>1, RenameTells
<1>10. Recorded(q, v)
  <2>1. \A o \in Version : o <= v - 1 => o <= v
    BY DEF Version
  <2>2. Range(q.unsynced) \subseteq Version
    BY <1>7, Fields
  <2> QED BY <1>9, <2>1, <2>2 DEF Recorded
<1>11. After(t, q, v, meant, target)
  BY <1>6, <1>7, <1>8, <1>9, <1>10 DEF After
<1> QED BY <1>11 DEF q, meant

(* Of what is called n there is one or none, and it is what is meant.      *)
LEMMA CalledIs ==
    ASSUME NEW t, NEW v \in Version, NEW i, NEW target, Before(t, v, i, target), NEW n \in Name
    PROVE  {o \in Entries(t) : t.name[o] = n} =
              IF i.named[n] = NoColumn THEN {} ELSE {i.named[n]}
<1>1. SoFar(t, v, i, target)
  BY BeforeSoFar
<1>2. \A o \in Entries(t) : o \in Version
  BY DEF Entries
<1>3. IsMeant(t, i)
  BY DEF Before
<1>4. CASE i.named[n] = NoColumn
  BY <1>1, <1>2, <1>4 DEF SoFar
<1>5. CASE i.named[n] # NoColumn
  <2>1. i.named[n] \in Entries(t) /\ t.name[i.named[n]] = n
    BY <1>1, <1>5 DEF SoFar
  <2>2. \A o \in Entries(t) : t.name[o] = n => o = i.named[n]
    BY <1>2, <1>3 DEF IsMeant
  <2> QED BY <1>5, <2>1, <2>2
<1> QED BY <1>4, <1>5

(* Within what a release may ask for nothing is passed over.               *)
LEMMA ApplyIs ==
    ASSUME NEW t, NEW v \in Version, NEW c \in Change, NEW i, NEW target,
           Before(t, v, i, target), Legal(i, c, target)
    PROVE  /\ c.do \in {"add", "alter", "drop", "rename"}
           /\ c.do = "add" => Apply(t, v, c) = Add(t, v, c)
           /\ c.do = "alter" => /\ i.named[c.name] \in Version
                                /\ Apply(t, v, c) = Alter(t, i.named[c.name], v)
           /\ c.do = "drop" => /\ i.named[c.old] \in Version
                               /\ Apply(t, v, c) = Drop(t, i.named[c.old])
           /\ c.do = "rename" => /\ i.named[c.old] \in Version
                                 /\ Apply(t, v, c) = Rename(t, i.named[c.old], c.name)
<1> DEFINE called(n) == {o \in Entries(t) : t.name[o] = n}
           it(n) == CHOOSE o \in called(n) : TRUE
<1>1. \A n \in Name : called(n) = IF i.named[n] = NoColumn THEN {} ELSE {i.named[n]}
  BY CalledIs
<1>2. \A n \in Name : i.named[n] # NoColumn => i.named[n] \in Version
  <2>1. SoFar(t, v, i, target)
    BY BeforeSoFar
  <2> QED BY <2>1 DEF SoFar
<1>3. \A n \in Name : i.named[n] # NoColumn => called(n) # {} /\ it(n) = i.named[n]
  <2> SUFFICES ASSUME NEW n \in Name, i.named[n] # NoColumn
               PROVE  called(n) # {} /\ it(n) = i.named[n]
    OBVIOUS
  <2>1. called(n) = {i.named[n]}
    BY <1>1
  <2> HIDE DEF called
  <2> QED BY <2>1
<1>4. /\ c.do = "add" /\ called(c.name) = {} => Apply(t, v, c) = Add(t, v, c)
      /\ c.do = "alter" /\ called(c.name) # {} => Apply(t, v, c) = Alter(t, it(c.name), v)
      /\ c.do = "drop" /\ called(c.old) # {} => Apply(t, v, c) = Drop(t, it(c.old))
      /\ c.do = "rename" /\ called(c.old) # {} => Apply(t, v, c) = Rename(t, it(c.old), c.name)
  BY DEF Apply
<1> HIDE DEF called, it
<1>5. c.do = "add" => Apply(t, v, c) = Add(t, v, c)
  BY <1>1, <1>4 DEF Legal
<1>6. ASSUME c.do = "alter"
      PROVE  /\ i.named[c.name] \in Version
             /\ Apply(t, v, c) = Alter(t, i.named[c.name], v)
  BY <1>2, <1>3, <1>4, <1>6 DEF Legal
<1>7. ASSUME c.do = "drop"
      PROVE  /\ i.named[c.old] \in Version
             /\ Apply(t, v, c) = Drop(t, i.named[c.old])
  BY <1>2, <1>3, <1>4, <1>7 DEF Legal
<1>8. ASSUME c.do = "rename"
      PROVE  /\ i.named[c.old] \in Version
             /\ Apply(t, v, c) = Rename(t, i.named[c.old], c.name)
  BY <1>2, <1>3, <1>4, <1>8 DEF Legal
<1>9. c.do \in {"add", "alter", "drop", "rename"}
  BY DEF Legal
<1> QED BY <1>5, <1>6, <1>7, <1>8, <1>9

LEMMA Applied ==
    ASSUME NEW t, NEW v \in Version, NEW c \in Change, NEW i, NEW target,
           Before(t, v, i, target), Legal(i, c, target), IsTargetOf(target[v], i, v, c)
    PROVE  After(t, Apply(t, v, c), v, Meant(i, v, c), target)
<1>1. CASE c.do = "add"
  BY <1>1, ApplyIs, AddIncluded
<1>2. CASE c.do = "alter"
  BY <1>2, ApplyIs, AlterIncluded DEF Legal
<1>3. CASE c.do = "drop"
  BY <1>3, ApplyIs, DropIncluded DEF Legal
<1>4. CASE c.do = "rename"
  BY <1>4, ApplyIs, RenameIncluded DEF Legal
<1> QED BY <1>1, <1>2, <1>3, <1>4, ApplyIs

(* The version is written last.                                            *)
LEMMA IncludedAfter ==
    ASSUME NEW t, NEW v \in Version, NEW c \in Change, NEW i, NEW target,
           Before(t, v, i, target), Legal(i, c, target), IsTargetOf(target[v], i, v, c)
    PROVE  /\ After(t, Included(t, v, c), v, Meant(i, v, c), target)
           /\ Included(t, v, c).version = v
<1> DEFINE r == Apply(t, v, c)
           q == Included(t, v, c)
           meant == Meant(i, v, c)
<1>1. After(t, r, v, meant, target)
  BY Applied
<1>2. q = [r EXCEPT !.version = v]
  BY DEF Included
<1>3. v \in 0 .. MaxVersion
  BY VersionAssumption DEF Version
<1> HIDE DEF r, q, meant
<1>4. r \in Tables
  BY <1>1 DEF After
<1>5. q \in Tables
  BY <1>2, <1>3, <1>4 DEF Tables
<1>6. /\ q.version = v /\ q.created = r.created /\ q.name = r.name /\ q.old = r.old
      /\ q.defined = r.defined /\ q.on = r.on /\ q.unsynced = r.unsynced
      /\ q.reentry = r.reentry
  BY <1>2, <1>4 DEF Tables
<1>7. /\ \A n : IsTraced(q, n) <=> IsTraced(r, n)
      /\ Entries(q) = Entries(r)
  BY <1>6 DEF IsTraced, Hits, Entries
<1>8. IsMeant(q, meant)
  BY <1>1, <1>6, <1>7 DEF After, IsMeant
<1>9. Unambiguous(q)
  <2>1. Unambiguous(r)
    BY <1>1 DEF After
  <2> QED BY <1>6, <1>7, <2>1 DEF Unambiguous
<1>10. Follow(q, target)
  <2>1. Follow(r, target)
    BY <1>1 DEF After
  <2>2. \A f, o : Leads(q, f, o) <=> Leads(r, f, o)
    BY <1>6, <1>7 DEF Leads
  <2> QED BY <1>6, <1>7, <2>1, <2>2 DEF Follow
<1>11. Recorded(q, v)
  <2>1. Recorded(r, v)
    BY <1>1 DEF After
  <2> QED BY <1>6, <2>1 DEF Recorded
<1>12. \A stored : Told(q, stored) <=> Told(r, stored)
  BY <1>6, <1>7 DEF Told
<1>13. After(t, q, v, meant, target)
  BY <1>1, <1>5, <1>6, <1>8, <1>9, <1>10, <1>11, <1>12 DEF After
<1> QED BY <1>6, <1>13 DEF q, meant

-----------------------------------------------------------------------------
(* Tracing and erasing at the synchronization.                             *)

(* Once all is traced and erased, the database knows what is meant and     *)
(* nothing is on record.                                                   *)
IsErased(t, q, i, target) ==
    /\ q \in Tables /\ q.version = t.version
    /\ IsMeant(q, i) /\ Unambiguous(q) /\ Follow(q, target)
    /\ \A v : Recorded(q, v)
    /\ Told(q, i.named)

LEMMA ErasedAfter ==
    ASSUME NEW t \in Tables, NEW i, NEW target,
           IsMeant(t, i), Unambiguous(t), Follow(t, target)
    PROVE  IsErased(t, EraseRecords(TraceName(t)), i, target)
<1> DEFINE r == TraceName(t)
           q == EraseRecords(r)
<1>1. /\ SameColumns(t, r)
      /\ \A o, p \in Version :
            o \in Entries(t) /\ p \in Entries(t) /\ target[o] = p => r.on[o] = t.name[p]
  BY TraceNameKeeps
<1> HIDE DEF r
<1>2. q = [r EXCEPT !.reentry = <<>>, !.unsynced = <<>>, !.old = NoNames,
                    !.created = TRUE, !.flags = {}]
  BY DEF EraseRecords
<1>3. /\ <<>> \in Seq(Records) /\ <<>> \in Seq(Version)
      /\ NoNames \in [Version -> Name \cup {NoName}]
  BY DEF NoNames
<1> HIDE DEF q
<1>4. q \in Tables
  BY <1>1, <1>2, <1>3 DEF Tables, SameColumns
<1>5. /\ q.version = t.version /\ q.name = t.name /\ q.old = NoNames
      /\ q.defined = t.defined /\ q.on = r.on
      /\ q.unsynced = <<>> /\ q.reentry = <<>>
  BY <1>1, <1>2 DEF Tables, SameColumns
<1>6. /\ \A n : ~IsTraced(q, n)
      /\ Entries(q) = Entries(t) /\ Entries(t) \subseteq Version
      /\ \A o \in Version : q.old[o] = NoName
      /\ Range(q.unsynced) = {} /\ DOMAIN q.unsynced = {} /\ DOMAIN q.reentry = {}
  BY <1>5 DEF IsTraced, Hits, Entries, NoNames, Range
<1>7. IsMeant(q, i)
  BY <1>5, <1>6 DEF IsMeant
<1>8. Unambiguous(q)
  BY <1>6 DEF Unambiguous
<1>9. Follow(q, target)
  BY <1>1, <1>5, <1>6 DEF Follow, Leads
<1>10. ASSUME NEW v PROVE Recorded(q, v)
  BY <1>6 DEF Recorded, IsInjective
<1>11. Told(q, i.named)
  <2>1. \A o \in Version : t.name[o] \in Name \cup {NoName}
    BY Fields
  <2>2. \A o \in Entries(t) : i.named[t.name[o]] = o
    BY <1>6, <2>1 DEF IsMeant, Entries
  <2> QED BY <1>5, <1>6, <2>2 DEF Told
<1>12. IsErased(t, q, i, target)
  BY <1>4, <1>5, <1>7, <1>8, <1>9, <1>10, <1>11 DEF IsErased
<1> QED BY <1>12 DEF q, r

(* A program that starts has no columns.                                   *)
LEMMA EmptyAtStart ==
    ASSUME NEW i, \A n \in Name : i.named[n] = NoColumn, NEW target
    PROVE  /\ EmptyTable.version = 0 /\ EmptyTable.created = FALSE
           /\ IsErased(EmptyTable, EmptyTable, i, target)
<1>1. EmptyTable \in Tables
  <2>1. /\ NoNames \in [Version -> Name \cup {NoName}] /\ 0 \in 0 .. MaxVersion
        /\ <<>> \in Seq(Version) /\ <<>> \in Seq(Records)
        /\ [o \in Version |-> 0] \in [Version -> 0 .. MaxVersion]
    BY VersionAssumption DEF NoNames
  <2> QED BY <2>1 DEF EmptyTable, Tables
<1>2. /\ EmptyTable.version = 0 /\ EmptyTable.created = FALSE
      /\ EmptyTable.name = NoNames /\ EmptyTable.old = NoNames
      /\ EmptyTable.unsynced = <<>> /\ EmptyTable.reentry = <<>>
  BY DEF EmptyTable
<1>3. /\ Entries(EmptyTable) = {}
      /\ \A o \in Version : EmptyTable.old[o] = NoName
      /\ \A n \in Name, o \in Version : EmptyTable.name[o] # n
  BY <1>2, NameAssumption DEF NoNames, Entries
<1>4. /\ Range(EmptyTable.unsynced) = {}
      /\ DOMAIN EmptyTable.unsynced = {} /\ DOMAIN EmptyTable.reentry = {}
  BY <1>2 DEF Range
<1>5. \A n \in Name, o \in Version : i.named[n] # o
  BY DEF NoColumn, Version
<1>6. IsMeant(EmptyTable, i)
  BY <1>3, <1>5 DEF IsMeant
<1>7. Unambiguous(EmptyTable) /\ Follow(EmptyTable, target)
  BY <1>3, <1>4 DEF Unambiguous, Follow
<1>8. ASSUME NEW v PROVE Recorded(EmptyTable, v)
  BY <1>3, <1>4 DEF Recorded, IsInjective
<1>9. Told(EmptyTable, i.named)
  BY <1>3, <1>4 DEF Told
<1> QED BY <1>1, <1>2, <1>6, <1>7, <1>8, <1>9 DEF IsErased

-----------------------------------------------------------------------------
(* What a synchronization makes of the database is a database again.       *)

Results == [db : Databases, ok : BOOLEAN]

LEMMA DoneOrFailed ==
    ASSUME NEW d \in Databases
    PROVE  Done(d) \in Results /\ Done(d).db = d /\ Failed(d) \in Results
  BY DEF Done, Failed, Results

LEMMA DatabaseFields ==
    ASSUME NEW d \in Databases
    PROVE  /\ d.rows \in [Name -> Version \cup {NoColumn, Emptied}]
           /\ d.defined \in [Name -> 0 .. MaxVersion]
           /\ d.index \in [Name -> Name \cup {NoName}]
           /\ d.constraint \in [Name -> Name \cup {NoName}]
  BY DEF Databases

LEMMA StatementType ==
    ASSUME NEW t \in Tables, NEW d \in Databases, NEW o \in Version
    PROVE  Statement(t, d, o) \in Results
<1>1. /\ t.name[o] \in Name \cup {NoName} /\ t.old[o] \in Name \cup {NoName}
      /\ t.on[o] \in Name \cup {NoName} /\ t.defined[o] \in 0 .. MaxVersion
  BY Fields
<1>2. ASSUME NEW n PROVE ExecDropIndex(d, n) \in Results
  <2>1. [d.index EXCEPT ![n] = NoName] \in [Name -> Name \cup {NoName}]
    BY DatabaseFields
  <2>2. [d EXCEPT !.index[n] = NoName] \in Databases
    BY <2>1 DEF Databases
  <2> QED BY <2>2, DoneOrFailed DEF ExecDropIndex
<1>3. ASSUME NEW n, NEW on \in Name \cup {NoName} PROVE ExecCreateIndex(d, n, on) \in Results
  <2>1. [d.index EXCEPT ![n] = on] \in [Name -> Name \cup {NoName}]
    BY DatabaseFields
  <2>2. [d EXCEPT !.index[n] = on] \in Databases
    BY <2>1 DEF Databases
  <2> QED BY <2>2, DoneOrFailed DEF ExecCreateIndex
<1>4. ASSUME NEW n \in Name, NEW m \in Name \cup {NoName}
      PROVE  ExecRenameColumn(d, n, m) \in Results
  <2> DEFINE moved(on) == [i \in Name |-> IF on[i] = n THEN m ELSE on[i]]
             rows == [d.rows EXCEPT ![n] = NoColumn, ![m] = d.rows[n]]
             defined == [d.defined EXCEPT ![n] = 0, ![m] = d.defined[n]]
             e == [rows |-> rows, defined |-> defined,
                   index |-> moved(d.index), constraint |-> moved(d.constraint)]
  <2>1. rows \in [Name -> Version \cup {NoColumn, Emptied}]
    BY DatabaseFields
  <2>2. defined \in [Name -> 0 .. MaxVersion]
    <3> DEFINE first == [d.defined EXCEPT ![n] = 0]
    <3>1. d.defined[n] \in 0 .. MaxVersion /\ 0 \in 0 .. MaxVersion
      BY DatabaseFields, VersionAssumption
    <3>2. first \in [Name -> 0 .. MaxVersion]
      BY <3>1, DatabaseFields
    <3>3. defined = [first EXCEPT ![m] = d.defined[n]]
      OBVIOUS
    <3> HIDE DEF first, defined
    <3> QED BY <3>1, <3>2, <3>3
  <2>3. \A on \in [Name -> Name \cup {NoName}] : moved(on) \in [Name -> Name \cup {NoName}]
    OBVIOUS
  <2>4. /\ moved(d.index) \in [Name -> Name \cup {NoName}]
        /\ moved(d.constraint) \in [Name -> Name \cup {NoName}]
    BY <2>3, DatabaseFields
  <2>5. ExecRenameColumn(d, n, m) = Failed(d) \/ ExecRenameColumn(d, n, m) = Done(e)
    BY DEF ExecRenameColumn
  <2> HIDE DEF moved, rows, defined
  <2>6. e \in Databases
    BY <2>1, <2>2, <2>4 DEF Databases
  <2> QED BY <2>5, <2>6, DoneOrFailed
<1>5. ASSUME NEW n, NEW v \in 0 .. MaxVersion PROVE ExecAddColumn(d, o, n, v) \in Results
  <2> DEFINE new == IF Holds(d, o) THEN Emptied ELSE o
             e == [d EXCEPT !.rows[n] = new, !.defined[n] = v]
  <2>1. new \in Version \cup {NoColumn, Emptied}
    OBVIOUS
  <2>2. ExecAddColumn(d, o, n, v) = Failed(d) \/ ExecAddColumn(d, o, n, v) = Done(e)
    BY DEF ExecAddColumn
  <2> HIDE DEF new
  <2>3. /\ [d.rows EXCEPT ![n] = new] \in [Name -> Version \cup {NoColumn, Emptied}]
        /\ [d.defined EXCEPT ![n] = v] \in [Name -> 0 .. MaxVersion]
    BY <2>1, DatabaseFields
  <2>4. e \in Databases
    BY <2>3 DEF Databases
  <2> QED BY <2>2, <2>4, DoneOrFailed
<1>6. CASE Kind(o) = "index" /\ t.name[o] = NoName
  <2>0. IsFake(o)
    BY <1>6 DEF IsFake
  <2>1. Statement(t, d, o) = ExecDropIndex(d, t.old[o])
    BY <1>6, <2>0, Zenon DEF Statement
  <2> QED BY <1>2, <2>1
<1>7. CASE Kind(o) = "index" /\ t.name[o] # NoName
  <2>0. IsFake(o)
    BY <1>7 DEF IsFake
  <2>1. Statement(t, d, o) = ExecCreateIndex(d, t.name[o], t.on[o])
    BY <1>7, <2>0, Zenon DEF Statement
  <2> QED BY <1>1, <1>3, <2>1
<1>8. CASE Kind(o) # "index" /\ ~IsFake(o) /\ t.old[o] # NoName
  <2>1. Statement(t, d, o) = ExecRenameColumn(d, t.old[o], t.name[o])
    BY <1>8, Zenon DEF Statement
  <2>2. t.old[o] \in Name
    BY <1>1, <1>8
  <2> QED BY <1>1, <1>4, <2>1, <2>2
<1>9. CASE Kind(o) # "index" /\ ~(~IsFake(o) /\ t.old[o] # NoName)
  <2>1. Statement(t, d, o) = ExecAddColumn(d, o, t.name[o], t.defined[o])
    BY <1>9, Zenon DEF Statement
  <2> QED BY <1>1, <1>5, <2>1
<1> QED BY <1>6, <1>7, <1>8, <1>9

(* The recursive function in Executed is what its definition says.         *)
Run(t, d, os, n, run) ==
    run = [i \in 0 .. n |->
             IF i = 0 THEN Done(d)
             ELSE IF run[i - 1].ok THEN Statement(t, run[i - 1].db, os[i])
             ELSE run[i - 1]]

LEMMA RunExists ==
    ASSUME NEW t, NEW d, NEW os, NEW n \in Nat
    PROVE  \E run : Run(t, d, os, n, run)
<1> DEFINE T == {m \in Nat : \E run : Run(t, d, os, m, run)}
<1>1. 0 \in T
  <2>1. Run(t, d, os, 0, [i \in 0 .. 0 |-> Done(d)])
    BY DEF Run
  <2> QED BY <2>1
<1>2. ASSUME NEW m \in T, m \in Nat PROVE m + 1 \in T
  <2>1. PICK f : Run(t, d, os, m, f)
    BY <1>2
  <2> DEFINE g == [i \in 0 .. m + 1 |->
                     IF i <= m THEN f[i]
                     ELSE IF f[m].ok THEN Statement(t, f[m].db, os[i]) ELSE f[m]]
  <2>2. \A i \in 0 .. m : g[i] = f[i]
    OBVIOUS
  <2>3. \A i \in 0 .. m + 1 : i # 0 => i - 1 \in 0 .. m /\ g[i - 1] = f[i - 1]
    BY <2>2
  <2>4. \A i \in 0 .. m :
          f[i] = IF i = 0 THEN Done(d)
                 ELSE IF f[i - 1].ok THEN Statement(t, f[i - 1].db, os[i]) ELSE f[i - 1]
    BY <2>1 DEF Run
  <2>5. ASSUME NEW i \in 0 .. m + 1
        PROVE  g[i] = IF i = 0 THEN Done(d)
                      ELSE IF g[i - 1].ok THEN Statement(t, g[i - 1].db, os[i]) ELSE g[i - 1]
    <3>1. CASE i <= m
      BY <3>1, <2>2, <2>3, <2>4
    <3>2. CASE i = m + 1
      <4>1. i # 0 /\ i - 1 = m /\ ~(i <= m)
        BY <3>2
      <4>2. g[i - 1] = f[m]
        BY <4>1, <2>2
      <4>3. g[i] = IF f[m].ok THEN Statement(t, f[m].db, os[i]) ELSE f[m]
        BY <4>1
      <4> QED BY <4>1, <4>2, <4>3
    <3> QED BY <3>1, <3>2
  <2>6. g = [i \in 0 .. m + 1 |-> g[i]]
    OBVIOUS
  <2>7. Run(t, d, os, m + 1, g)
    <3> HIDE DEF g
    <3> QED BY <2>5, <2>6 DEF Run
  <2> QED BY <2>7
<1> HIDE DEF T
<1>3. n \in T
  BY <1>1, <1>2, Induct
<1> QED BY <1>3 DEF T

(* What every statement keeps, all of them keep.                           *)
LEMMA ExecutedKeeps ==
    ASSUME NEW t, NEW d, NEW os \in Seq(Version), NEW S, Done(d) \in S,
           \A r \in S : \A j \in 1 .. Len(os) : Statement(t, r.db, os[j]) \in S
    PROVE  Executed(t, d, os) \in S
<1> DEFINE n == Len(os)
           run == CHOOSE r : Run(t, d, os, n, r)
           T == {m \in Nat : m <= n => run[m] \in S}
<1>1. n \in Nat
  OBVIOUS
<1>2. Run(t, d, os, n, run)
  BY <1>1, RunExists
<1>3. Executed(t, d, os) = run[n]
  BY DEF Executed, Run
<1> HIDE DEF run
<1>4. \A i \in 0 .. n :
        run[i] = IF i = 0 THEN Done(d)
                 ELSE IF run[i - 1].ok THEN Statement(t, run[i - 1].db, os[i])
                 ELSE run[i - 1]
  BY <1>2 DEF Run
<1>5. 0 \in T
  BY <1>1, <1>4
<1>6. ASSUME NEW m \in T, m \in Nat PROVE m + 1 \in T
  <2>1. SUFFICES ASSUME m + 1 <= n PROVE run[m + 1] \in S
    OBVIOUS
  <2>2. run[m] \in S /\ m + 1 \in 1 .. n
    BY <1>1, <2>1
  <2>3. run[m + 1] = IF run[m].ok THEN Statement(t, run[m].db, os[m + 1]) ELSE run[m]
    <3>1. m + 1 \in 0 .. n /\ m + 1 # 0 /\ (m + 1) - 1 = m
      BY <2>1, <1>6, <1>1
    <3> HIDE DEF n
    <3> QED BY <3>1, <1>4
  <2>4. Statement(t, run[m].db, os[m + 1]) \in S
    BY <2>2
  <2> QED BY <2>2, <2>3, <2>4
<1> HIDE DEF T
<1>7. n \in T
  BY <1>1, <1>5, <1>6, Induct
<1> QED BY <1>1, <1>3, <1>7 DEF T

LEMMA ExecutedType ==
    ASSUME NEW t \in Tables, NEW d \in Databases, NEW os \in Seq(Version)
    PROVE  Executed(t, d, os) \in Results
<1>1. Done(d) \in Results
  BY DoneOrFailed
<1>2. ASSUME NEW r \in Results, NEW j \in 1 .. Len(os)
      PROVE  Statement(t, r.db, os[j]) \in Results
  BY StatementType DEF Results
<1> QED BY <1>1, <1>2, ExecutedKeeps

LEMMA AtType ==
    ASSUME NEW t, NEW os, NEW f, NEW S, NEW none \in S, \A o \in os : f[o] \in S
    PROVE  At(t, os, f, none) \in [Name -> S]
<1>1. ASSUME NEW n \in Name, \E o \in os : t.name[o] = n
      PROVE  (CHOOSE o \in os : t.name[o] = n) \in os
  BY <1>1
<1> QED BY <1>1 DEF At

LEMMA TableWithType ==
    ASSUME NEW t \in Tables, NEW from,
           \A o \in Columns(t) : from[o] \in Version \cup {NoColumn, Emptied}
    PROVE  TableWith(t, from) \in Databases
<1> DEFINE made(k) == {o \in Entries(t) : Kind(o) = k}
<1>1. /\ \A o \in Columns(t) : t.defined[o] \in 0 .. MaxVersion
      /\ \A k : \A o \in made(k) : t.on[o] \in Name \cup {NoName}
      /\ 0 \in 0 .. MaxVersion
  BY Fields, VersionAssumption DEF Columns
<1>2. At(t, Columns(t), from, NoColumn) \in [Name -> Version \cup {NoColumn, Emptied}]
  BY AtType
<1>3. At(t, Columns(t), t.defined, 0) \in [Name -> 0 .. MaxVersion]
  BY <1>1, AtType
<1>4. \A k : At(t, made(k), t.on, NoName) \in [Name -> Name \cup {NoName}]
  BY <1>1, AtType
<1> QED BY <1>2, <1>3, <1>4 DEF TableWith, Databases

LEMMA SynchronizedType ==
    ASSUME NEW t \in Tables, NEW d \in Databases
    PROVE  Synchronized(t, d).db \in Databases
<1> DEFINE made == [o \in Version |-> o]
           from == [o \in Columns(t) |-> IF IsCopied(t, o) THEN d.rows[Source(t, o)]
                                         ELSE IF Holds(d, o) THEN Emptied ELSE o]
<1>1. Columns(t) \subseteq Version
  BY Fields DEF Columns
<1>2. CreateTable(t) \in Results
  <2>1. \A o \in Columns(t) : made[o] \in Version \cup {NoColumn, Emptied}
    BY <1>1
  <2> HIDE DEF made
  <2>2. TableWith(t, made) \in Databases
    BY <2>1, TableWithType
  <2> QED BY <2>2, DoneOrFailed DEF CreateTable, made
<1>3. RecreateTable(t, d) \in Results
  <2>1. \A o \in Columns(t) : Source(t, o) \in Name
    <3> SUFFICES ASSUME NEW o \in Columns(t) PROVE Source(t, o) \in Name
      OBVIOUS
    <3>1. t.name[o] \in Name \cup {NoName} /\ t.old[o] \in Name \cup {NoName}
      BY <1>1, Fields
    <3>2. t.name[o] # NoName
      BY DEF Columns, Entries
    <3> QED BY <3>1, <3>2 DEF Source
  <2>2. \A o \in Columns(t) : from[o] \in Version \cup {NoColumn, Emptied}
    BY <1>1, <2>1, DatabaseFields
  <2>3. RecreateTable(t, d) = Failed(d) \/ RecreateTable(t, d) = Done(TableWith(t, from))
    BY DEF RecreateTable
  <2> HIDE DEF from
  <2>4. TableWith(t, from) \in Databases
    BY <2>2, TableWithType
  <2> QED BY <2>3, <2>4, DoneOrFailed
<1>4. AlterTable(t, d) \in Results
  <2>1. Reverse(t.unsynced) \in Seq(Version)
    <3>1. t.unsynced \in Seq(Version)
      BY Fields
    <3> QED BY <3>1 DEF Reverse
  <2> QED BY <2>1, ExecutedType DEF AlterTable
<1>5. Synchronized(t, d) \in {CreateTable(t), Done(d), RecreateTable(t, d), AlterTable(t, d)}
  <2>1. CASE ~t.created
    BY <2>1 DEF Synchronized
  <2>2. CASE t.created /\ t.flags = {}
    BY <2>2 DEF Synchronized
  <2>3. CASE t.created /\ t.flags # {} /\ Recreates(t)
    BY <2>3 DEF Synchronized
  <2>4. CASE t.created /\ t.flags # {} /\ ~Recreates(t)
    BY <2>4 DEF Synchronized
  <2>5. t.created \in BOOLEAN
    BY Fields
  <2> QED BY <2>1, <2>2, <2>3, <2>4, <2>5
<1> QED BY <1>2, <1>3, <1>4, <1>5, DoneOrFailed DEF Results

-----------------------------------------------------------------------------
(* The invariant is inductive.  First, what one more migration makes of    *)
(* the table that the migrations mean.                                     *)

LEMMA MeantAdds ==
    ASSUME NEW i \in Ideals, NEW v \in Version, NEW c \in Change, c.do = "add"
    PROVE  /\ Meant(i, v, c) \in Ideals
           /\ Meant(i, v, c).named = [i.named EXCEPT ![c.name] = v]
           /\ Meant(i, v, c).defined = [i.defined EXCEPT ![v] = v]
<1> DEFINE meant == Meant(i, v, c)
<1>1. meant = [i EXCEPT !.named[c.name] = v, !.defined[v] = v]
  BY DEF Meant
<1>2. /\ i.named \in [Name -> 0 .. MaxVersion] /\ i.defined \in [Version -> 0 .. MaxVersion]
      /\ v \in 0 .. MaxVersion
  BY VersionAssumption DEF Ideals, Version
<1>3. [i.named EXCEPT ![c.name] = v] \in [Name -> 0 .. MaxVersion]
  BY <1>2
<1>4. [i.defined EXCEPT ![v] = v] \in [Version -> 0 .. MaxVersion]
  BY <1>2
<1> HIDE DEF meant
<1>5. /\ meant \in Ideals /\ meant.named = [i.named EXCEPT ![c.name] = v]
      /\ meant.defined = [i.defined EXCEPT ![v] = v]
  BY <1>1, <1>3, <1>4 DEF Ideals
<1> QED BY <1>5 DEF meant

LEMMA MeantIs ==
    ASSUME NEW i \in Ideals, NEW v \in Version, NEW c \in Change, NEW target,
           \A n \in Name : i.named[n] <= v - 1, Legal(i, c, target)
    PROVE  /\ Meant(i, v, c) \in Ideals
           /\ \A n \in Name : Meant(i, v, c).named[n] <= v
           /\ c.do = "add" =>
                 Meant(i, v, c).named = [i.named EXCEPT ![c.name] = v]
           /\ c.do = "alter" => Meant(i, v, c).named = i.named
           /\ c.do = "drop" =>
                 Meant(i, v, c).named = [i.named EXCEPT ![c.old] = NoColumn]
           /\ c.do = "rename" =>
                 Meant(i, v, c).named
                    = [i.named EXCEPT ![c.name] = i.named[c.old], ![c.old] = NoColumn]
<1> DEFINE meant == Meant(i, v, c)
<1>1. /\ i.named \in [Name -> 0 .. MaxVersion] /\ i.defined \in [Version -> 0 .. MaxVersion]
      /\ v \in 0 .. MaxVersion /\ NoColumn \in 0 .. MaxVersion /\ v \in Nat
      /\ \A n \in Name : i.named[n] <= v
      /\ NoColumn <= v
  BY VersionAssumption DEF Ideals, Version, NoColumn
<1>2. c.do \in {"add", "alter", "drop", "rename"}
  BY DEF Legal
<1>3. CASE c.do = "add"
  <2>1. meant \in Ideals /\ meant.named = [i.named EXCEPT ![c.name] = v]
    BY <1>3, MeantAdds
  <2>2. \A n \in Name : [i.named EXCEPT ![c.name] = v][n] <= v
    BY <1>1
  <2> HIDE DEF meant
  <2> QED BY <1>3, <2>1, <2>2 DEF meant
<1>4. CASE c.do = "alter"
  <2>1. meant = [i EXCEPT !.defined[i.named[c.name]] = v]
    BY <1>4 DEF Meant
  <2> HIDE DEF meant
  <2>2. [i.defined EXCEPT ![i.named[c.name]] = v] \in [Version -> 0 .. MaxVersion]
    BY <1>1
  <2>3. meant \in Ideals /\ meant.named = i.named
    BY <2>1, <2>2 DEF Ideals
  <2> QED BY <1>1, <1>4, <2>3 DEF meant
<1>5. CASE c.do = "drop"
  <2>1. meant = [i EXCEPT !.named[c.old] = NoColumn]
    BY <1>5 DEF Meant
  <2> HIDE DEF meant
  <2>2. /\ [i.named EXCEPT ![c.old] = NoColumn] \in [Name -> 0 .. MaxVersion]
        /\ \A n \in Name : [i.named EXCEPT ![c.old] = NoColumn][n] <= v
    BY <1>1
  <2>3. meant \in Ideals /\ meant.named = [i.named EXCEPT ![c.old] = NoColumn]
    BY <2>1, <2>2 DEF Ideals
  <2> QED BY <1>5, <2>2, <2>3 DEF meant
<1>6. CASE c.do = "rename"
  <2> DEFINE moved == [i.named EXCEPT ![c.name] = i.named[c.old]]
             named == [moved EXCEPT ![c.old] = NoColumn]
  <2>1. meant = [i EXCEPT !.named[c.name] = i.named[c.old], !.named[c.old] = NoColumn]
    BY <1>6 DEF Meant
  <2>2. c.old \in Name /\ c.name \in Name
    BY <1>6 DEF Legal
  <2>3. i.named[c.old] \in 0 .. MaxVersion /\ i.named[c.old] <= v
    BY <1>1, <2>2
  <2>4. moved \in [Name -> 0 .. MaxVersion] /\ \A n \in Name : moved[n] <= v
    BY <1>1, <2>3
  <2>5. named = [i.named EXCEPT ![c.name] = i.named[c.old], ![c.old] = NoColumn]
    OBVIOUS
  <2> HIDE DEF meant, moved
  <2>6. named \in [Name -> 0 .. MaxVersion] /\ \A n \in Name : named[n] <= v
    BY <1>1, <2>4
  <2>7. meant = [[i EXCEPT !.named = moved] EXCEPT !.named = named]
    BY <1>1, <2>1, <2>4 DEF Ideals, moved
  <2> HIDE DEF named
  <2>8. meant \in Ideals /\ meant.named = named
    BY <2>4, <2>6, <2>7 DEF Ideals
  <2> QED BY <1>6, <2>5, <2>6, <2>8 DEF meant
<1> QED BY <1>2, <1>3, <1>4, <1>5, <1>6

(* What is declared on a column stays declared on it.                      *)
LEMMA DeclaredStays ==
    ASSUME NEW i \in Ideals, NEW v \in Version, NEW c \in Change, NEW target,
           \A n \in Name : i.named[n] <= v - 1, Legal(i, c, target),
           Declared(i, target), IsTargetOf(target[v], i, v, c)
    PROVE  Declared(Meant(i, v, c), target)
<1> DEFINE meant == Meant(i, v, c)
<1>1. i.named \in [Name -> 0 .. MaxVersion] /\ v # NoColumn /\ NoColumn \in 0 .. MaxVersion
  BY VersionAssumption DEF Ideals, Version, NoColumn
<1>2. /\ c.do \in {"add", "alter", "drop", "rename"}
      /\ c.do = "add" => meant.named = [i.named EXCEPT ![c.name] = v]
      /\ c.do = "alter" => meant.named = i.named
      /\ c.do = "drop" => meant.named = [i.named EXCEPT ![c.old] = NoColumn]
      /\ c.do = "rename" =>
            meant.named = [i.named EXCEPT ![c.name] = i.named[c.old], ![c.old] = NoColumn]
  BY MeantIs DEF Legal
<1>3. \A n \in Name : i.named[n] # NoColumn /\ target[i.named[n]] # NoColumn =>
         \E m \in Name : i.named[m] = target[i.named[n]]
  BY DEF Declared
<1>4. target[v] = IF c.kind \in {"index", "constraint"} THEN meant.named[c.on] ELSE NoColumn
  BY DEF IsTargetOf
<1> HIDE DEF meant
<1> SUFFICES ASSUME NEW n \in Name, meant.named[n] # NoColumn, target[meant.named[n]] # NoColumn
             PROVE  \E m \in Name : meant.named[m] = target[meant.named[n]]
  BY DEF Declared, meant
<1>5. CASE c.do = "add"
  <2>1. /\ c.name \in Name /\ i.named[c.name] = NoColumn
        /\ c.kind \in {"index", "constraint"} => c.on \in Name
    BY <1>5 DEF Legal
  <2>2. CASE n = c.name
    <3>1. meant.named[n] = v
      BY <1>1, <1>2, <1>5, <2>2
    <3>2. c.on \in Name /\ target[meant.named[n]] = meant.named[c.on]
      BY <1>4, <2>1, <3>1
    <3> QED BY <3>2
  <2>3. CASE n # c.name
    <3>1. meant.named[n] = i.named[n]
      BY <1>1, <1>2, <1>5, <2>1, <2>3
    <3>2. PICK m \in Name : i.named[m] = target[i.named[n]]
      BY <1>3, <3>1
    <3>3. m # c.name
      BY <2>1, <3>1, <3>2
    <3>4. meant.named[m] = i.named[m]
      BY <1>1, <1>2, <1>5, <2>1, <3>3
    <3> QED BY <3>1, <3>2, <3>4
  <2> QED BY <2>2, <2>3
<1>6. CASE c.do = "alter"
  BY <1>2, <1>3, <1>6
<1>7. CASE c.do = "drop"
  <2>1. /\ c.old \in Name
        /\ \A m \in Name : i.named[m] # NoColumn => target[i.named[m]] # i.named[c.old]
    BY <1>7 DEF Legal
  <2>2. n # c.old /\ meant.named[n] = i.named[n]
    BY <1>1, <1>2, <1>7, <2>1
  <2>3. PICK m \in Name : i.named[m] = target[i.named[n]]
    BY <1>3, <2>2
  <2>4. m # c.old
    BY <2>1, <2>2, <2>3
  <2>5. meant.named[m] = i.named[m]
    BY <1>1, <1>2, <1>7, <2>1, <2>4
  <2> QED BY <2>2, <2>3, <2>5
<1>8. CASE c.do = "rename"
  <2>1. c.old \in Name /\ c.name \in Name /\ i.named[c.name] = NoColumn
        /\ i.named[c.old] # NoColumn
    BY <1>8 DEF Legal
  <2>2. \A m \in Name : meant.named[m] = IF m = c.old THEN NoColumn
                                         ELSE IF m = c.name THEN i.named[c.old] ELSE i.named[m]
    BY <1>1, <1>2, <1>8, <2>1
  <2>3. PICK k \in Name : meant.named[n] = i.named[k] /\ i.named[k] # NoColumn
    BY <2>1, <2>2
  <2>4. PICK m \in Name : i.named[m] = target[i.named[k]]
    BY <1>3, <2>3
  <2>5. m # c.name
    BY <2>1, <2>3, <2>4
  <2>6. \E l \in Name : meant.named[l] = i.named[m]
    <3>1. CASE m = c.old
      BY <2>1, <2>2, <3>1
    <3>2. CASE m # c.old
      BY <2>2, <2>5, <3>2
    <3> QED BY <3>1, <3>2
  <2> QED BY <2>3, <2>4, <2>6
<1> QED BY <1>2, <1>5, <1>6, <1>7, <1>8

(* What the releases say, before and up to version v.                      *)
LEMMA ReleasesSay ==
    ASSUME TypeInv, ReleasesInv
    PROVE  /\ \A o \in Version : Targets[o] \in Int /\ Targets[o] <= o
           /\ \A n \in Name : ideal[0].named[n] = NoColumn
<1>1. /\ history \in [Version -> Change] /\ ideal \in [0 .. MaxVersion -> Ideals]
      /\ \A v \in 0 .. MaxVersion : \A n \in Name : ideal[v].named[n] <= v
      /\ \A v \in 0 .. MaxVersion : ideal[v].named \in [Name -> 0 .. MaxVersion]
  BY DEF TypeInv, ReleasesInv, Ideals
<1>2. ASSUME NEW o \in Version PROVE Targets[o] \in Int /\ Targets[o] <= o
  <2>1. o \in 0 .. MaxVersion /\ o \in Nat /\ NoColumn <= o /\ NoColumn \in Int
    BY VersionAssumption DEF Version, NoColumn
  <2>2. Targets[o] = IF IsFake(o) THEN ideal[o].named[history[o].on] ELSE NoColumn
    BY DEF Targets, Target
  <2>3. CASE IsFake(o)
    <3>1. history[o].on \in Name
      BY <2>3 DEF ReleasesInv
    <3>2. /\ ideal[o].named[history[o].on] \in 0 .. MaxVersion
          /\ ideal[o].named[history[o].on] <= o
      BY <1>1, <2>1, <3>1
    <3> QED BY <2>2, <2>3, <3>2
  <2>4. CASE ~IsFake(o)
    BY <2>1, <2>2, <2>4
  <2> QED BY <2>3, <2>4
<1>3. ASSUME NEW n \in Name PROVE ideal[0].named[n] = NoColumn
  <2>1. 0 \in 0 .. MaxVersion
    BY VersionAssumption
  <2>2. ideal[0].named[n] \in 0 .. MaxVersion /\ ideal[0].named[n] <= 0
    BY <1>1, <2>1
  <2> QED BY <2>2 DEF NoColumn
<1> QED BY <1>2, <1>3

LEMMA InitIInv == Init => IInv
<1> DEFINE change(v) == IF v = 1 THEN AddColumn(First, "plain") ELSE NoChange
           named(v) == [n \in Name |-> IF v = 1 /\ n = First THEN 1 ELSE NoColumn]
           defined(v) == [o \in Version |-> IF v = 1 /\ o = 1 THEN 1 ELSE 0]
<1> SUFFICES ASSUME Init PROVE IInv
  OBVIOUS
<1>1. /\ latest = 1 /\ dbversion = 0 /\ table = EmptyTable /\ db = NoTable
      /\ history = [v \in Version |-> change(v)]
      /\ ideal = [v \in 0 .. MaxVersion |-> [named |-> named(v), defined |-> defined(v)]]
  BY DEF Init
<1>2. /\ 0 \in 0 .. MaxVersion /\ 1 \in 0 .. MaxVersion /\ 1 \in Version
      /\ \A w \in 1 .. 1 : w = 1 /\ w - 1 = 0
      /\ First \in Name /\ NoColumn = 0
  BY VersionAssumption, NameAssumption DEF Version, NoColumn
<1>3. \A v : /\ named(v) \in [Name -> 0 .. MaxVersion]
             /\ defined(v) \in [Version -> 0 .. MaxVersion]
             /\ change(v) \in Change
  BY <1>2, NameAssumption DEF AddColumn, NoChange, Change, Kinds
<1>4. /\ \A v \in 0 .. MaxVersion : ideal[v].named = named(v) /\ ideal[v].defined = defined(v)
      /\ \A v \in 0 .. MaxVersion, n \in Name :
            ideal[v].named[n] = IF v = 1 /\ n = First THEN 1 ELSE 0
      /\ \A v \in Version : history[v].kind = "plain"
  BY <1>1, <1>2 DEF AddColumn, NoChange
<1>5. /\ \A o \in Version : ~IsFake(o)
      /\ \A o \in Version : Targets[o] = NoColumn
  BY <1>4 DEF IsFake, Kind, Targets
<1>6. /\ table.version = 0 /\ table.created = FALSE
      /\ IsErased(table, table, ideal[0], Targets)
  <2>1. \A n \in Name : ideal[0].named[n] = NoColumn
    BY <1>2, <1>4
  <2>2. /\ EmptyTable.version = 0 /\ EmptyTable.created = FALSE
        /\ IsErased(EmptyTable, EmptyTable, ideal[0], Targets)
    BY <2>1, EmptyAtStart
  <2> QED BY <1>1, <2>2
<1>7. TypeInv
  <2>1. history \in [Version -> Change]
    BY <1>1, <1>3
  <2>2. ideal \in [0 .. MaxVersion -> Ideals]
    <3>1. \A v : [named |-> named(v), defined |-> defined(v)] \in Ideals
      <4> HIDE DEF named, defined
      <4> QED BY <1>3 DEF Ideals
    <3> HIDE DEF named, defined
    <3> QED BY <1>1, <3>1
  <2>3. table \in Tables
    BY <1>6 DEF IsErased
  <2>4. db \in Databases
    BY <1>1, <1>2 DEF NoTable, Databases
  <2> QED BY <1>1, <1>2, <1>6, <2>1, <2>2, <2>3, <2>4 DEF TypeInv
<1>8. ReleasesInv
  <2>1. \A v \in 0 .. MaxVersion : \A n \in Name : ideal[v].named[n] <= v
    BY <1>4
  <2>2. \A v \in 0 .. latest : Declared(ideal[v], Targets)
    <3>1. ASSUME NEW v \in 0 .. latest PROVE Declared(ideal[v], Targets)
      <4>1. \A n \in Name : ideal[v].named[n] = 0 \/ ideal[v].named[n] = 1
        BY <1>1, <1>2, <1>4, VersionAssumption
      <4> QED BY <1>2, <1>5, <4>1 DEF Declared
    <3> QED BY <3>1
  <2>3. history[1] = AddColumn(First, "plain")
    BY <1>1, <1>2
  <2>4. Legal(ideal[0], history[1], Targets)
    BY <1>2, <1>4, <2>3 DEF Legal, AddColumn
  <2>5. ideal[1] = Meant(ideal[0], 1, history[1])
    <3>1. ideal[0] = [named |-> named(0), defined |-> defined(0)]
          /\ ideal[1] = [named |-> named(1), defined |-> defined(1)]
      BY <1>1, <1>2
    <3>2. /\ [named(0) EXCEPT ![First] = 1] = named(1)
          /\ [defined(0) EXCEPT ![1] = 1] = defined(1)
      BY <1>2
    <3> DEFINE meant == Meant(ideal[0], 1, history[1])
    <3>3. /\ ideal[0] \in Ideals /\ history[1] \in Change
          /\ history[1].do = "add" /\ history[1].name = First
      BY <1>2, <1>7, <2>3 DEF TypeInv, AddColumn
    <3>4. /\ meant \in Ideals
          /\ meant.named = [ideal[0].named EXCEPT ![First] = 1]
          /\ meant.defined = [ideal[0].defined EXCEPT ![1] = 1]
      BY <1>2, <3>3, MeantAdds
    <3> HIDE DEF meant, named, defined
    <3>5. meant.named = named(1) /\ meant.defined = defined(1)
      BY <3>1, <3>2, <3>4
    <3> QED BY <3>1, <3>4, <3>5 DEF Ideals, meant
  <2>6. \A v \in 1 .. latest :
          /\ Legal(ideal[v - 1], history[v], Targets)
          /\ ideal[v] = Meant(ideal[v - 1], v, history[v])
    BY <1>1, <1>2, <2>4, <2>5
  <2> QED BY <1>5, <2>1, <2>2, <2>6 DEF ReleasesInv
<1>9. TableInv
  BY <1>6 DEF TableInv, IsErased
<1>10. DatabaseInv
  BY <1>6 DEF DatabaseInv
<1> QED BY <1>7, <1>8, <1>9, <1>10 DEF IInv

(* A release is made of one legal change.                                  *)
(* Only columns are renamed, and what is declared is declared on a column. *)
IsOfColumn(i, c) ==
    /\ c.do = "rename" => ~IsFake(i.named[c.old])
    /\ c.kind \in {"index", "constraint"} => c.do = "add" /\ ~IsFake(i.named[c.on])

LEMMA ReleasesLegal ==
    ASSUME Releases, TypeInv
    PROVE  \E c \in Change :
              /\ Release(c) /\ Legal(ideal[latest], c, Targets)
              /\ c.kind \in {"index", "constraint"} =>
                    c.do = "add" /\ c.on \in Name /\ ideal[latest].named[c.on] # NoColumn
              /\ IsOfColumn(ideal[latest], c)
<1> DEFINE named == ideal[latest].named
           free(n) == named[n] = NoColumn
           column(n) == ~free(n) /\ ~IsFake(named[n])
           declaredOn(n) == \E m \in Name : /\ ~free(m) /\ IsFake(named[m])
                                            /\ Target(named[m]) = named[n]
<1>1. CASE \E n \in Name, k \in {"plain", "special"} : free(n) /\ Release(AddColumn(n, k))
  <2>1. PICK n \in Name, k \in {"plain", "special"} : free(n) /\ Release(AddColumn(n, k))
    BY <1>1
  <2>2. /\ AddColumn(n, k) \in Change /\ Legal(ideal[latest], AddColumn(n, k), Targets)
        /\ AddColumn(n, k).kind \notin {"index", "constraint"}
        /\ IsOfColumn(ideal[latest], AddColumn(n, k))
    BY <2>1 DEF AddColumn, Change, Legal, Kinds, IsOfColumn
  <2> QED BY <2>1, <2>2
<1>2. CASE \E n, m \in Name, k \in {"index", "constraint"} :
              free(n) /\ column(m) /\ Release(AddOn(n, k, m))
  <2>1. PICK n \in Name, m \in Name, k \in {"index", "constraint"} :
              free(n) /\ column(m) /\ Release(AddOn(n, k, m))
    BY <1>2
  <2>2. /\ AddOn(n, k, m) \in Change /\ Legal(ideal[latest], AddOn(n, k, m), Targets)
        /\ AddOn(n, k, m).do = "add" /\ AddOn(n, k, m).on = m
        /\ IsOfColumn(ideal[latest], AddOn(n, k, m))
    BY <2>1 DEF AddOn, Change, Legal, Kinds, IsOfColumn
  <2> QED BY <2>1, <2>2
<1>3. CASE \E n \in Name : column(n) /\ Release(AlterColumn(n))
  <2>1. PICK n \in Name : column(n) /\ Release(AlterColumn(n))
    BY <1>3
  <2>2. /\ AlterColumn(n) \in Change /\ Legal(ideal[latest], AlterColumn(n), Targets)
        /\ AlterColumn(n).kind \notin {"index", "constraint"}
        /\ IsOfColumn(ideal[latest], AlterColumn(n))
    BY <2>1 DEF AlterColumn, Change, Legal, Kinds, IsOfColumn
  <2> QED BY <2>1, <2>2
<1>4. CASE \E n \in Name : ~free(n) /\ ~declaredOn(n) /\ Release(DropColumn(n))
  <2>1. PICK n \in Name : ~free(n) /\ ~declaredOn(n) /\ Release(DropColumn(n))
    BY <1>4
  <2>2. ASSUME NEW m \in Name, ~free(m) PROVE Targets[named[m]] # named[n]
    <3>1. named[m] \in Version
      <4>1. latest \in 0 .. MaxVersion
        BY VersionAssumption DEF TypeInv, Version
      <4>2. named[m] \in 0 .. MaxVersion
        BY <4>1 DEF TypeInv, Ideals
      <4> QED BY <2>2, <4>2 DEF Version, NoColumn
    <3>2. Targets[named[m]] = IF IsFake(named[m]) THEN Target(named[m]) ELSE NoColumn
      BY <3>1 DEF Targets
    <3> QED BY <2>1, <2>2, <3>2
  <2>3. /\ DropColumn(n) \in Change /\ DropColumn(n).do = "drop" /\ DropColumn(n).old = n
        /\ DropColumn(n).kind \notin {"index", "constraint"}
        /\ IsOfColumn(ideal[latest], DropColumn(n))
    BY DEF DropColumn, Change, Kinds, IsOfColumn
  <2>4. Legal(ideal[latest], DropColumn(n), Targets)
    BY <2>1, <2>2, <2>3 DEF Legal
  <2> QED BY <2>1, <2>3, <2>4
<1>5. CASE \E n, m \in Name : column(n) /\ free(m) /\ Release(RenameColumn(n, m))
  <2>1. PICK n \in Name, m \in Name : column(n) /\ free(m) /\ Release(RenameColumn(n, m))
    BY <1>5
  <2>2. /\ RenameColumn(n, m) \in Change /\ Legal(ideal[latest], RenameColumn(n, m), Targets)
        /\ RenameColumn(n, m).kind \notin {"index", "constraint"}
        /\ IsOfColumn(ideal[latest], RenameColumn(n, m))
    BY <2>1 DEF RenameColumn, Change, Legal, Kinds, IsOfColumn
  <2> QED BY <2>1, <2>2
<1> QED BY <1>1, <1>2, <1>3, <1>4, <1>5 DEF Releases

(* Who has been released already says the same to a later release.         *)
LEMMA SameTargets ==
    ASSUME NEW i, NEW c, NEW target, NEW other,
           \A n \in Name : i.named[n] # NoColumn => other[i.named[n]] = target[i.named[n]]
    PROVE  /\ Declared(i, target) => Declared(i, other)
           /\ Legal(i, c, target) => Legal(i, c, other)
<1>1. Declared(i, target) => Declared(i, other)
  BY DEF Declared
<1>2. ASSUME Legal(i, c, target), c.do = "drop" PROVE Legal(i, c, other)
  <2>1. /\ c.old \in Name /\ i.named[c.old] # NoColumn
        /\ \A m \in Name : i.named[m] # NoColumn => target[i.named[m]] # i.named[c.old]
    BY <1>2 DEF Legal
  <2> QED BY <1>2, <2>1 DEF Legal
<1>3. ASSUME Legal(i, c, target), c.do # "drop" PROVE Legal(i, c, other)
  BY <1>3 DEF Legal
<1> QED BY <1>1, <1>2, <1>3

(* A release adds one version, which no column of the table has and which  *)
(* the database has not reached.                                           *)
LEMMA ReleaseStep ==
    ASSUME IInv, NEW c \in Change, Release(c), Legal(ideal[latest], c, Targets),
           c.kind \in {"index", "constraint"} =>
              c.do = "add" /\ c.on \in Name /\ ideal[latest].named[c.on] # NoColumn
    PROVE  IInv'
<1> SUFFICES ASSUME NEW v, v = latest + 1 PROVE IInv'
  OBVIOUS
<1> DEFINE before == ideal[latest]
           meant == Meant(before, v, c)
<1>1. /\ TypeInv /\ ReleasesInv /\ TableInv /\ DatabaseInv
  BY DEF IInv
<1>2. /\ latest \in Version /\ history \in [Version -> Change]
      /\ ideal \in [0 .. MaxVersion -> Ideals]
      /\ table \in Tables /\ table.version <= latest /\ db \in Databases
      /\ dbversion \in 0 .. latest
  BY <1>1 DEF TypeInv
<1>3. /\ latest < MaxVersion /\ latest' = v
      /\ history' = [history EXCEPT ![v] = c]
      /\ ideal' = [ideal EXCEPT ![v] = meant]
      /\ table' = table /\ db' = db /\ dbversion' = dbversion
  BY DEF Release
<1>4. /\ v \in Version /\ v \in 0 .. MaxVersion /\ latest \in Nat /\ v - 1 = latest
      /\ MaxVersion \in Nat /\ latest \in 0 .. MaxVersion /\ latest # v
  BY <1>2, <1>3, VersionAssumption DEF Version
<1>5. before \in Ideals /\ \A n \in Name : before.named[n] <= v - 1
  BY <1>1, <1>2, <1>4 DEF ReleasesInv
<1>6. meant \in Ideals /\ \A n \in Name : meant.named[n] <= v
  <2>1. Legal(before, c, Targets)
    OBVIOUS
  <2> HIDE DEF before
  <2> QED BY <1>4, <1>5, <2>1, MeantIs
<1> HIDE DEF before, meant
<1>7. /\ \A w \in 0 .. MaxVersion : ideal'[w] = IF w = v THEN meant ELSE ideal[w]
      /\ \A w \in Version : history'[w] = IF w = v THEN c ELSE history[w]
  BY <1>2, <1>3, <1>4
<1>8. TypeInv'
  <2>1. ideal' \in [0 .. MaxVersion -> Ideals]
    BY <1>2, <1>3, <1>6
  <2>2. history' \in [Version -> Change]
    BY <1>2, <1>3
  <2>3. /\ latest' \in Version /\ table' \in Tables /\ table'.version <= latest'
        /\ db' \in Databases /\ dbversion' \in 0 .. latest'
    <3>1. table.version \in 0 .. MaxVersion
      BY <1>2, Fields
    <3> QED BY <1>2, <1>3, <1>4, <3>1
  <2> QED BY <2>1, <2>2, <2>3 DEF TypeInv
<1>9. /\ table.version \in 0 .. MaxVersion /\ table.version # v
      /\ dbversion \in 0 .. MaxVersion /\ dbversion # v
  BY <1>2, <1>4, Fields
<1>10. /\ ideal'[table.version] = ideal[table.version] /\ ideal'[dbversion] = ideal[dbversion]
  BY <1>7, <1>9
<1>11. ASSUME NEW o \in Version, o # v
       PROVE  /\ history'[o] = history[o] /\ ideal'[o] = ideal[o]
              /\ Kind(o)' = Kind(o) /\ IsFake(o)' = IsFake(o) /\ Targets'[o] = Targets[o]
  <2>1. o \in 0 .. MaxVersion
    BY <1>4 DEF Version
  <2>2. history'[o] = history[o] /\ ideal'[o] = ideal[o]
    BY <1>7, <1>11, <2>1
  <2>3. Kind(o)' = Kind(o) /\ IsFake(o)' = IsFake(o)
    BY <2>2 DEF Kind, IsFake
  <2>4. Targets[o] = IF IsFake(o) THEN ideal[o].named[history[o].on] ELSE NoColumn
    BY DEF Targets, Target
  <2>5. Targets'[o] = IF IsFake(o)' THEN ideal'[o].named[history'[o].on] ELSE NoColumn
    BY DEF Targets, Target
  <2> QED BY <2>2, <2>3, <2>4, <2>5
<1>12. ASSUME NEW w \in 0 .. latest
       PROVE  /\ w \in 0 .. MaxVersion /\ w # v /\ ideal'[w] = ideal[w]
              /\ \A n \in Name : ideal[w].named[n] # NoColumn =>
                    Targets'[ideal[w].named[n]] = Targets[ideal[w].named[n]]
  <2>1. w \in 0 .. MaxVersion /\ w # v
    BY <1>2, <1>4, <1>12
  <2>2. ideal[w].named \in [Name -> 0 .. MaxVersion] /\ \A n \in Name : ideal[w].named[n] <= w
    BY <1>1, <1>2, <2>1 DEF Ideals, ReleasesInv
  <2>3. ASSUME NEW n \in Name, ideal[w].named[n] # NoColumn
        PROVE  ideal[w].named[n] \in Version /\ ideal[w].named[n] # v
    <3>1. ideal[w].named[n] \in 0 .. MaxVersion /\ ideal[w].named[n] <= w
      BY <2>2
    <3> QED BY <1>4, <2>3, <3>1 DEF Version, NoColumn
  <2> QED BY <1>7, <1>11, <2>1, <2>3
<1>13. latest \in 0 .. latest
  BY <1>4
<1>14. Declared(before, Targets') /\ Legal(before, c, Targets')
  BY <1>1, <1>12, <1>13, SameTargets DEF before, ReleasesInv
<1>15. /\ IsFake(v)' <=> c.kind \in {"index", "constraint"}
       /\ Targets'[v] = IF c.kind \in {"index", "constraint"} THEN meant.named[c.on] ELSE NoColumn
  <2>1. history'[v] = c /\ ideal'[v] = meant
    BY <1>4, <1>7
  <2>2. IsFake(v)' <=> c.kind \in {"index", "constraint"}
    BY <2>1 DEF IsFake, Kind
  <2>3. Targets'[v] = IF IsFake(v)' THEN ideal'[v].named[history'[v].on] ELSE NoColumn
    BY <1>4 DEF Targets, Target
  <2> QED BY <2>1, <2>2, <2>3
<1>16. Declared(meant, Targets')
  <2>1. IsTargetOf(Targets'[v], before, v, c)
    BY <1>15 DEF IsTargetOf, meant
  <2> QED BY <1>4, <1>5, <1>14, <2>1, DeclaredStays DEF meant
<1>17. ReleasesInv'
  <2>1. \A w \in 0 .. MaxVersion : \A n \in Name : ideal'[w].named[n] <= w
    BY <1>1, <1>6, <1>7 DEF ReleasesInv
  <2>2. ASSUME NEW o \in Version, IsFake(o)'
        PROVE  history'[o].on \in Name /\ Targets'[o] # NoColumn
    <3>1. CASE o = v
      <4>1. /\ history'[o] = c /\ Targets'[o] = meant.named[c.on]
            /\ c.do = "add" /\ c.on \in Name /\ before.named[c.on] # NoColumn
        BY <1>7, <1>15, <2>2, <3>1 DEF before
      <4>2. meant.named = [before.named EXCEPT ![c.name] = v]
        BY <1>4, <1>5, <4>1, MeantAdds DEF meant
      <4>3. before.named \in [Name -> 0 .. MaxVersion] /\ v # NoColumn
        BY <1>4, <1>5 DEF Ideals, Version, NoColumn
      <4> QED BY <4>1, <4>2, <4>3
    <3>2. CASE o # v
      BY <1>1, <1>11, <2>2, <3>2 DEF ReleasesInv
    <3> QED BY <3>1, <3>2
  <2>3. ASSUME NEW w \in 0 .. latest' PROVE Declared(ideal'[w], Targets')
    <3>1. CASE w = v
      BY <1>4, <1>7, <1>16, <3>1
    <3>2. CASE w # v
      <4>1. w \in 0 .. latest
        BY <1>3, <1>4, <3>2
      <4>2. Declared(ideal[w], Targets)
        BY <1>1, <4>1 DEF ReleasesInv
      <4> QED BY <1>12, <4>1, <4>2, SameTargets
    <3> QED BY <3>1, <3>2
  <2>4. ASSUME NEW w \in 1 .. latest'
        PROVE  /\ Legal(ideal'[w - 1], history'[w], Targets')
               /\ ideal'[w] = Meant(ideal'[w - 1], w, history'[w])
    <3>1. w \in Version /\ w \in 0 .. MaxVersion /\ w - 1 \in 0 .. latest
      BY <1>2, <1>3, <1>4 DEF Version
    <3>2. ideal'[w - 1] = ideal[w - 1]
      BY <1>12, <3>1
    <3>3. CASE w = v
      <4>1. ideal'[w - 1] = before /\ history'[w] = c /\ ideal'[w] = meant
        BY <1>4, <1>7, <3>1, <3>2, <3>3 DEF before
      <4> QED BY <1>14, <3>3, <4>1 DEF meant
    <3>4. CASE w # v
      <4>1. w \in 1 .. latest
        BY <1>3, <1>4, <3>4
      <4>2. history'[w] = history[w] /\ ideal'[w] = ideal[w]
        BY <1>7, <3>1, <3>4
      <4>3. /\ Legal(ideal[w - 1], history[w], Targets)
            /\ ideal[w] = Meant(ideal[w - 1], w, history[w])
        BY <1>1, <4>1 DEF ReleasesInv
      <4>4. Legal(ideal[w - 1], history[w], Targets')
        BY <1>12, <3>1, <4>3, SameTargets
      <4> QED BY <3>2, <4>2, <4>3, <4>4
    <3> QED BY <3>3, <3>4
  <2> QED BY <2>1, <2>2, <2>3, <2>4 DEF ReleasesInv
<1>18. \A o \in Entries(table) : o \in Version /\ o # v
  <2>1. ASSUME NEW o \in Entries(table) PROVE o \in Version /\ o # v
    <3>1. o \in Version /\ table.name[o] \in Name
      BY <1>2, Fields DEF Entries
    <3>2. ideal[table.version].named[table.name[o]] = o
      BY <1>1, <3>1 DEF TableInv, IsMeant
    <3>3. o <= table.version
      BY <1>1, <1>9, <3>1, <3>2 DEF ReleasesInv
    <3> QED BY <1>2, <1>4, <1>9, <3>1, <3>3
  <2> QED BY <2>1
<1>19. TableInv'
  <2>1. /\ IsMeant(table, ideal[table.version]) /\ Unambiguous(table)
        /\ Follow(table, Targets) /\ Recorded(table, table.version)
    BY <1>1 DEF TableInv
  <2>2. Follow(table, Targets')
    BY <1>11, <1>18, <2>1 DEF Follow
  <2> QED BY <1>3, <1>10, <2>1, <2>2 DEF TableInv
<1>20. DatabaseInv'
  <2> SUFFICES ASSUME table.created
               PROVE  table.version >= dbversion /\ Told(table, ideal[dbversion].named)'
    BY <1>3 DEF DatabaseInv
  <2>1. table.version >= dbversion /\ Told(table, ideal[dbversion].named)
    BY <1>1 DEF DatabaseInv
  <2>2. \A o \in Range(table.unsynced) : o \in Version /\ o # v
    <3>1. \A o \in Range(table.unsynced) : o \in Version /\ o <= table.version
      BY <1>1, <1>2, Fields DEF TableInv, Recorded
    <3> QED BY <1>2, <1>4, <1>9, <3>1 DEF Version
  <2>3. Told(table, ideal[dbversion].named)'
    BY <1>3, <1>10, <1>11, <1>18, <2>1, <2>2 DEF Told
  <2> QED BY <2>1, <2>3
<1> QED BY <1>8, <1>17, <1>19, <1>20 DEF IInv

(* Every other step leaves the releases alone: it is enough to say what it *)
(* does to the table, to the database and to its version.                  *)
LEMMA ProgramStep ==
    ASSUME IInv, UNCHANGED <<latest, history, ideal>>,
           table' \in Tables, table'.version <= latest,
           db' \in Databases, dbversion' \in 0 .. latest,
           IsMeant(table', ideal[table'.version]), Unambiguous(table'),
           Follow(table', Targets), Recorded(table', table'.version),
           table'.created =>
              table'.version >= dbversion' /\ Told(table', ideal[dbversion'].named)
    PROVE  IInv'
<1>1. TypeInv /\ ReleasesInv
  BY DEF IInv
<1>2. /\ Targets' = Targets
      /\ \A o : (Kind(o)' = Kind(o) /\ IsFake(o)' = IsFake(o))
  BY DEF Targets, Target, Kind, IsFake
<1>3. TypeInv'
  BY <1>1 DEF TypeInv
<1>4. ReleasesInv'
  BY <1>1, <1>2 DEF ReleasesInv
<1>5. TableInv'
  BY <1>2 DEF TableInv
<1>6. DatabaseInv'
  BY <1>2 DEF DatabaseInv, Told
<1> QED BY <1>3, <1>4, <1>5, <1>6 DEF IInv

(* The next migration finds the table as the ones before it left it.       *)
LEMMA NextMigration ==
    ASSUME IInv, table.version < latest, NEW v, v = table.version + 1
    PROVE  /\ v \in Version /\ v \in 0 .. MaxVersion /\ v <= latest /\ v - 1 = table.version
           /\ Before(table, v, ideal[v - 1], Targets)
           /\ history[v] \in Change /\ Legal(ideal[v - 1], history[v], Targets)
           /\ ideal[v] = Meant(ideal[v - 1], v, history[v])
           /\ IsTargetOf(Targets[v], ideal[v - 1], v, history[v])
<1>1. /\ TypeInv /\ ReleasesInv /\ TableInv
  BY DEF IInv
<1>2. /\ latest \in Version /\ history \in [Version -> Change]
      /\ ideal \in [0 .. MaxVersion -> Ideals] /\ table \in Tables
  BY <1>1 DEF TypeInv
<1>3. /\ v \in Version /\ v \in 1 .. latest /\ v \in 0 .. MaxVersion
      /\ v <= latest /\ v - 1 = table.version /\ v - 1 \in 0 .. MaxVersion
  <2>1. table.version \in 0 .. MaxVersion
    BY <1>2, Fields
  <2>2. latest \in 0 .. MaxVersion /\ MaxVersion \in Nat
    BY <1>2, VersionAssumption DEF Version
  <2> QED BY <2>1, <2>2 DEF Version
<1> DEFINE before == ideal[v - 1]
<1>4. /\ history[v] \in Change /\ Legal(before, history[v], Targets)
      /\ ideal[v] = Meant(before, v, history[v])
  BY <1>1, <1>2, <1>3 DEF ReleasesInv
<1>5. IsTargetOf(Targets[v], before, v, history[v])
  <2>1. Targets[v] = IF IsFake(v) THEN Target(v) ELSE NoColumn
    BY <1>3 DEF Targets
  <2> HIDE DEF before
  <2> QED BY <1>4, <2>1 DEF IsTargetOf, IsFake, Kind, Target
<1>6. Before(table, v, before, Targets)
  <2>1. \A o \in Version : Targets[o] \in Int /\ Targets[o] <= o
    BY <1>1, ReleasesSay
  <2>2. before \in Ideals /\ \A n \in Name : before.named[n] <= v - 1
    BY <1>1, <1>2, <1>3 DEF ReleasesInv
  <2>3. /\ IsMeant(table, before) /\ Unambiguous(table)
        /\ Follow(table, Targets) /\ Recorded(table, v - 1)
    BY <1>1, <1>3 DEF TableInv
  <2> HIDE DEF before
  <2> QED BY <1>2, <1>3, <2>1, <2>2, <2>3 DEF Before
<1> QED BY <1>3, <1>4, <1>5, <1>6

LEMMA IncludeStep == ASSUME IInv, Include PROVE IInv'
<1> SUFFICES ASSUME NEW v, v = table.version + 1 PROVE IInv'
  OBVIOUS
<1> DEFINE before == ideal[v - 1]
           meant == ideal[v]
           c == history[v]
           q == Included(table, v, c)
<1>1. /\ TypeInv /\ DatabaseInv
  BY DEF IInv
<1>2. /\ latest \in Version /\ table \in Tables /\ db \in Databases /\ dbversion \in 0 .. latest
  BY <1>1 DEF TypeInv
<1>3. /\ table.version < latest
      /\ table' = IF dbversion = v THEN EraseRecords(TraceName(q)) ELSE q
      /\ UNCHANGED <<latest, history, ideal, db, dbversion>>
  BY DEF Include
<1>4. /\ v \in Version /\ v \in 0 .. MaxVersion /\ v <= latest /\ v - 1 = table.version
      /\ Before(table, v, before, Targets)
      /\ c \in Change /\ Legal(before, c, Targets) /\ meant = Meant(before, v, c)
      /\ IsTargetOf(Targets[v], before, v, c)
  BY <1>3, NextMigration
<1>5. /\ q \in Tables /\ q.version = v /\ q.created = table.created
      /\ IsMeant(q, meant) /\ Unambiguous(q) /\ Follow(q, Targets) /\ Recorded(q, v)
      /\ \A stored : table.created /\ Told(table, stored) => Told(q, stored)
  <2> HIDE DEF c, before, meant
  <2>1. /\ After(table, q, v, Meant(before, v, c), Targets)
        /\ q.version = v
    BY <1>4, IncludedAfter
  <2> HIDE DEF q
  <2> QED BY <1>4, <2>1 DEF After
<1> HIDE DEF q, before, c
<1>6. CASE dbversion = v
  <2>1. IsErased(q, EraseRecords(TraceName(q)), meant, Targets)
    BY <1>5, ErasedAfter
  <2>2. IsErased(q, table', meant, Targets)
    BY <1>3, <1>6, <2>1
  <2>3. table' \in Tables /\ table'.version = v /\ dbversion' = v /\ v >= v
    BY <1>3, <1>4, <1>5, <1>6, <2>2 DEF IsErased, Version
  <2> QED BY <1>2, <1>3, <1>4, <2>2, <2>3, ProgramStep DEF IsErased
<1>7. CASE dbversion # v
  <2>1. table' = q /\ dbversion' = dbversion /\ db' = db
    BY <1>3, <1>7
  <2>2. ASSUME q.created PROVE v >= dbversion /\ Told(q, ideal[dbversion].named)
    <3>1. table.created /\ table.version >= dbversion /\ Told(table, ideal[dbversion].named)
      BY <1>1, <1>5, <2>2 DEF DatabaseInv
    <3>2. v >= dbversion
      BY <1>2, <1>4, <3>1 DEF Version
    <3> QED BY <1>5, <3>1, <3>2
  <2> QED BY <1>2, <1>3, <1>4, <1>5, <2>1, <2>2, ProgramStep
<1> QED BY <1>6, <1>7

LEMMA SyncStep == ASSUME IInv, Sync PROVE IInv'
<1> DEFINE q == TraceName(table)
<1>1. /\ TypeInv /\ TableInv
  BY DEF IInv
<1>2. table \in Tables /\ table.version <= latest /\ db \in Databases
  BY <1>1 DEF TypeInv
<1>3. /\ table' = EraseRecords(q) /\ dbversion' = table.version
      /\ db' = Synchronized(q, db).db
      /\ UNCHANGED <<latest, history, ideal>>
  BY DEF Sync
<1>4. /\ IsMeant(table, ideal[table.version]) /\ Unambiguous(table)
      /\ Follow(table, Targets)
  BY <1>1 DEF TableInv
<1>5. IsErased(table, table', ideal[table.version], Targets)
  BY <1>2, <1>3, <1>4, ErasedAfter
<1>6. db' \in Databases
  <2>1. q \in Tables
    BY <1>2, <1>4, TraceNameKeeps DEF SameColumns
  <2> HIDE DEF q
  <2> QED BY <1>2, <1>3, <2>1, SynchronizedType
<1>7. table' \in Tables /\ table'.version = table.version
  BY <1>5 DEF IsErased
<1>8. /\ table.version \in 0 .. latest /\ table.version >= table.version
      /\ dbversion' \in 0 .. latest
  BY <1>1, <1>2, <1>3, Fields DEF TypeInv, Version
<1> QED BY <1>2, <1>3, <1>5, <1>6, <1>7, <1>8, ProgramStep DEF IsErased

LEMMA RestartStep == ASSUME IInv, Restart PROVE IInv'
<1>1. /\ TypeInv /\ ReleasesInv
  BY DEF IInv
<1>2. /\ table' = EmptyTable /\ UNCHANGED <<latest, history, ideal, db, dbversion>>
  BY DEF Restart
<1>3. 0 <= latest /\ db \in Databases /\ dbversion \in 0 .. latest
  BY <1>1 DEF TypeInv, Version
<1>4. \A n \in Name : ideal[0].named[n] = NoColumn
  BY <1>1, ReleasesSay
<1>5. /\ EmptyTable.version = 0 /\ EmptyTable.created = FALSE
      /\ IsErased(EmptyTable, EmptyTable, ideal[0], Targets)
  BY <1>4, EmptyAtStart
<1>6. /\ table'.version = 0 /\ table'.created = FALSE
      /\ IsErased(table', table', ideal[0], Targets)
  BY <1>2, <1>5
<1> QED BY <1>2, <1>3, <1>6, ProgramStep DEF IsErased

LEMMA StepKeeps == ASSUME IInv, [Next]_vars PROVE IInv'
<1>1. CASE Releases
  <2>1. PICK c \in Change :
              /\ Release(c) /\ Legal(ideal[latest], c, Targets)
              /\ c.kind \in {"index", "constraint"} =>
                    c.do = "add" /\ c.on \in Name /\ ideal[latest].named[c.on] # NoColumn
    BY <1>1, ReleasesLegal DEF IInv
  <2> QED BY <2>1, ReleaseStep
<1>2. CASE Include
  BY <1>2, IncludeStep
<1>3. CASE Sync
  BY <1>3, SyncStep
<1>4. CASE Restart
  BY <1>4, RestartStep
<1>5. CASE UNCHANGED vars
  <2>1. /\ UNCHANGED <<latest, history, ideal>> /\ table' = table /\ db' = db
        /\ dbversion' = dbversion
    BY <1>5 DEF vars
  <2>2. TypeInv /\ TableInv /\ DatabaseInv
    BY DEF IInv
  <2> QED BY <2>1, <2>2, ProgramStep DEF TypeInv, TableInv, DatabaseInv
<1> QED BY <1>1, <1>2, <1>3, <1>4, <1>5 DEF Next

(* The inductive invariant holds: it says more than the properties do      *)
(* below, that no name in use is on record as a former one, and that each  *)
(* name an index or a constraint was declared with leads, by a record of   *)
(* its own, to the column it was declared on.                              *)
THEOREM Invariance == Spec => []IInv
<1>1. Init => IInv
  BY InitIInv
<1>2. IInv /\ [Next]_vars => IInv'
  BY StepKeeps
<1> QED BY <1>1, <1>2, PTL DEF Spec

(* What sq_table_include() and the synchronization make of a table is a    *)
(* table, with its records, and nothing is on record twice.                *)
THEOREM TypeCorrect == Spec => []TypeOK
<1>1. ASSUME IInv PROVE TypeOK
  <2>1. TypeInv /\ Recorded(table, table.version)
    BY <1>1 DEF IInv, TableInv
  <2>2. /\ table \in Tables /\ db \in Databases /\ table.version <= latest
        /\ latest \in Version
    BY <2>1 DEF TypeInv
  <2>3. table.version \in 0 .. latest
    BY <2>2, Fields DEF Version
  <2>4. IsInjective(table.unsynced)
    BY <2>1 DEF Recorded
  <2> QED BY <2>1, <2>2, <2>3, <2>4, Fields, DatabaseFields DEF TypeInv, TypeOK
<1> QED BY <1>1, Invariance, PTL

(* Whatever was added, altered, renamed and dropped since the last         *)
(* synchronization, and however often the program was restarted, the       *)
(* records say by which name the database knows a column, and of no column *)
(* that is gone.                                                           *)
THEOREM RecordsCorrect == Spec => []RecordsAreTrue
<1>1. ASSUME IInv PROVE RecordsAreTrue
  <2>1. table \in Tables
    BY <1>1 DEF IInv, TypeInv
  <2>2. table.created => Told(table, ideal[dbversion].named)
    BY <1>1 DEF IInv, DatabaseInv
  <2>3. \A o : IsPending(table, o) <=> o \in Range(table.unsynced)
    BY <2>1, PendingIs
  <2>4. \A i \in DOMAIN table.unsynced : table.unsynced[i] \in Range(table.unsynced)
    BY DEF Range
  <2> QED BY <2>2, <2>3, <2>4 DEF Told, Columns, RecordsAreTrue
<1> QED BY <1>1, Invariance, PTL

(* The table in memory has what the migrations mean, each column under the *)
(* name and with the definition they give it last, and nothing else; and   *)
(* its records are true.                                                   *)
THEOREM TableCorrect == Spec => []TableIsMeant
<1>1. ASSUME IInv, TypeOK, RecordsAreTrue PROVE TableIsMeant
  BY <1>1 DEF IInv, TableInv, IsMeant, TableIsMeant
<1> QED BY <1>1, Invariance, TypeCorrect, RecordsCorrect, PTL

(* An index or a constraint leads to the column it was declared on, by the *)
(* name this column has now; the column is there as long as they are.      *)
THEOREM DeclarationsCorrect == Spec => []DeclarationsFollow
<1>1. ASSUME IInv PROVE DeclarationsFollow
  <2>1. /\ TypeInv /\ ReleasesInv /\ table \in Tables /\ Unambiguous(table)
        /\ Follow(table, Targets) /\ IsMeant(table, ideal[table.version])
    BY <1>1 DEF IInv, TypeInv, TableInv
  <2>2. ASSUME NEW o \in Entries(table), IsFake(o)
        PROVE  Resolve(table, table.on[o]) = table.name[Target(o)]
    <3>1. o \in Version /\ table.name[o] \in Name
      BY <2>1, Fields DEF Entries
    <3>2. Targets[o] = Target(o) /\ Targets[o] # NoColumn
      BY <2>1, <2>2, <3>1 DEF Targets, ReleasesInv
    <3>3. ideal[table.version].named[table.name[o]] = o
      BY <2>1, <3>1 DEF IsMeant
    <3>4. table.version \in 0 .. latest /\ o # NoColumn
      BY <2>1, <3>1, Fields DEF TypeInv, Version, NoColumn
    <3>5. PICK m \in Name : ideal[table.version].named[m] = Targets[o]
      <4>1. Declared(ideal[table.version], Targets)
        BY <2>1, <3>4 DEF ReleasesInv
      <4> QED BY <3>1, <3>2, <3>3, <3>4, <4>1 DEF Declared
    <3>6. Targets[o] \in Version
      <4>1. table.version \in 0 .. MaxVersion
        BY <2>1, Fields
      <4>2. ideal[table.version] \in Ideals
        BY <2>1, <4>1 DEF TypeInv
      <4>3. ideal[table.version].named[m] \in 0 .. MaxVersion
        BY <4>2 DEF Ideals
      <4> QED BY <3>2, <3>5, <4>3 DEF Version, NoColumn
    <3>7. table.name[Targets[o]] = m /\ Targets[o] \in Entries(table)
      BY <2>1, <3>5, <3>6, NameAssumption DEF IsMeant, Entries
    <3>8. Leads(table, table.on[o], Targets[o])
      BY <2>1, <3>1, <3>6, <3>7 DEF Follow
    <3> QED BY <2>1, <3>2, <3>6, <3>7, <3>8, ResolveLeads
  <2> QED BY <2>2 DEF DeclarationsFollow
<1> QED BY <1>1, Invariance, PTL

-----------------------------------------------------------------------------
(* The rows.  A second invariant tells what the flags and records of the   *)
(* table say about the migrations that are not in the database yet.        *)

(* What SQLite has ALTER TABLE for.                                        *)
IsApart(v) ==
    \/ Does(v, "rename")
    \/ Does(v, "add") /\ Kind(v) \in {"plain", "index"}
    \/ DropsIndex(v)

NamedOnce(i) ==
    \A n, m \in Name : i.named[n] = i.named[m] /\ i.named[n] # NoColumn => n = m

(* A table is recreated for a reason, and a column of the database is on   *)
(* record for one: it was renamed.                                         *)
RowsInv ==
    /\ \A v \in 0 .. latest : NamedOnce(ideal[v])
    /\ table.created =>
          /\ table.flags \cap Unsupported # {} => \E v \in Pending : ~IsApart(v)
          /\ \A o \in Range(table.unsynced) :
                ~IsFake(o) /\ o <= dbversion => Renames # {}

(* One more migration gives a name to what has none.                       *)
LEMMA OnceStays ==
    ASSUME NEW i \in Ideals, NEW v \in Version, NEW c \in Change, NEW target,
           \A n \in Name : i.named[n] <= v - 1, Legal(i, c, target), NamedOnce(i)
    PROVE  NamedOnce(Meant(i, v, c))
<1> DEFINE named == Meant(i, v, c).named
<1>1. /\ i.named \in [Name -> 0 .. MaxVersion] /\ v \in Nat
      /\ \A n \in Name : i.named[n] # v
      /\ \A n, m \in Name : i.named[n] = i.named[m] /\ i.named[n] # NoColumn => n = m
  <2>1. i.named \in [Name -> 0 .. MaxVersion] /\ v \in Nat
    BY VersionAssumption DEF Ideals, Version
  <2>2. ASSUME NEW n \in Name PROVE i.named[n] # v
    <3>1. i.named[n] \in 0 .. MaxVersion /\ i.named[n] <= v - 1
      BY <2>1
    <3> QED BY <2>1, <3>1, VersionAssumption
  <2> QED BY <2>1, <2>2 DEF NamedOnce
<1>2. /\ c.do \in {"add", "alter", "drop", "rename"}
      /\ c.do = "add" => named = [i.named EXCEPT ![c.name] = v]
      /\ c.do = "alter" => named = i.named
      /\ c.do = "drop" => named = [i.named EXCEPT ![c.old] = NoColumn]
      /\ c.do = "rename" => named = [i.named EXCEPT ![c.name] = i.named[c.old], ![c.old] = NoColumn]
  BY MeantIs DEF Legal
<1>3. \A n, m \in Name : named[n] = named[m] /\ named[n] # NoColumn => n = m
  <2> HIDE DEF named
  <2>1. CASE c.do = "add"
    <3>1. \A n \in Name : named[n] = IF n = c.name THEN v ELSE i.named[n]
      BY <1>1, <1>2, <2>1
    <3> QED BY <1>1, <3>1
  <2>2. CASE c.do = "alter"
    BY <1>1, <1>2, <2>2
  <2>3. CASE c.do = "drop"
    <3>1. \A n \in Name : named[n] = IF n = c.old THEN NoColumn ELSE i.named[n]
      BY <1>1, <1>2, <2>3
    <3> QED BY <1>1, <3>1
  <2>4. CASE c.do = "rename"
    <3>1. c.old \in Name /\ c.name \in Name /\ i.named[c.old] # NoColumn
          /\ i.named[c.name] = NoColumn
      BY <2>4 DEF Legal
    <3>2. \A n \in Name : named[n] = IF n = c.old THEN NoColumn
                                     ELSE IF n = c.name THEN i.named[c.old] ELSE i.named[n]
      BY <1>1, <1>2, <2>4, <3>1
    <3> QED BY <1>1, <3>1, <3>2
  <2> QED BY <1>2, <2>1, <2>2, <2>3, <2>4
<1> QED BY <1>3 DEF NamedOnce

(* The flag and the record that a migration leaves.                        *)
LEMMA IncludedMarks ==
    ASSUME NEW t, NEW v \in Version, NEW c \in Change, NEW i, NEW target,
           Before(t, v, i, target), Legal(i, c, target)
    PROVE  /\ Included(t, v, c).flags \cap Unsupported # {} =>
                 \/ t.flags \cap Unsupported # {}
                 \/ ~ \/ c.do = "rename"
                      \/ c.do = "add" /\ c.kind \in {"plain", "index"}
                      \/ c.do = "drop" /\ Kind(i.named[c.old]) = "index"
           /\ \A o \in Range(Included(t, v, c).unsynced) :
                 \/ o \in Range(t.unsynced) \/ o = v \/ IsFake(o)
                 \/ c.do = "rename"
<1> DEFINE q == Apply(t, v, c)
<1>1. /\ t \in Tables /\ Unambiguous(t) /\ Follow(t, target) /\ SoFar(t, v, i, target)
      /\ IsInjective(t.unsynced)
  BY BeforeSoFar DEF Before, Recorded
<1>2. \A n \in Name : i.named[n] # NoColumn => t.name[i.named[n]] \in Name
  BY <1>1 DEF SoFar
<1>3. /\ q.flags \cap Unsupported # {} =>
            \/ t.flags \cap Unsupported # {}
            \/ ~ \/ c.do = "rename"
                 \/ c.do = "add" /\ c.kind \in {"plain", "index"}
                 \/ c.do = "drop" /\ Kind(i.named[c.old]) = "index"
      /\ \A o \in Range(q.unsynced) :
            o \in Range(t.unsynced) \/ o = v \/ IsFake(o) \/ c.do = "rename"
      /\ q \in Tables
  <2>1. CASE c.do = "add"
    <3>1. IsAdded(t, ReuseName(t, c.name), q, v, c)
      BY <1>1, <2>1, ApplyIs, AddFields DEF Legal
    <3>2. /\ q \in Tables /\ q.flags = t.flags \cup {AddedFlag(c.kind)}
          /\ q.unsynced = t.unsynced \/ q.unsynced = <<v>> \o t.unsynced
      BY <3>1 DEF IsAdded
    <3>3. Range(q.unsynced) \subseteq Range(t.unsynced) \cup {v}
      <4>1. t.unsynced \in Seq(Version)
        BY <1>1, Fields
      <4>2. Range(<<v>> \o t.unsynced) = Range(t.unsynced) \cup {v}
        BY <4>1, PrependRange
      <4> HIDE DEF q
      <4> QED BY <3>2, <4>2
    <3>4. c.kind \in {"plain", "index"} => AddedFlag(c.kind) \notin Unsupported
      BY DEF AddedFlag, Unsupported
    <3> HIDE DEF q
    <3> QED BY <2>1, <3>2, <3>3, <3>4
  <2>2. CASE c.do = "alter"
    <3>1. IsAltered(t, q, i.named[c.name], v)
      BY <1>1, <2>2, ApplyIs, AlterFields
    <3> HIDE DEF q
    <3> QED BY <2>2, <3>1 DEF IsAltered
  <2>3. CASE c.do = "drop"
    <3>1. IsDropped(t, q, i.named[c.old])
      BY <1>1, <1>2, <2>3, ApplyIs, DropFields DEF Legal
    <3> HIDE DEF q
    <3>2. /\ q \in Tables
          /\ Kind(i.named[c.old]) = "index" => q.flags = t.flags
          /\ \A o \in Range(q.unsynced) : o \in Range(t.unsynced) \/ Kind(o) = "index"
      BY <3>1 DEF IsDropped
    <3> QED BY <2>3, <3>2 DEF IsFake
  <2>4. CASE c.do = "rename"
    <3>1. IsRenamed(t, ReuseName(t, c.name), q, i.named[c.old], c.name)
      BY <1>1, <1>2, <2>4, ApplyIs, RenameFields DEF Legal
    <3>2. q \in Tables /\ q.flags = t.flags \cup {"RENAMED"}
      BY <3>1 DEF IsRenamed
    <3> HIDE DEF q
    <3> QED BY <2>4, <3>2 DEF Unsupported
  <2> QED BY <2>1, <2>2, <2>3, <2>4, ApplyIs
<1>4. Included(t, v, c).flags = q.flags /\ Included(t, v, c).unsynced = q.unsynced
  BY <1>3 DEF Included, Tables
<1> HIDE DEF q
<1> QED BY <1>3, <1>4

LEMMA ErasedFields ==
    ASSUME NEW t \in Tables
    PROVE  EraseRecords(t).flags = {} /\ EraseRecords(t).unsynced = <<>>
  BY DEF EraseRecords, Tables

LEMMA InitRowsInv == Init => RowsInv
<1> SUFFICES ASSUME Init PROVE RowsInv
  OBVIOUS
<1>1. latest = 1 /\ table.created = FALSE
  BY DEF Init, EmptyTable
<1>2. \A v \in 0 .. MaxVersion, n \in Name :
         ideal[v].named[n] = IF v = 1 /\ n = First THEN 1 ELSE NoColumn
  BY DEF Init
<1>3. \A v \in 0 .. latest : v \in 0 .. MaxVersion
  BY <1>1, VersionAssumption
<1>4. \A v \in 0 .. latest : NamedOnce(ideal[v])
  BY <1>2, <1>3 DEF NamedOnce
<1> QED BY <1>1, <1>4 DEF RowsInv

(* A release says nothing new about the migrations that were included.     *)
LEMMA ReleaseKeepsRows ==
    ASSUME IInv, RowsInv, NEW c \in Change, Release(c), Legal(ideal[latest], c, Targets)
    PROVE  RowsInv'
<1> SUFFICES ASSUME NEW v, v = latest + 1 PROVE RowsInv'
  OBVIOUS
<1> DEFINE before == ideal[latest]
           meant == Meant(before, v, c)
<1>1. TypeInv /\ ReleasesInv /\ TableInv
  BY DEF IInv
<1>2. /\ latest \in Version /\ history \in [Version -> Change]
      /\ ideal \in [0 .. MaxVersion -> Ideals]
      /\ table \in Tables /\ table.version <= latest /\ dbversion \in 0 .. latest
  BY <1>1 DEF TypeInv
<1>3. /\ latest < MaxVersion /\ latest' = v
      /\ history' = [history EXCEPT ![v] = c]
      /\ ideal' = [ideal EXCEPT ![v] = meant]
      /\ table' = table /\ dbversion' = dbversion
  BY DEF Release
<1>4. /\ v \in Version /\ v \in 0 .. MaxVersion /\ latest \in Nat /\ v - 1 = latest
      /\ MaxVersion \in Nat /\ latest \in 0 .. MaxVersion /\ latest # v
      /\ table.version \in 0 .. MaxVersion
  BY <1>2, <1>3, VersionAssumption, Fields DEF Version
<1>5. /\ before \in Ideals /\ \A n \in Name : before.named[n] <= v - 1
      /\ Legal(before, c, Targets) /\ NamedOnce(before)
  BY <1>1, <1>2, <1>4 DEF ReleasesInv, RowsInv
<1>6. NamedOnce(meant)
  <2> HIDE DEF before
  <2> QED BY <1>4, <1>5, OnceStays
<1> HIDE DEF before, meant
<1>7. /\ \A w \in 0 .. MaxVersion : ideal'[w] = IF w = v THEN meant ELSE ideal[w]
      /\ \A w \in Version : history'[w] = IF w = v THEN c ELSE history[w]
  BY <1>2, <1>3, <1>4
<1>8. \A w \in 0 .. latest' : NamedOnce(ideal'[w])
  <2>1. ASSUME NEW w \in 0 .. latest' PROVE NamedOnce(ideal'[w])
    <3>1. w \in 0 .. MaxVersion /\ (w = v \/ w \in 0 .. latest)
      BY <1>3, <1>4
    <3> QED BY <1>4, <1>6, <1>7, <3>1 DEF RowsInv
  <2> QED BY <2>1
<1>9. \A o \in Version : o # v => Kind(o)' = Kind(o) /\ IsFake(o)' = IsFake(o)
  BY <1>7 DEF Kind, IsFake
<1>10. ASSUME NEW w \in Pending
       PROVE  /\ \A d : Does(w, d)' = Does(w, d)
              /\ IsApart(w)' <=> IsApart(w)
  <2>1. w \in Version /\ w # v /\ w \in 1 .. latest /\ w - 1 \in 0 .. MaxVersion /\ w - 1 # v
    BY <1>2, <1>4 DEF Pending, Version
  <2>2. history'[w] = history[w] /\ ideal'[w - 1] = ideal[w - 1]
    BY <1>7, <2>1
  <2>3. \A d : Does(w, d)' = Does(w, d)
    BY <2>2 DEF Does
  <2>4. DropsIndex(w)' <=> DropsIndex(w)
    <3>1. CASE ~Does(w, "drop")
      BY <2>3, <3>1 DEF DropsIndex
    <3>2. CASE Does(w, "drop")
      <4>1. Legal(ideal[w - 1], history[w], Targets) /\ history[w].do = "drop"
        BY <1>1, <2>1, <3>2 DEF ReleasesInv, Does
      <4>2. history[w].old \in Name /\ ideal[w - 1].named[history[w].old] # NoColumn
        BY <4>1 DEF Legal
      <4> SUFFICES ASSUME NEW p, p = ideal[w - 1].named[history[w].old]
                   PROVE  DropsIndex(w)' <=> DropsIndex(w)
        OBVIOUS
      <4>3. ideal[w - 1] \in Ideals /\ \A n \in Name : ideal[w - 1].named[n] <= w - 1
        BY <1>1, <1>2, <2>1 DEF ReleasesInv
      <4>4. p \in 0 .. MaxVersion /\ p <= w - 1 /\ p # NoColumn
        BY <4>2, <4>3 DEF Ideals
      <4>5. p \in Version /\ p # v
        BY <1>4, <2>1, <4>4 DEF Version, NoColumn
      <4>6. ideal'[w - 1].named[history'[w].old] = p
        BY <2>2
      <4>7. Concerns(w) = p /\ Concerns(w)' = p
        BY <2>2, <3>2, <4>1, <4>6 DEF Concerns, Does
      <4>8. Kind(p)' = Kind(p)
        BY <1>9, <4>5
      <4>9. DropsIndex(w) <=> Kind(p) = "index"
        BY <3>2, <4>7 DEF DropsIndex
      <4>10. DropsIndex(w)' <=> Kind(p)' = "index"
        <5>1. Does(w, "drop")' /\ Kind(Concerns(w))' = Kind(p)'
          BY <2>3, <3>2, <4>7 DEF Kind
        <5> QED BY <5>1 DEF DropsIndex
      <4> QED BY <4>8, <4>9, <4>10
    <3> QED BY <3>1, <3>2
  <2>5. Kind(w)' = Kind(w)
    BY <1>9, <2>1
  <2> QED BY <2>3, <2>4, <2>5 DEF IsApart
<1>11. Pending' = Pending
  BY <1>3 DEF Pending
<1>12. Renames' = Renames
  <2>1. \A w \in Pending : Does(w, "rename")' <=> Does(w, "rename")
    BY <1>10
  <2> QED BY <1>11, <2>1 DEF Renames
<1>13. \A o \in Range(table.unsynced) : o \in Version /\ o # v
  <2>1. \A o \in Range(table.unsynced) : o \in Version /\ o <= table.version
    BY <1>1, <1>2, Fields DEF TableInv, Recorded
  <2> QED BY <1>2, <1>4, <2>1 DEF Version
<1> QED BY <1>3, <1>8, <1>9, <1>10, <1>11, <1>12, <1>13 DEF RowsInv

(* A table whose records were erased says nothing of pending migrations.   *)
LEMMA IncludeKeepsRows == ASSUME IInv, RowsInv, Include PROVE RowsInv'
<1> SUFFICES ASSUME NEW v, v = table.version + 1 PROVE RowsInv'
  OBVIOUS
<1> DEFINE before == ideal[v - 1]
           c == history[v]
           q == Included(table, v, c)
<1>1. TypeInv /\ ReleasesInv /\ DatabaseInv
  BY DEF IInv
<1>2. table \in Tables /\ dbversion \in 0 .. latest /\ latest \in Version
  BY <1>1 DEF TypeInv
<1>3. /\ table.version < latest
      /\ table' = IF dbversion = v THEN EraseRecords(TraceName(q)) ELSE q
      /\ UNCHANGED <<latest, history, ideal, db, dbversion>>
  BY DEF Include
<1>4. /\ v \in Version /\ v - 1 = table.version
      /\ Before(table, v, before, Targets)
      /\ c \in Change /\ Legal(before, c, Targets)
      /\ IsTargetOf(Targets[v], before, v, c)
  BY <1>3, NextMigration
<1>5. /\ q \in Tables /\ q.version = v /\ q.created = table.created
      /\ Unambiguous(q) /\ Follow(q, Targets)
  <2> HIDE DEF c, before
  <2>1. /\ After(table, q, v, Meant(before, v, c), Targets)
        /\ q.version = v
    BY <1>4, IncludedAfter
  <2> HIDE DEF q
  <2> QED BY <2>1 DEF After
<1>6. \A w \in 0 .. latest' : NamedOnce(ideal'[w])
  BY <1>3 DEF RowsInv
<1>7. CASE dbversion = v
  <2>1. TraceName(q) \in Tables
    BY <1>5, TraceNameKeeps DEF SameColumns
  <2>2. table'.flags = {} /\ table'.unsynced = <<>>
    <3> HIDE DEF q
    <3> QED BY <1>3, <1>7, <2>1, ErasedFields
  <2>3. Range(table'.unsynced) = {}
    BY <2>2 DEF Range
  <2> QED BY <1>6, <2>2, <2>3 DEF RowsInv
<1>8. CASE dbversion # v
  <2>1. table' = q
    BY <1>3, <1>8
  <2>2. SUFFICES ASSUME table'.created
        PROVE  /\ table'.flags \cap Unsupported # {} => \E w \in Pending' : ~IsApart(w)'
               /\ \A o \in Range(table'.unsynced) :
                     ~IsFake(o)' /\ o <= dbversion' => Renames' # {}
    BY <1>6 DEF RowsInv
  <2>3. table.created /\ table.version >= dbversion
    BY <1>1, <1>5, <2>1, <2>2 DEF DatabaseInv
  <2>4. /\ Pending' = dbversion + 1 .. v /\ Pending = dbversion + 1 .. v - 1
        /\ Pending \subseteq Pending' /\ v \in Pending' /\ v > dbversion
    <3>1. table'.version = v /\ dbversion' = dbversion
      BY <1>3, <1>5, <2>1
    <3> HIDE DEF q
    <3> QED BY <1>2, <1>4, <1>8, <2>3, <3>1 DEF Pending, Version
  <2>5. /\ \A w : IsApart(w)' <=> IsApart(w)
        /\ \A w, d : Does(w, d)' <=> Does(w, d)
        /\ \A o : IsFake(o)' <=> IsFake(o)
    BY <1>3 DEF IsApart, DropsIndex, Concerns, Does, IsFake, Kind
  <2>6. /\ q.flags \cap Unsupported # {} =>
              \/ table.flags \cap Unsupported # {}
              \/ ~ \/ c.do = "rename"
                   \/ c.do = "add" /\ c.kind \in {"plain", "index"}
                   \/ c.do = "drop" /\ Kind(before.named[c.old]) = "index"
        /\ \A o \in Range(q.unsynced) :
              o \in Range(table.unsynced) \/ o = v \/ IsFake(o) \/ c.do = "rename"
    <3> HIDE DEF c, before
    <3> QED BY <1>4, IncludedMarks DEF q
  <2>7. IsApart(v) =>
           \/ c.do = "rename"
           \/ c.do = "add" /\ c.kind \in {"plain", "index"}
           \/ c.do = "drop" /\ Kind(before.named[c.old]) = "index"
    <3>1. Does(v, "drop") => Concerns(v) = before.named[c.old]
      BY DEF Concerns, Does
    <3>2. \A d : Does(v, d) <=> c.do = d
      BY DEF Does
    <3>3. Kind(v) = c.kind
      BY DEF Kind
    <3> HIDE DEF c, before
    <3> QED BY <3>1, <3>2, <3>3 DEF IsApart, DropsIndex
  <2> HIDE DEF q
  <2>8. ASSUME table'.flags \cap Unsupported # {} PROVE \E w \in Pending' : ~IsApart(w)'
    <3>1. CASE table.flags \cap Unsupported # {}
      BY <2>3, <2>4, <2>5, <3>1 DEF RowsInv
    <3>2. CASE ~IsApart(v)
      BY <2>4, <2>5, <3>2
    <3> QED BY <2>1, <2>6, <2>7, <2>8, <3>1, <3>2
  <2>9. ASSUME NEW o \in Range(table'.unsynced), ~IsFake(o)', o <= dbversion'
        PROVE  Renames' # {}
    <3>1. o \in Range(q.unsynced) /\ ~IsFake(o) /\ o <= dbversion
      BY <1>3, <2>1, <2>5, <2>9
    <3>2. o # v
      BY <1>2, <1>4, <2>4, <3>1 DEF Version
    <3>3. CASE o \in Range(table.unsynced)
      <4>1. PICK w \in Pending : Does(w, "rename")
        BY <2>3, <3>1, <3>3 DEF RowsInv, Renames
      <4> QED BY <2>4, <2>5, <4>1 DEF Renames
    <3>4. CASE c.do = "rename"
      <4>1. Does(v, "rename")'
        BY <1>3, <3>4 DEF Does
      <4> QED BY <2>4, <4>1 DEF Renames
    <3> QED BY <2>6, <3>1, <3>2, <3>3, <3>4
  <2> QED BY <2>8, <2>9
<1> QED BY <1>7, <1>8

LEMMA SyncKeepsRows == ASSUME IInv, RowsInv, Sync PROVE RowsInv'
<1>1. table \in Tables /\ Unambiguous(table) /\ Follow(table, Targets)
  BY DEF IInv, TypeInv, TableInv
<1>2. table' = EraseRecords(TraceName(table)) /\ UNCHANGED <<latest, ideal>>
  BY DEF Sync
<1>3. TraceName(table) \in Tables
  BY <1>1, TraceNameKeeps DEF SameColumns
<1>4. table'.flags = {} /\ table'.unsynced = <<>>
  BY <1>2, <1>3, ErasedFields
<1>5. Range(table'.unsynced) = {}
  BY <1>4 DEF Range
<1> QED BY <1>2, <1>4, <1>5 DEF RowsInv

(* What asks for another table than the one there is, and what counts as   *)
(* new, comes from migrations that the synchronization is to bring.        *)
THEOREM RowsInvariance == Spec => []RowsInv
<1>1. ASSUME IInv, RowsInv, [Next]_vars PROVE RowsInv'
  <2>1. CASE Releases
    <3>1. PICK c \in Change : Release(c) /\ Legal(ideal[latest], c, Targets)
      BY <2>1, <1>1, ReleasesLegal DEF IInv
    <3> QED BY <1>1, <3>1, ReleaseKeepsRows
  <2>2. CASE Include
    BY <1>1, <2>2, IncludeKeepsRows
  <2>3. CASE Sync
    BY <1>1, <2>3, SyncKeepsRows
  <2>4. CASE Restart
    <3>1. table'.created = FALSE /\ UNCHANGED <<latest, ideal>>
      BY <2>4 DEF Restart, EmptyTable
    <3> QED BY <1>1, <3>1 DEF RowsInv
  <2>5. CASE UNCHANGED vars
    BY <1>1, <2>5 DEF vars, RowsInv, Pending, Renames, IsApart, DropsIndex, Concerns,
                      Does, IsFake, Kind
  <2> QED BY <1>1, <2>1, <2>2, <2>3, <2>4, <2>5 DEF Next
<1>2. Init => RowsInv
  BY InitRowsInv
<1> QED BY <1>1, <1>2, Invariance, PTL DEF Spec

-----------------------------------------------------------------------------
(* What a synchronization does to the rows.                                *)

LEMMA StatementHolds ==
    ASSUME NEW t \in Tables, NEW d \in Databases, NEW o \in Version, NEW p \in Version,
           o \in Entries(t) \/ Kind(o) = "index", Holds(d, p)
    PROVE  Holds(Statement(t, d, o).db, p)
<1>1. /\ d.rows \in [Name -> Version \cup {NoColumn, Emptied}]
      /\ NoColumn \notin Version
      /\ t.name[o] \in Name \cup {NoName} /\ t.old[o] \in Name \cup {NoName}
  <2>1. NoColumn \notin Version
    BY DEF Version, NoColumn
  <2> QED BY <2>1, Fields, DatabaseFields
<1>2. PICK k \in Name : d.rows[k] = p
  BY DEF Holds
<1>3. Failed(d).db = d /\ \A e : Done(e).db = e
  BY DEF Failed, Done
<1>4. ASSUME NEW n PROVE Holds(ExecDropIndex(d, n).db, p)
  <2>1. [d EXCEPT !.index[n] = NoName].rows = d.rows
    BY DEF Databases
  <2> QED BY <1>2, <1>3, <2>1 DEF ExecDropIndex, Holds
<1>5. ASSUME NEW n, NEW on PROVE Holds(ExecCreateIndex(d, n, on).db, p)
  <2>1. [d EXCEPT !.index[n] = on].rows = d.rows
    BY DEF Databases
  <2> QED BY <1>2, <1>3, <2>1 DEF ExecCreateIndex, Holds
<1>6. ASSUME NEW n \in Name, NEW m \in Name PROVE Holds(ExecRenameColumn(d, n, m).db, p)
  <2> DEFINE rows == [d.rows EXCEPT ![n] = NoColumn, ![m] = d.rows[n]]
  <2>1. CASE ~HasColumn(d, n) \/ HasColumn(d, m)
    BY <1>2, <1>3, <2>1 DEF ExecRenameColumn, Holds
  <2>2. CASE HasColumn(d, n) /\ ~HasColumn(d, m)
    <3>1. ExecRenameColumn(d, n, m).db.rows = rows
      BY <2>2 DEF ExecRenameColumn, Done
    <3>2. n # m /\ k # m
      BY <1>1, <1>2, <2>2 DEF HasColumn
    <3>3. rows[m] = d.rows[n] /\ (k # n => rows[k] = d.rows[k])
      BY <1>1, <3>2
    <3> HIDE DEF rows
    <3>4. \E i \in Name : rows[i] = p
      BY <1>2, <3>3
    <3> QED BY <3>1, <3>4 DEF Holds
  <2> QED BY <2>1, <2>2
<1>7. ASSUME NEW n, NEW v PROVE Holds(ExecAddColumn(d, o, n, v).db, p)
  <2> DEFINE new == IF Holds(d, o) THEN Emptied ELSE o
             e == [d EXCEPT !.rows[n] = new, !.defined[n] = v]
  <2>1. CASE HasColumn(d, n)
    BY <1>2, <1>3, <2>1 DEF ExecAddColumn, Holds
  <2>2. CASE ~HasColumn(d, n)
    <3>1. ExecAddColumn(d, o, n, v).db = e
      BY <1>3, <2>2 DEF ExecAddColumn
    <3>2. k # n
      BY <1>1, <1>2, <2>2 DEF HasColumn
    <3> HIDE DEF new
    <3>3. e.rows = [d.rows EXCEPT ![n] = new]
      BY DEF Databases
    <3>4. e.rows[k] = p
      BY <1>1, <1>2, <3>2, <3>3
    <3> HIDE DEF e
    <3> QED BY <3>1, <3>4 DEF Holds
  <2> QED BY <2>1, <2>2
<1>8. CASE Kind(o) = "index" /\ t.name[o] = NoName
  <2>1. IsFake(o)
    BY <1>8 DEF IsFake
  <2>2. Statement(t, d, o) = ExecDropIndex(d, t.old[o])
    BY <1>8, <2>1, Zenon DEF Statement
  <2> QED BY <1>4, <2>2
<1>9. CASE Kind(o) = "index" /\ t.name[o] # NoName
  <2>1. IsFake(o)
    BY <1>9 DEF IsFake
  <2>2. Statement(t, d, o) = ExecCreateIndex(d, t.name[o], t.on[o])
    BY <1>9, <2>1, Zenon DEF Statement
  <2> QED BY <1>5, <2>2
<1>10. CASE Kind(o) # "index" /\ ~IsFake(o) /\ t.old[o] # NoName
  <2>1. Statement(t, d, o) = ExecRenameColumn(d, t.old[o], t.name[o])
    BY <1>10, Zenon DEF Statement
  <2>2. t.old[o] \in Name /\ t.name[o] \in Name
    BY <1>1, <1>10 DEF Entries
  <2> QED BY <1>6, <2>1, <2>2
<1>11. CASE Kind(o) # "index" /\ ~(~IsFake(o) /\ t.old[o] # NoName)
  <2>1. Statement(t, d, o) = ExecAddColumn(d, o, t.name[o], t.defined[o])
    BY <1>11, Zenon DEF Statement
  <2> QED BY <1>7, <2>1
<1> QED BY <1>8, <1>9, <1>10, <1>11

(* No statement that is executed loses the rows of a column, not even when *)
(* a later one fails.                                                      *)
LEMMA AlterHolds ==
    ASSUME NEW t \in Tables, NEW d \in Databases, NEW stored, NEW p \in Version,
           Told(t, stored), Holds(d, p)
    PROVE  Holds(AlterTable(t, d).db, p)
<1> DEFINE os == Reverse(t.unsynced)
           S == {r \in Results : Holds(r.db, p)}
<1>1. t.unsynced \in Seq(Version)
  BY Fields
<1>2. /\ os \in Seq(Version)
      /\ \A j \in 1 .. Len(os) : os[j] \in Range(t.unsynced)
  <2>1. Len(os) = Len(t.unsynced) /\ os \in Seq(Version)
    BY <1>1 DEF Reverse
  <2>2. ASSUME NEW j \in 1 .. Len(os) PROVE os[j] \in Range(t.unsynced)
    <3>1. Len(t.unsynced) \in Nat /\ DOMAIN t.unsynced = 1 .. Len(t.unsynced)
      BY <1>1
    <3>2. (Len(t.unsynced) - j) + 1 \in DOMAIN t.unsynced
      BY <2>1, <3>1
    <3>3. os[j] = t.unsynced[(Len(t.unsynced) - j) + 1]
      BY <1>1, <2>1 DEF Reverse
    <3> QED BY <3>2, <3>3 DEF Range
  <2> QED BY <2>1, <2>2
<1> HIDE DEF os
<1>3. Done(d) \in S
  <2>1. Done(d) \in Results /\ Done(d).db = d
    BY DoneOrFailed
  <2> QED BY <2>1
<1>4. ASSUME NEW r \in S, NEW j \in 1 .. Len(os) PROVE Statement(t, r.db, os[j]) \in S
  <2>1. r.db \in Databases /\ os[j] \in Version /\ Holds(r.db, p)
    BY <1>2 DEF Results
  <2>2. os[j] \in Entries(t) \/ Kind(os[j]) = "index"
    BY <1>2 DEF Told
  <2>3. Holds(Statement(t, r.db, os[j]).db, p)
    BY <2>1, <2>2, StatementHolds
  <2>4. Statement(t, r.db, os[j]) \in Results
    BY <2>1, StatementType
  <2> QED BY <2>3, <2>4
<1> HIDE DEF S
<1>5. Executed(t, d, os) \in S
  BY <1>2, <1>3, <1>4, ExecutedKeeps
<1> QED BY <1>5 DEF S, os, AlterTable

(* A column of the new table has the rows it is given.                     *)
LEMMA TableWithHolds ==
    ASSUME NEW t, NEW from, NEW o \in Columns(t), t.name[o] \in Name,
           \A p \in Columns(t) : t.name[p] = t.name[o] => p = o
    PROVE  TableWith(t, from).rows[t.name[o]] = from[o]
<1>1. (CHOOSE p \in Columns(t) : t.name[p] = t.name[o]) = o
  OBVIOUS
<1>2. At(t, Columns(t), from, NoColumn)[t.name[o]] = from[o]
  BY <1>1 DEF At
<1> QED BY <1>2 DEF TableWith

LEMMA SyncRows ==
    ASSUME IInv, RowsInv, Sync, RowsAreNamed, RenamesAreApart,
           NEW o \in Columns(table), Holds(db, o)
    PROVE  Holds(db', o)
<1> SUFFICES ASSUME NEW t, t = TraceName(table) PROVE Holds(db', o)
  OBVIOUS
<1> DEFINE stored == ideal[dbversion].named
           meant == ideal[table.version].named
<1>1. /\ TypeInv /\ ReleasesInv /\ TableInv /\ DatabaseInv
      /\ table \in Tables /\ db \in Databases /\ dbversion \in 0 .. latest
      /\ latest \in Version
      /\ Unambiguous(table) /\ Follow(table, Targets)
  BY DEF IInv, TypeInv, TableInv
<1>2. /\ t \in Tables /\ t.created = table.created /\ t.flags = table.flags
      /\ t.name = table.name /\ t.old = table.old /\ t.unsynced = table.unsynced
      /\ Entries(t) = Entries(table) /\ Columns(t) = Columns(table)
  <2>1. SameColumns(table, t)
    BY <1>1, TraceNameKeeps
  <2> QED BY <2>1 DEF SameColumns, Entries, Columns
<1>3. db' = Synchronized(t, db).db
  BY DEF Sync
<1>4. /\ o \in Version /\ ~IsFake(o) /\ o \in Entries(t) /\ o \in Columns(t)
      /\ t.name[o] \in Name
  <2>1. table.name \in [Version -> Name \cup {NoName}]
    BY <1>1, Fields
  <2> QED BY <1>2, <2>1 DEF Columns, Entries
<1>5. \A p \in Columns(t) : t.name[p] = t.name[o] => p = o
  <2>1. \A n \in Name, p \in Version : table.name[p] = n <=> meant[n] = p
    BY <1>1 DEF TableInv, IsMeant
  <2> QED BY <1>2, <1>4, <2>1 DEF Columns, Entries
<1>6. \A from : TableWith(t, from).rows[t.name[o]] = from[o]
  BY <1>4, <1>5, TableWithHolds
<1>7. PICK k \in Name : db.rows[k] = o
  BY DEF Holds
<1>8. /\ stored[k] = o /\ o <= dbversion /\ o # NoColumn
      /\ \A n, m \in Name : stored[n] = stored[m] /\ stored[n] # NoColumn => n = m
  <2>1. dbversion \in 0 .. MaxVersion
    BY <1>1, VersionAssumption DEF Version
  <2>2. stored[k] = o
    BY <1>4, <1>7 DEF RowsAreNamed
  <2>3. stored[k] <= dbversion
    BY <1>1, <2>1 DEF ReleasesInv
  <2>4. NamedOnce(ideal[dbversion])
    BY <1>1 DEF RowsInv
  <2>5. o # NoColumn
    BY <1>4 DEF Version, NoColumn
  <2> QED BY <2>2, <2>3, <2>4, <2>5 DEF NamedOnce
<1> HIDE DEF stored, meant
<1>9. t.created => Told(t, stored)
  BY <1>1, <1>2 DEF DatabaseInv, Told, stored
<1>10. CASE ~t.created
  <2> DEFINE made == [p \in Version |-> p]
  <2>1. db' = TableWith(t, made)
    <3>1. ~Recreates(t)
      BY <1>10 DEF Recreates
    <3>2. db' = CreateTable(t).db
      BY <1>3, <1>10, <3>1 DEF Synchronized
    <3> QED BY <3>2 DEF CreateTable, Done
  <2>2. made[o] = o
    BY <1>4
  <2> HIDE DEF made
  <2> QED BY <1>4, <1>6, <2>1, <2>2 DEF Holds
<1>11. CASE t.created /\ t.flags = {}
  <2>1. ~Recreates(t)
    BY <1>11 DEF Recreates
  <2>2. db' = Done(db).db
    BY <1>3, <1>11, <2>1 DEF Synchronized
  <2> QED BY <2>2 DEF Done
<1>12. CASE t.created /\ t.flags # {} /\ Recreates(t)
  <2> DEFINE from == [p \in Columns(t) |-> IF IsCopied(t, p) THEN db.rows[Source(t, p)]
                                           ELSE IF Holds(db, p) THEN Emptied ELSE p]
  <2>1. o \notin Range(t.unsynced)
    <3>1. SUFFICES ASSUME o \in Range(table.unsynced) PROVE FALSE
      BY <1>2
    <3>2. Renames # {}
      BY <1>2, <1>4, <1>8, <1>12, <3>1 DEF RowsInv
    <3>3. \E v \in Pending : ~IsApart(v)
      BY <1>2, <1>12 DEF RowsInv, Recreates
    <3> QED BY <3>2, <3>3 DEF RenamesAreApart, IsApart
  <2>2. stored[t.name[o]] = o /\ t.old[o] = NoName
    BY <1>4, <1>9, <1>12, <2>1 DEF Told
  <2>3. t.name[o] = k
    BY <1>4, <1>8, <2>2
  <2>4. IsCopied(t, o) /\ Source(t, o) = k
    BY <1>2, <2>1, <2>2, <2>3, PendingIs DEF IsCopied, Source
  <2>5. from[o] = o
    BY <1>4, <1>7, <2>4
  <2>6. db' = RecreateTable(t, db).db
    BY <1>3, <1>12 DEF Synchronized
  <2>7. RecreateTable(t, db) = Failed(db) \/ RecreateTable(t, db) = Done(TableWith(t, from))
    BY DEF RecreateTable
  <2> HIDE DEF from
  <2>8. db' = db \/ db' = TableWith(t, from)
    BY <2>6, <2>7 DEF Failed, Done
  <2> QED BY <1>4, <1>6, <2>5, <2>8 DEF Holds
<1>13. CASE t.created /\ t.flags # {} /\ ~Recreates(t)
  <2>1. db' = AlterTable(t, db).db
    BY <1>3, <1>13 DEF Synchronized
  <2> QED BY <1>1, <1>2, <1>4, <1>9, <1>13, <2>1, AlterHolds
<1>14. t.created \in BOOLEAN
  BY <1>2, Fields
<1> QED BY <1>10, <1>11, <1>12, <1>13, <1>14

(* No synchronization, whether it makes the table, alters it, makes it     *)
(* again or fails half-way, loses the rows of a column that stays, if the  *)
(* database has them where the schema at its version says and no column is *)
(* renamed when the table is made again.                                   *)
THEOREM RowsCorrect == Spec => RowsStay
<1> DEFINE RowsKept ==
        RowsAreNamed /\ RenamesAreApart =>
            \A o \in Columns(table) : Holds(db, o) => Holds(db', o)
<1>1. ASSUME IInv, RowsInv, [Next]_vars PROVE [RowsKept]_vars
  <2>1. CASE Sync
    BY <1>1, <2>1, SyncRows
  <2>2. CASE Releases \/ Include \/ Restart \/ UNCHANGED vars
    <3>1. db' = db
      BY <2>2 DEF Releases, Release, Include, Restart, vars
    <3> QED BY <3>1 DEF Holds
  <2> QED BY <1>1, <2>1, <2>2 DEF Next
<1>2. Spec => [][RowsKept]_vars
  BY <1>1, Invariance, RowsInvariance, PTL DEF Spec
<1> QED BY <1>2 DEF RowsStay

-----------------------------------------------------------------------------
(* What is synchronized.  A third invariant tells what the records say     *)
(* when the table is altered, under the limits of SyncArrives: the         *)
(* migrations that are not in the database yet, in the order in which they *)
(* were included, but for indexes that are gone again.                     *)

(* Every release keeps to it.                                              *)
ColumnsInv == \A v \in 1 .. latest : IsOfColumn(ideal[v - 1], history[v])

(* Nothing is changed without a flag but that an index is dropped.         *)
FlagsInv ==
    table.created =>
        /\ dbversion > 0
        /\ table.flags = {} => \A v \in Pending : DropsIndex(v)
        /\ table.flags \cap Unsupported = {} => \A v \in Pending : IsApart(v)

(* The migrations of P are those that the table is altered for, within the *)
(* limits of SyncArrives.                                                  *)
Altering(P) ==
    /\ \A v \in P : IsApart(v)
    /\ \A v \in P : Does(v, "rename") => Concerns(v) \notin P
    /\ \A v, w \in P :
          Does(v, "rename") /\ Does(w, "rename") /\ Concerns(v) = Concerns(w) => v = w
    /\ \A v, w \in P :
          Does(v, "rename") /\ Does(w, "add") /\ Kind(w) = "index" /\ Target(w) = Concerns(v)
             => v < w

IsLast(P, v, o) ==
    /\ v \in P /\ Concerns(v) = o
    /\ \A w \in P : Concerns(w) = o => w <= v

(* One record for each column or index that a migration of P is about, the *)
(* one of the last migration first.                                        *)
Listed(P, q) ==
    /\ \A v \in P : Concerns(v) \in Range(q)
    /\ \A o \in Range(q) : \E v \in P : IsLast(P, v, o)
    /\ \A i, j \in DOMAIN q : \A v, w \in P :
          i < j /\ IsLast(P, v, q[i]) /\ IsLast(P, w, q[j]) => w < v

(* A record says what the migration does.                                  *)
SaysWhat(t, v) ==
    /\ Does(v, "add") /\ v \notin Entries(t) => Kind(v) = "index"
    /\ Does(v, "add") /\ v \in Entries(t) =>
          /\ t.name[v] = history[v].name /\ t.defined[v] = v
          /\ Kind(v) = "index" => t.name[Target(v)] = history[v].on
    /\ Does(v, "rename") =>
          /\ t.old[Concerns(v)] = history[v].old
          /\ t.name[Concerns(v)] = history[v].name
    /\ DropsIndex(v) =>
          /\ t.old[Concerns(v)] = history[v].old
          /\ t.name[Concerns(v)] = NoName

OrderInv ==
    table.created /\ Altering(Pending) =>
        /\ Listed(Pending, table.unsynced)
        /\ \A v \in Pending : SaysWhat(table, v)

SyncInv == ColumnsInv /\ FlagsInv /\ OrderInv

(* What is named when, name by name.                                       *)
LEMMA MeantNames ==
    ASSUME NEW i \in Ideals, NEW v \in Version, NEW c \in Change, NEW target,
           \A n \in Name : i.named[n] <= v - 1, Legal(i, c, target)
    PROVE  /\ c.do = "add" =>
                 \A n \in Name : Meant(i, v, c).named[n] = IF n = c.name THEN v ELSE i.named[n]
           /\ c.do = "alter" => Meant(i, v, c).named = i.named
           /\ c.do = "drop" =>
                 \A n \in Name : Meant(i, v, c).named[n] = IF n = c.old THEN NoColumn
                                                          ELSE i.named[n]
           /\ c.do = "rename" =>
                 \A n \in Name : Meant(i, v, c).named[n] = IF n = c.old THEN NoColumn
                                                          ELSE IF n = c.name THEN i.named[c.old]
                                                          ELSE i.named[n]
<1> DEFINE meant == Meant(i, v, c)
<1>1. /\ c.do = "add" => meant.named = [i.named EXCEPT ![c.name] = v]
      /\ c.do = "alter" => meant.named = i.named
      /\ c.do = "drop" => meant.named = [i.named EXCEPT ![c.old] = NoColumn]
      /\ c.do = "rename" => meant.named = [i.named EXCEPT ![c.name] = i.named[c.old],
                                                          ![c.old] = NoColumn]
  BY MeantIs
<1>2. i.named \in [Name -> 0 .. MaxVersion] /\ DOMAIN i.named = Name
  BY DEF Ideals
<1>3. c.do \in {"add", "alter", "drop", "rename"}
  BY DEF Legal
<1> HIDE DEF meant
<1>5. c.do = "rename" => c.old \in Name /\ c.name \in Name /\ c.old # c.name
  BY DEF Legal
<1>6. ASSUME c.do = "rename", NEW n \in Name
      PROVE  meant.named[n] = IF n = c.old THEN NoColumn
                              ELSE IF n = c.name THEN i.named[c.old] ELSE i.named[n]
  BY <1>1, <1>2, <1>5, <1>6
<1> QED BY <1>1, <1>2, <1>6 DEF meant

(* What is defined when: what is renamed or dropped keeps its definition.  *)
LEMMA MeantDefines ==
    ASSUME NEW i \in Ideals, NEW v \in Version, NEW c \in Change, c.do = "add"
    PROVE  /\ Meant(i, v, c).defined[v] = v
           /\ \A o \in Version : o # v => Meant(i, v, c).defined[o] = i.defined[o]
<1> DEFINE meant == Meant(i, v, c)
<1>1. meant.defined = [i.defined EXCEPT ![v] = v]
  BY MeantAdds
<1> HIDE DEF meant
<1>2. DOMAIN i.defined = Version
  BY DEF Ideals
<1>3. /\ meant.defined[v] = v
      /\ \A o \in Version : o # v => meant.defined[o] = i.defined[o]
  BY <1>1, <1>2
<1> QED BY <1>3 DEF meant

LEMMA MeantKeeps ==
    ASSUME NEW i \in Ideals, NEW v \in Version, NEW c \in Change, NEW target,
           Legal(i, c, target), c.do \in {"drop", "rename"}
    PROVE  Meant(i, v, c).defined = i.defined
<1> DEFINE meant == Meant(i, v, c)
<1>1. CASE c.do = "drop"
  <2>1. meant = [i EXCEPT !.named[c.old] = NoColumn]
    BY <1>1 DEF Meant
  <2> HIDE DEF meant
  <2>2. meant.defined = i.defined
    BY <2>1 DEF Ideals
  <2> QED BY <1>1, <2>2 DEF meant
<1>2. CASE c.do = "rename"
  <2>1. meant = [i EXCEPT !.named[c.name] = i.named[c.old], !.named[c.old] = NoColumn]
    BY <1>2 DEF Meant
  <2> HIDE DEF meant
  <2>2. meant.defined = i.defined
    BY <2>1 DEF Ideals
  <2> QED BY <1>2, <2>2 DEF meant
<1> QED BY <1>1, <1>2

(* What is known of a migration.                                           *)
LEMMA Migrations ==
    ASSUME IInv, NEW v \in 1 .. latest
    PROVE  /\ v \in Version /\ v \in Nat /\ v - 1 \in 0 .. MaxVersion /\ v \in 0 .. MaxVersion
           /\ history[v] \in Change /\ Legal(ideal[v - 1], history[v], Targets)
           /\ ideal[v - 1] \in Ideals /\ ideal[v] = Meant(ideal[v - 1], v, history[v])
           /\ \A n \in Name : ideal[v - 1].named[n] <= v - 1
           /\ history[v].do \in {"add", "alter", "drop", "rename"}
           /\ Does(v, "add") => Concerns(v) = v
           /\ Does(v, "alter") => Concerns(v) = ideal[v - 1].named[history[v].name]
           /\ Does(v, "drop") => Concerns(v) = ideal[v - 1].named[history[v].old]
           /\ Does(v, "rename") => Concerns(v) = ideal[v - 1].named[history[v].old]
           /\ Concerns(v) \in 1 .. v
           /\ ~Does(v, "add") => Concerns(v) <= v - 1
<1> DEFINE i == ideal[v - 1]
           c == history[v]
<1>1. /\ TypeInv /\ ReleasesInv /\ latest \in Version
  BY DEF IInv, TypeInv
<1>2. v \in Version /\ v \in Nat /\ v - 1 \in 0 .. MaxVersion /\ v \in 0 .. MaxVersion
  BY <1>1, VersionAssumption DEF Version
<1>3. /\ c \in Change /\ i \in Ideals /\ Legal(i, c, Targets)
      /\ ideal[v] = Meant(i, v, c) /\ \A n \in Name : i.named[n] <= v - 1
  BY <1>1, <1>2 DEF TypeInv, ReleasesInv
<1>4. c.do \in {"add", "alter", "drop", "rename"}
  BY <1>3 DEF Legal
<1>5. /\ Does(v, "add") => Concerns(v) = v
      /\ Does(v, "drop") => Concerns(v) = i.named[c.old]
      /\ Does(v, "alter") \/ Does(v, "rename") => Concerns(v) = ideal[v].named[c.name]
  BY DEF Concerns, Does
<1> HIDE DEF i, c
<1>6. \A n \in Name : i.named[n] # NoColumn => i.named[n] \in 1 .. v - 1
  BY <1>2, <1>3 DEF Ideals, NoColumn
<1>7. \A d : Does(v, d) <=> c.do = d
  BY DEF Does, c
<1>8. /\ Does(v, "alter") => ideal[v].named = i.named
      /\ Does(v, "rename") => ideal[v].named[c.name] = i.named[c.old]
  <2>1. /\ c.do = "alter" => Meant(i, v, c).named = i.named
        /\ c.do = "rename" => Meant(i, v, c).named[c.name] = i.named[c.old]
    <3>1. c.do = "rename" => c.old \in Name /\ c.name \in Name /\ c.old # c.name
      BY <1>3 DEF Legal
    <3>2. /\ v \in Version /\ c \in Change /\ i \in Ideals /\ Legal(i, c, Targets)
          /\ \A n \in Name : i.named[n] <= v - 1
      BY <1>2, <1>3
    <3>3. c.do = "alter" => Meant(i, v, c).named = i.named
      BY <3>2, MeantNames
    <3>4. c.do = "rename" => \A n \in Name : Meant(i, v, c).named[n] = IF n = c.old THEN NoColumn
                                                          ELSE IF n = c.name THEN i.named[c.old]
                                                          ELSE i.named[n]
      BY <3>2, MeantNames
    <3> QED BY <3>1, <3>3, <3>4
  <2> QED BY <1>3, <1>7, <2>1
<1>9. /\ Does(v, "alter") => c.name \in Name /\ i.named[c.name] # NoColumn
      /\ Does(v, "drop") \/ Does(v, "rename") => c.old \in Name /\ i.named[c.old] # NoColumn
  BY <1>3, <1>7 DEF Legal
<1>10. Concerns(v) \in 1 .. v /\ (~Does(v, "add") => Concerns(v) <= v - 1)
  BY <1>2, <1>4, <1>5, <1>6, <1>7, <1>8, <1>9
<1> QED BY <1>2, <1>3, <1>4, <1>5, <1>7, <1>8, <1>10 DEF i, c

(* What is pending is released.                                            *)
LEMMA PendingReleased ==
    ASSUME IInv
    PROVE  /\ Pending \subseteq 1 .. latest
           /\ dbversion \in Nat /\ table.version \in Nat
           /\ \A v \in Pending : v > dbversion /\ v <= table.version
<1>1. /\ latest \in Version /\ table \in Tables /\ table.version <= latest
      /\ dbversion \in 0 .. latest
  BY DEF IInv, TypeInv
<1>2. table.version \in 0 .. MaxVersion
  BY <1>1, Fields
<1> QED BY <1>1, <1>2, VersionAssumption DEF Pending, Version

(* A declaration is declared on a column, which is older.                  *)
LEMMA TargetsAre ==
    ASSUME IInv, ColumnsInv, NEW v \in 1 .. latest, IsFake(v)
    PROVE  /\ Does(v, "add") /\ history[v].on \in Name
           /\ Target(v) = ideal[v - 1].named[history[v].on]
           /\ Target(v) \in 1 .. v - 1 /\ ~IsFake(Target(v))
<1> DEFINE i == ideal[v - 1]
           c == history[v]
<1>1. /\ v \in Version /\ c \in Change /\ Legal(i, c, Targets) /\ i \in Ideals
      /\ ideal[v] = Meant(i, v, c)
      /\ \A n \in Name : i.named[n] <= v - 1
  BY Migrations
<1>2. c.kind \in {"index", "constraint"}
  BY DEF IsFake, Kind
<1>3. c.on \in Name /\ Target(v) = ideal[v].named[c.on]
  BY <1>1 DEF IInv, ReleasesInv, Target
<1>4. c.do = "add" /\ ~IsFake(i.named[c.on])
  BY <1>2 DEF ColumnsInv, IsOfColumn
<1>5. Does(v, "add")
  BY <1>4 DEF Does
<1> HIDE DEF i, c
<1>6. \A n \in Name : ideal[v].named[n] = IF n = c.name THEN v ELSE i.named[n]
  BY <1>1, <1>4, MeantNames
<1>7. i.named[c.on] # NoColumn /\ c.on # c.name
  BY <1>1, <1>2, <1>4 DEF Legal
<1>8. Target(v) = i.named[c.on] /\ i.named[c.on] \in 0 .. MaxVersion /\ i.named[c.on] <= v - 1
  BY <1>1, <1>3, <1>6, <1>7 DEF Ideals
<1>9. i.named[c.on] \in 1 .. v - 1
  BY <1>7, <1>8, VersionAssumption DEF NoColumn
<1> QED BY <1>3, <1>4, <1>5, <1>8, <1>9 DEF i, c

-----------------------------------------------------------------------------
(* What a migration leaves in the table, when it is one that the table is  *)
(* altered for.                                                            *)

(* The record of column p is in front, and nothing else changed.           *)
Touched(t, q, p, others) ==
    /\ q.unsynced = <<p>> \o others
    /\ \A o \in Version : o # p =>
          q.name[o] = t.name[o] /\ q.old[o] = t.old[o] /\ q.defined[o] = t.defined[o]

LEMMA IncludedIs ==
    ASSUME NEW t, NEW v \in Version, NEW c \in Change, NEW i, NEW target,
           Before(t, v, i, target), Legal(i, c, target)
    PROVE  /\ Apply(t, v, c) \in Tables
           /\ Included(t, v, c).name = Apply(t, v, c).name
           /\ Included(t, v, c).old = Apply(t, v, c).old
           /\ Included(t, v, c).defined = Apply(t, v, c).defined
           /\ Included(t, v, c).unsynced = Apply(t, v, c).unsynced
           /\ Included(t, v, c).flags = Apply(t, v, c).flags
<1> DEFINE q == Apply(t, v, c)
<1>1. /\ t \in Tables /\ Unambiguous(t) /\ Follow(t, target) /\ SoFar(t, v, i, target)
      /\ IsInjective(t.unsynced)
  BY BeforeSoFar DEF Before, Recorded
<1>2. \A n \in Name : i.named[n] # NoColumn => t.name[i.named[n]] = n
  BY <1>1 DEF SoFar
<1>3. q \in Tables
  <2>1. CASE c.do = "add"
    <3>1. IsAdded(t, ReuseName(t, c.name), q, v, c)
      BY <1>1, <2>1, ApplyIs, AddFields DEF Legal
    <3> HIDE DEF q
    <3> QED BY <3>1 DEF IsAdded
  <2>2. CASE c.do = "alter"
    <3>1. IsAltered(t, q, i.named[c.name], v)
      BY <1>1, <2>2, ApplyIs, AlterFields
    <3> HIDE DEF q
    <3> QED BY <3>1 DEF IsAltered
  <2>3. CASE c.do = "drop"
    <3>1. t.name[i.named[c.old]] \in Name
      BY <1>2, <2>3 DEF Legal
    <3>2. IsDropped(t, q, i.named[c.old])
      BY <1>1, <2>3, <3>1, ApplyIs, DropFields
    <3> HIDE DEF q
    <3> QED BY <3>2 DEF IsDropped
  <2>4. CASE c.do = "rename"
    <3>1. t.name[i.named[c.old]] \in Name /\ c.name \in Name
      BY <1>2, <2>4 DEF Legal
    <3>2. IsRenamed(t, ReuseName(t, c.name), q, i.named[c.old], c.name)
      BY <1>1, <2>4, <3>1, ApplyIs, RenameFields
    <3> HIDE DEF q
    <3> QED BY <3>2 DEF IsRenamed
  <2> QED BY <2>1, <2>2, <2>3, <2>4, ApplyIs
<1> HIDE DEF q
<1>4. Included(t, v, c) = [q EXCEPT !.version = v]
  BY DEF Included, q
<1> QED BY <1>3, <1>4 DEF Tables, q

LEMMA AddTouches ==
    ASSUME NEW t, NEW v \in Version, NEW c \in Change, NEW i, NEW target,
           Before(t, v, i, target), Legal(i, c, target), c.do = "add", t.created
    PROVE  /\ Touched(t, Included(t, v, c), v, t.unsynced)
           /\ Included(t, v, c).name[v] = c.name /\ Included(t, v, c).defined[v] = v
           /\ Included(t, v, c).flags = t.flags \cup {AddedFlag(c.kind)}
<1> DEFINE q == Apply(t, v, c)
<1>1. t \in Tables /\ Unambiguous(t) /\ Follow(t, target)
  BY DEF Before
<1>2. IsAdded(t, ReuseName(t, c.name), q, v, c)
  BY <1>1, ApplyIs, AddFields DEF Legal
<1> HIDE DEF q
<1>3. /\ q.name = [t.name EXCEPT ![v] = c.name] /\ q.old = t.old
      /\ q.defined = [t.defined EXCEPT ![v] = v]
      /\ q.unsynced = <<v>> \o t.unsynced
      /\ q.flags = t.flags \cup {AddedFlag(c.kind)}
  BY <1>2 DEF IsAdded
<1>4. /\ q.name[v] = c.name /\ q.defined[v] = v
      /\ \A o \in Version : o # v => q.name[o] = t.name[o] /\ q.defined[o] = t.defined[o]
  BY <1>1, <1>3, Fields
<1>5. /\ Included(t, v, c).name = q.name /\ Included(t, v, c).old = q.old
      /\ Included(t, v, c).defined = q.defined /\ Included(t, v, c).unsynced = q.unsynced
      /\ Included(t, v, c).flags = q.flags
  BY IncludedIs DEF q
<1> QED BY <1>3, <1>4, <1>5 DEF Touched

LEMMA RenameTouches ==
    ASSUME NEW t, NEW v \in Version, NEW c \in Change, NEW i, NEW target,
           Before(t, v, i, target), Legal(i, c, target), c.do = "rename", t.created,
           NEW p \in Version, p = i.named[c.old], p \notin Range(t.unsynced), t.old[p] = NoName
    PROVE  /\ Touched(t, Included(t, v, c), p, t.unsynced)
           /\ Included(t, v, c).name[p] = c.name /\ Included(t, v, c).old[p] = c.old
<1> DEFINE q == Apply(t, v, c)
<1>1. t \in Tables /\ Unambiguous(t) /\ Follow(t, target)
  BY DEF Before
<1>2. /\ c.old \in Name /\ c.name \in Name /\ i.named[c.old] # NoColumn
  BY DEF Legal
<1>3. t.name[i.named[c.old]] = c.old
  <2>1. SoFar(t, v, i, target)
    BY BeforeSoFar
  <2> QED BY <1>2, <2>1 DEF SoFar
<1>4. IsRenamed(t, ReuseName(t, c.name), q, p, c.name)
  BY <1>1, <1>2, <1>3, ApplyIs, RenameFields
<1> HIDE DEF q
<1>5. /\ q.name = [t.name EXCEPT ![p] = c.name] /\ q.old = [t.old EXCEPT ![p] = c.old]
      /\ q.defined = t.defined /\ q.unsynced = <<p>> \o t.unsynced
  BY <1>3, <1>4 DEF IsRenamed
<1>6. /\ q.name[p] = c.name /\ q.old[p] = c.old
      /\ \A o \in Version : o # p => q.name[o] = t.name[o] /\ q.old[o] = t.old[o]
  BY <1>1, <1>5, Fields
<1>7. /\ Included(t, v, c).name = q.name /\ Included(t, v, c).old = q.old
      /\ Included(t, v, c).defined = q.defined /\ Included(t, v, c).unsynced = q.unsynced
  BY IncludedIs DEF q
<1> QED BY <1>5, <1>6, <1>7 DEF Touched

LEMMA DropTouches ==
    ASSUME NEW t, NEW v \in Version, NEW c \in Change, NEW i, NEW target,
           Before(t, v, i, target), Legal(i, c, target), c.do = "drop",
           NEW p \in Version, p = i.named[c.old], Kind(p) = "index"
    PROVE  /\ Touched(t, Included(t, v, c), p, RemoveFirst(t.unsynced, p))
           /\ Included(t, v, c).name[p] = NoName /\ Included(t, v, c).old[p] = c.old
           /\ Included(t, v, c).flags = t.flags
<1> DEFINE q == Apply(t, v, c)
<1>1. t \in Tables /\ IsInjective(t.unsynced)
  BY DEF Before, Recorded
<1>2. /\ c.old \in Name /\ i.named[c.old] # NoColumn
  BY DEF Legal
<1>3. t.name[i.named[c.old]] = c.old
  <2>1. SoFar(t, v, i, target)
    BY BeforeSoFar
  <2> QED BY <1>2, <2>1 DEF SoFar
<1>4. IsDropped(t, q, p)
  BY <1>1, <1>2, <1>3, ApplyIs, DropFields
<1> HIDE DEF q
<1>5. /\ q.name = [t.name EXCEPT ![p] = NoName] /\ q.old = [t.old EXCEPT ![p] = c.old]
      /\ q.defined = t.defined /\ q.unsynced = <<p>> \o RemoveFirst(t.unsynced, p)
      /\ q.flags = t.flags
  BY <1>3, <1>4 DEF IsDropped
<1>6. /\ q.name[p] = NoName /\ q.old[p] = c.old
      /\ \A o \in Version : o # p => q.name[o] = t.name[o] /\ q.old[o] = t.old[o]
  BY <1>1, <1>5, Fields
<1>7. /\ Included(t, v, c).name = q.name /\ Included(t, v, c).old = q.old
      /\ Included(t, v, c).defined = q.defined /\ Included(t, v, c).unsynced = q.unsynced
      /\ Included(t, v, c).flags = q.flags
  BY IncludedIs DEF q
<1> QED BY <1>5, <1>6, <1>7 DEF Touched

(* No flag is taken back; what SQLite has ALTER TABLE for leaves none that *)
(* asks for more, and all but the drop of an index leaves one.             *)
LEMMA IncludedFlags ==
    ASSUME NEW t, NEW v \in Version, NEW c \in Change, NEW i, NEW target,
           Before(t, v, i, target), Legal(i, c, target), NEW q, q = Included(t, v, c)
    PROVE  /\ t.flags \subseteq q.flags
           /\ q.flags = {} => c.do = "drop" /\ Kind(i.named[c.old]) = "index"
           /\ q.flags \cap Unsupported = {} =>
                 \/ c.do = "rename"
                 \/ c.do = "add" /\ c.kind \in {"plain", "index"}
                 \/ c.do = "drop" /\ Kind(i.named[c.old]) = "index"
<1> DEFINE r == Apply(t, v, c)
<1>1. /\ t \in Tables /\ Unambiguous(t) /\ Follow(t, target) /\ IsInjective(t.unsynced)
      /\ q.flags = r.flags
  BY IncludedIs DEF Before, Recorded
<1>2. CASE c.do = "add"
  <2>1. IsAdded(t, ReuseName(t, c.name), r, v, c)
    BY <1>1, <1>2, ApplyIs, AddFields DEF Legal
  <2>2. q.flags = t.flags \cup {AddedFlag(c.kind)}
    BY <1>1, <2>1 DEF IsAdded
  <2>3. c.kind \notin {"plain", "index"} => AddedFlag(c.kind) \in Unsupported
    <3>1. c.kind \in Kinds
      BY DEF Change
    <3> QED BY <3>1 DEF Kinds, AddedFlag, Unsupported
  <2> QED BY <1>2, <2>2, <2>3
<1>3. CASE c.do = "alter"
  <2>1. IsAltered(t, r, i.named[c.name], v)
    BY <1>1, <1>3, ApplyIs, AlterFields
  <2>2. q.flags = t.flags \cup {"ALTERED"}
    BY <1>1, <2>1 DEF IsAltered
  <2> QED BY <2>2 DEF Unsupported
<1>4. CASE c.do = "drop"
  <2>1. t.name[i.named[c.old]] \in Name
    <3>1. c.old \in Name /\ i.named[c.old] # NoColumn
      BY <1>4 DEF Legal
    <3>2. SoFar(t, v, i, target)
      BY BeforeSoFar
    <3> QED BY <3>1, <3>2 DEF SoFar
  <2>2. IsDropped(t, r, i.named[c.old])
    BY <1>1, <1>4, <2>1, ApplyIs, DropFields
  <2>3. q.flags = IF Kind(i.named[c.old]) = "index" THEN t.flags ELSE t.flags \cup {"DROPPED"}
    BY <1>1, <2>2 DEF IsDropped
  <2> QED BY <1>4, <2>3 DEF Unsupported
<1>5. CASE c.do = "rename"
  <2>1. t.name[i.named[c.old]] \in Name /\ c.name \in Name
    <3>1. c.old \in Name /\ c.name \in Name /\ i.named[c.old] # NoColumn
      BY <1>5 DEF Legal
    <3>2. SoFar(t, v, i, target)
      BY BeforeSoFar
    <3> QED BY <3>1, <3>2 DEF SoFar
  <2>2. IsRenamed(t, ReuseName(t, c.name), r, i.named[c.old], c.name)
    BY <1>1, <1>5, <2>1, ApplyIs, RenameFields
  <2>3. q.flags = t.flags \cup {"RENAMED"}
    BY <1>1, <2>2 DEF IsRenamed
  <2> QED BY <1>5, <2>3
<1> QED BY <1>2, <1>3, <1>4, <1>5, ApplyIs

-----------------------------------------------------------------------------
(* The second invariant is kept.                                           *)

(* One more migration: its record is in front, and no longer elsewhere.    *)
LEMMA ListedInFront ==
    ASSUME NEW P, P \subseteq Nat, NEW v \in Nat, \A w \in P : w < v,
           NEW q \in Seq(Version), Listed(P, q), NEW others \in Seq(Version),
           NEW p \in Version, p = Concerns(v),
           Range(others) = Range(q) \ {p}, KeepsOrder(q, others)
    PROVE  Listed(P \cup {v}, <<p>> \o others)
<1> DEFINE r == <<p>> \o others
           Q == P \cup {v}
<1>1. /\ Range(r) = Range(others) \cup {p}
      /\ DOMAIN others = 1 .. Len(others) /\ DOMAIN r = 1 .. Len(others) + 1
      /\ Len(others) \in Nat /\ r[1] = p
      /\ \A i \in 2 .. Len(others) + 1 : r[i] = others[i - 1] /\ i - 1 \in 1 .. Len(others)
  BY Prepended, PrependRange
<1> HIDE DEF r
<1>2. IsLast(Q, v, p) /\ \A w \in Q : IsLast(Q, w, p) => w = v
  BY DEF IsLast
<1>3. \A o, w : o # p => (IsLast(Q, w, o) <=> IsLast(P, w, o))
  BY DEF IsLast
<1> HIDE DEF Q
<1>4. ASSUME NEW w \in Q PROVE Concerns(w) \in Range(r)
  BY <1>1, <1>4 DEF Listed, Q
<1>5. ASSUME NEW o \in Range(r) PROVE \E w \in Q : IsLast(Q, w, o)
  <2>1. CASE o = p
    BY <1>2, <2>1 DEF Q
  <2>2. CASE o # p
    <3>1. PICK w \in P : IsLast(P, w, o)
      BY <1>1, <2>2 DEF Listed
    <3> QED BY <1>3, <2>2, <3>1 DEF Q
  <2> QED BY <2>1, <2>2
<1>6. ASSUME NEW i \in DOMAIN r, NEW j \in DOMAIN r, NEW w \in Q, NEW x \in Q,
             i < j, IsLast(Q, w, r[i]), IsLast(Q, x, r[j])
      PROVE  x < w
  <2>1. /\ i \in Nat /\ j \in 2 .. Len(others) + 1
        /\ r[j] = others[j - 1] /\ j - 1 \in DOMAIN others
    BY <1>1, <1>6
  <2>2. r[j] \in Range(q) /\ r[j] # p
    BY <2>1 DEF Range
  <2>3. IsLast(P, x, r[j]) /\ x \in P
    BY <1>3, <1>6, <2>2 DEF IsLast
  <2>4. CASE i = 1
    <3>1. w = v
      BY <1>1, <1>2, <1>6, <2>4
    <3> QED BY <2>3, <3>1
  <2>5. CASE i # 1
    <3>1. i \in 2 .. Len(others) + 1 /\ r[i] = others[i - 1] /\ i - 1 \in DOMAIN others
      BY <1>1, <2>5
    <3>2. r[i] # p
      BY <3>1 DEF Range
    <3>3. IsLast(P, w, r[i]) /\ w \in P
      BY <1>3, <1>6, <3>2 DEF IsLast
    <3>4. i - 1 < j - 1
      BY <1>6, <2>1, <3>1
    <3>5. PICK k \in DOMAIN q, l \in DOMAIN q : k < l /\ q[k] = r[i] /\ q[l] = r[j]
      BY <2>1, <3>1, <3>4 DEF KeepsOrder
    <3> QED BY <2>3, <3>3, <3>5 DEF Listed
  <2> QED BY <2>4, <2>5
<1> QED BY <1>4, <1>5, <1>6 DEF Listed, Q, r

(* Of what a migration is, and what it is about.                           *)
LEMMA ConcernsAre ==
    ASSUME IInv, ColumnsInv, NEW v \in 1 .. latest, IsApart(v)
    PROVE  /\ Does(v, "add") => Concerns(v) = v /\ Kind(v) \in {"plain", "index"}
           /\ Does(v, "rename") => ~IsFake(Concerns(v)) /\ Kind(v) \notin {"index", "constraint"}
           /\ DropsIndex(v) => /\ Does(v, "drop") /\ Kind(Concerns(v)) = "index"
                               /\ IsFake(Concerns(v))
           /\ Does(v, "add") \/ Does(v, "rename") \/ DropsIndex(v)
           /\ ~(Does(v, "add") /\ Does(v, "rename"))
           /\ ~(Does(v, "add") /\ Does(v, "drop"))
           /\ ~(Does(v, "rename") /\ Does(v, "drop"))
<1>1. /\ Does(v, "add") => Concerns(v) = v
      /\ Does(v, "rename") => Concerns(v) = ideal[v - 1].named[history[v].old]
  BY Migrations
<1>2. IsOfColumn(ideal[v - 1], history[v])
  BY DEF ColumnsInv
<1>3. Does(v, "rename") => ~IsFake(Concerns(v)) /\ Kind(v) \notin {"index", "constraint"}
  BY <1>1, <1>2 DEF IsOfColumn, Does, Kind
<1>4. Does(v, "add") => Kind(v) \in {"plain", "index"}
  BY DEF IsApart, Does, DropsIndex
<1> QED BY <1>1, <1>3, <1>4 DEF IsApart, DropsIndex, Does, IsFake

(* A migration of another column leaves what the records say.              *)
LEMMA SaysStay ==
    ASSUME NEW t, NEW q, NEW p, NEW others, Touched(t, q, p, others),
           NEW w \in Version, Concerns(w) \in Version, Concerns(w) # p,
           Does(w, "add") => /\ Concerns(w) = w
                             /\ Kind(w) = "index" => Target(w) \in Version /\ Target(w) # p,
           SaysWhat(t, w)
    PROVE  SaysWhat(q, w)
<1>1. /\ q.name[Concerns(w)] = t.name[Concerns(w)] /\ q.old[Concerns(w)] = t.old[Concerns(w)]
      /\ q.defined[Concerns(w)] = t.defined[Concerns(w)]
  BY DEF Touched
<1>2. CASE Does(w, "add")
  <2>1. q.name[w] = t.name[w] /\ q.defined[w] = t.defined[w]
    BY <1>1, <1>2
  <2>2. w \in Entries(q) <=> w \in Entries(t)
    BY <2>1 DEF Entries
  <2>3. Kind(w) = "index" => q.name[Target(w)] = t.name[Target(w)]
    BY <1>2 DEF Touched
  <2>4. ~Does(w, "rename") /\ ~DropsIndex(w)
    BY <1>2 DEF Does, DropsIndex
  <2> QED BY <1>2, <2>1, <2>2, <2>3, <2>4 DEF SaysWhat
<1>3. CASE ~Does(w, "add")
  BY <1>1, <1>3 DEF SaysWhat
<1> QED BY <1>2, <1>3

(* What is said of the next migration, and of the ones before it.          *)
NextSays(q, v) ==
    \E others \in Seq(Version) :
        /\ Touched(table, q, Concerns(v), others)
        /\ Range(others) = Range(table.unsynced) \ {Concerns(v)}
        /\ KeepsOrder(table.unsynced, others)
        /\ SaysWhat(q, v)
        /\ \A w \in Pending : SaysWhat(q, w)

(* What the proofs of the three cases start from.                          *)
NextIs(v, q) ==
    /\ v = table.version + 1 /\ table.version < latest
    /\ table.created /\ q = Included(table, v, history[v])
    /\ Altering(Pending \cup {v})

LEMMA NextFacts ==
    ASSUME IInv, ColumnsInv, OrderInv, NEW v, NEW q, NextIs(v, q)
    PROVE  /\ v \in 1 .. latest /\ v \in Version /\ v \in Nat
           /\ table \in Tables /\ table.unsynced \in Seq(Version)
           /\ Pending \subseteq Nat /\ \A w \in Pending : w < v
           /\ dbversion \in Nat /\ dbversion < v
           /\ Listed(Pending, table.unsynced)
           /\ KeepsOrder(table.unsynced, table.unsynced)
           /\ Before(table, v, ideal[v - 1], Targets)
           /\ history[v] \in Change /\ Legal(ideal[v - 1], history[v], Targets)
           /\ IsApart(v)
<1>1. /\ table \in Tables /\ latest \in Version /\ dbversion \in 0 .. latest
      /\ table.version >= dbversion
  BY DEF IInv, TypeInv, DatabaseInv, NextIs
<1>2. /\ v \in Version /\ v \in Nat /\ v <= latest /\ v - 1 = table.version
      /\ Before(table, v, ideal[v - 1], Targets)
      /\ history[v] \in Change /\ Legal(ideal[v - 1], history[v], Targets)
  <2>1. table.version < latest /\ v = table.version + 1
    BY DEF NextIs
  <2>2. v \in Version => v \in Nat
    BY VersionAssumption DEF Version
  <2> QED BY <2>1, <2>2, NextMigration
<1>3. /\ v \in 1 .. latest /\ Pending \subseteq Nat /\ \A w \in Pending : w < v
      /\ dbversion \in Nat /\ dbversion < v
  BY <1>1, <1>2, VersionAssumption DEF Version, Pending
<1>4. IsApart(v) /\ Altering(Pending)
  BY DEF NextIs, Altering
<1>5. Listed(Pending, table.unsynced)
  BY <1>4 DEF OrderInv, NextIs
<1>6. table.unsynced \in Seq(Version) /\ KeepsOrder(table.unsynced, table.unsynced)
  BY <1>1, Fields DEF KeepsOrder
<1> QED BY <1>1, <1>2, <1>3, <1>4, <1>5, <1>6

(* What is known of the migrations before it.                              *)
LEMMA EarlierFacts ==
    ASSUME IInv, ColumnsInv, OrderInv, NEW v, NEW q, NextIs(v, q), NEW w \in Pending
    PROVE  /\ w \in 1 .. latest /\ w \in Version /\ w \in Nat /\ w < v
           /\ Concerns(w) \in Version /\ Concerns(w) <= w
           /\ IsApart(w) /\ SaysWhat(table, w)
           /\ Does(w, "add") => Concerns(w) = w
           /\ Kind(w) = "index" => Target(w) \in 1 .. w - 1 /\ Target(w) \in Version
                                   /\ ~IsFake(Target(w))
<1>1. w \in 1 .. latest /\ w < v
  BY PendingReleased, NextFacts
<1>2. /\ w \in Version /\ w \in Nat /\ Concerns(w) \in 1 .. w
      /\ Does(w, "add") => Concerns(w) = w
  BY <1>1, Migrations
<1>3. Concerns(w) \in Version /\ Concerns(w) <= w
  BY <1>2, VersionAssumption DEF Version
<1>4. IsApart(w) /\ Altering(Pending)
  BY DEF NextIs, Altering
<1>5. SaysWhat(table, w)
  BY <1>4 DEF OrderInv, NextIs
<1>6. ASSUME Kind(w) = "index"
      PROVE  Target(w) \in 1 .. w - 1 /\ Target(w) \in Version /\ ~IsFake(Target(w))
  <2>1. Target(w) \in 1 .. w - 1 /\ ~IsFake(Target(w))
    BY <1>1, <1>6, TargetsAre DEF IsFake
  <2> QED BY <1>2, <2>1, VersionAssumption DEF Version
<1> QED BY <1>1, <1>2, <1>3, <1>4, <1>5, <1>6

LEMMA AddSays ==
    ASSUME IInv, ColumnsInv, OrderInv, NEW v, NEW q, NextIs(v, q), Does(v, "add")
    PROVE  NextSays(q, v)
<1> DEFINE i == ideal[v - 1]
           c == history[v]
<1>1. /\ v \in 1 .. latest /\ v \in Version /\ v \in Nat
      /\ table \in Tables /\ table.unsynced \in Seq(Version)
      /\ Listed(Pending, table.unsynced)
      /\ KeepsOrder(table.unsynced, table.unsynced)
      /\ Before(table, v, i, Targets) /\ c \in Change /\ Legal(i, c, Targets)
      /\ IsApart(v)
  BY NextFacts
<1>2. /\ Concerns(v) = v /\ c.do = "add" /\ c.name = history[v].name /\ c.on = history[v].on
      /\ ~Does(v, "rename") /\ ~DropsIndex(v) /\ c.name \in Name
      /\ table.created /\ q = Included(table, v, c)
  <2>1. Concerns(v) = v
    BY <1>1, Migrations
  <2>2. c.name \in Name
    BY <1>1 DEF Legal, Does
  <2> QED BY <2>1, <2>2 DEF Does, DropsIndex, NextIs
<1> HIDE DEF i, c
<1>3. /\ Touched(table, q, v, table.unsynced)
      /\ q.name[v] = c.name /\ q.defined[v] = v
  BY <1>1, <1>2, AddTouches
<1>4. v \notin Range(table.unsynced)
  <2>1. \A o \in Range(table.unsynced) : \E w \in Pending : Concerns(w) = o
    BY <1>1 DEF Listed, IsLast
  <2>2. \A w \in Pending : Concerns(w) <= w /\ w < v /\ Concerns(w) \in Version /\ w \in Nat
    BY EarlierFacts
  <2>3. \A w \in Pending : Concerns(w) # v
    BY <1>1, <2>2 DEF Version
  <2> QED BY <2>1, <2>3
<1>5. SaysWhat(q, v)
  <2>1. v \in Entries(q)
    BY <1>1, <1>2, <1>3, NameAssumption DEF Entries
  <2>2. ASSUME Kind(v) = "index" PROVE q.name[Target(v)] = history[v].on
    <3>1. /\ history[v].on \in Name /\ Target(v) = ideal[v - 1].named[history[v].on]
          /\ Target(v) \in 1 .. v - 1
      BY <1>1, <2>2, TargetsAre DEF IsFake
    <3>2. Target(v) # NoColumn /\ Target(v) # v
      BY <1>1, <3>1 DEF NoColumn
    <3>3. SoFar(table, v, i, Targets)
      BY <1>1, BeforeSoFar
    <3>4. table.name[Target(v)] = history[v].on /\ Target(v) \in Version
      BY <3>1, <3>2, <3>3 DEF SoFar, i
    <3> QED BY <1>3, <3>2, <3>4 DEF Touched
  <2> QED BY <1>2, <1>3, <2>1, <2>2 DEF SaysWhat
<1>6. ASSUME NEW w \in Pending PROVE SaysWhat(q, w)
  <2>1. /\ w \in Version /\ w \in Nat /\ w < v /\ Concerns(w) \in Version /\ Concerns(w) <= w
        /\ SaysWhat(table, w)
        /\ Does(w, "add") => Concerns(w) = w
        /\ Kind(w) = "index" => Target(w) \in 1 .. w - 1 /\ Target(w) \in Version
    BY EarlierFacts
  <2>2. Concerns(w) # v /\ (Kind(w) = "index" => Target(w) # v)
    BY <1>1, <2>1 DEF Version
  <2> QED BY <1>3, <2>1, <2>2, SaysStay
<1> QED BY <1>1, <1>2, <1>3, <1>4, <1>5, <1>6 DEF NextSays

LEMMA RenameSays ==
    ASSUME IInv, ColumnsInv, OrderInv, NEW v, NEW q, NextIs(v, q), Does(v, "rename")
    PROVE  NextSays(q, v)
<1> SUFFICES ASSUME NEW p, p = Concerns(v) PROVE NextSays(q, v)
  OBVIOUS
<1> DEFINE i == ideal[v - 1]
           c == history[v]
<1>1. /\ v \in 1 .. latest /\ v \in Version /\ v \in Nat
      /\ table \in Tables /\ table.unsynced \in Seq(Version)
      /\ Listed(Pending, table.unsynced)
      /\ KeepsOrder(table.unsynced, table.unsynced)
      /\ Before(table, v, i, Targets) /\ c \in Change /\ Legal(i, c, Targets)
      /\ IsApart(v) /\ \A w \in Pending : w < v
  BY NextFacts
<1>2. /\ p = i.named[c.old] /\ c.do = "rename" /\ p \in 1 .. v /\ ~IsFake(p)
      /\ c.name = history[v].name /\ c.old = history[v].old
      /\ ~Does(v, "add") /\ ~DropsIndex(v) /\ c.old \in Name /\ p # NoColumn
      /\ table.created /\ q = Included(table, v, c)
  <2>1. p = i.named[c.old] /\ p \in 1 .. v
    BY <1>1, Migrations
  <2>2. ~IsFake(p)
    BY <1>1, ConcernsAre
  <2>3. c.old \in Name /\ i.named[c.old] # NoColumn
    BY <1>1 DEF Legal, Does
  <2> QED BY <2>1, <2>2, <2>3 DEF Does, DropsIndex, NextIs
<1> HIDE DEF i, c
<1>3. /\ p \notin Pending \cup {v}
      /\ \A w \in Pending : Does(w, "rename") => Concerns(w) # p
      /\ \A w \in Pending : Does(w, "add") /\ Kind(w) = "index" => Target(w) # p
  <2>1. \A w \in Pending : w < v /\ w \in Nat
    BY EarlierFacts
  <2>2. Altering(Pending \cup {v})
    BY DEF NextIs
  <2>3. \A w \in Pending : ~(v < w) /\ w # v
    BY <1>1, <2>1
  <2> QED BY <2>2, <2>3 DEF Altering
<1>4. \A w \in Pending : Concerns(w) # p
  <2>1. SUFFICES ASSUME NEW w \in Pending PROVE Concerns(w) # p
    OBVIOUS
  <2>2. /\ w \in 1 .. latest /\ IsApart(w)
        /\ Does(w, "add") => Concerns(w) = w
    BY EarlierFacts
  <2>3. /\ DropsIndex(w) => IsFake(Concerns(w))
        /\ Does(w, "add") \/ Does(w, "rename") \/ DropsIndex(w)
    BY <2>2, ConcernsAre
  <2> QED BY <1>2, <1>3, <2>2, <2>3
<1>5. p \notin Range(table.unsynced)
  <2>1. \A o \in Range(table.unsynced) : \E w \in Pending : Concerns(w) = o
    BY <1>1 DEF Listed, IsLast
  <2> QED BY <1>4, <2>1
<1>6. p \in Version /\ p \in Entries(table)
  <2>1. SoFar(table, v, i, Targets)
    BY <1>1, BeforeSoFar
  <2> QED BY <1>2, <2>1 DEF SoFar
<1>7. table.old[p] = NoName
  <2>1. Told(table, ideal[dbversion].named)
    BY <1>2 DEF IInv, DatabaseInv
  <2> QED BY <1>2, <1>5, <1>6, <2>1 DEF Told
<1>8. /\ Touched(table, q, p, table.unsynced)
      /\ q.name[p] = c.name /\ q.old[p] = c.old
  <2>1. /\ v \in Version /\ c \in Change /\ Before(table, v, i, Targets) /\ Legal(i, c, Targets)
        /\ c.do = "rename" /\ table.created /\ p \in Version /\ p = i.named[c.old]
        /\ p \notin Range(table.unsynced) /\ table.old[p] = NoName
    BY <1>1, <1>2, <1>5, <1>6, <1>7
  <2>2. /\ Touched(table, Included(table, v, c), p, table.unsynced)
        /\ Included(table, v, c).name[p] = c.name /\ Included(table, v, c).old[p] = c.old
    BY <2>1, RenameTouches
  <2> QED BY <1>2, <2>2
<1>9. SaysWhat(q, v)
  BY <1>2, <1>8 DEF SaysWhat
<1>10. ASSUME NEW w \in Pending PROVE SaysWhat(q, w)
  <2>1. /\ w \in Version /\ Concerns(w) \in Version
        /\ SaysWhat(table, w)
        /\ Does(w, "add") => Concerns(w) = w
        /\ Kind(w) = "index" => Target(w) \in Version
    BY EarlierFacts
  <2> QED BY <1>3, <1>4, <1>8, <2>1, SaysStay
<1> QED BY <1>1, <1>5, <1>8, <1>9, <1>10 DEF NextSays

LEMMA DropSays ==
    ASSUME IInv, ColumnsInv, OrderInv, NEW v, NEW q, NextIs(v, q), DropsIndex(v)
    PROVE  NextSays(q, v)
<1> SUFFICES ASSUME NEW p, p = Concerns(v) PROVE NextSays(q, v)
  OBVIOUS
<1> DEFINE i == ideal[v - 1]
           c == history[v]
           others == RemoveFirst(table.unsynced, p)
<1>1. /\ v \in 1 .. latest /\ v \in Version /\ v \in Nat
      /\ table \in Tables /\ table.unsynced \in Seq(Version)
      /\ Before(table, v, i, Targets) /\ c \in Change /\ Legal(i, c, Targets)
      /\ IsApart(v)
  BY NextFacts
<1>2. /\ p = i.named[c.old] /\ c.do = "drop" /\ IsFake(p) /\ Kind(p) = "index"
      /\ c.old = history[v].old
      /\ ~Does(v, "add") /\ ~Does(v, "rename") /\ c.old \in Name /\ p # NoColumn
      /\ q = Included(table, v, c)
  <2>1. Does(v, "drop") /\ Kind(p) = "index" /\ IsFake(p)
    BY <1>1, ConcernsAre
  <2>2. p = i.named[c.old]
    BY <1>1, <2>1, Migrations
  <2>3. c.old \in Name /\ i.named[c.old] # NoColumn
    BY <1>1, <2>1 DEF Legal, Does
  <2> QED BY <2>1, <2>2, <2>3 DEF Does, NextIs
<1>3. /\ others \in Seq(Version) /\ Range(others) = Range(table.unsynced) \ {p}
      /\ KeepsOrder(table.unsynced, others)
  <2>1. IsInjective(table.unsynced)
    BY DEF IInv, TableInv, Recorded
  <2> QED BY <1>1, <2>1, RemoveFirstIs
<1> HIDE DEF i, c
<1>4. p \in Version /\ table.name[p] = c.old
  <2>1. SoFar(table, v, i, Targets)
    BY <1>1, BeforeSoFar
  <2> QED BY <1>2, <2>1 DEF SoFar
<1>5. /\ Touched(table, q, p, others)
      /\ q.name[p] = NoName /\ q.old[p] = c.old
  BY <1>1, <1>2, <1>4, DropTouches
<1> HIDE DEF others
<1>6. SaysWhat(q, v)
  BY <1>2, <1>5 DEF SaysWhat
<1>7. ASSUME NEW w \in Pending PROVE SaysWhat(q, w)
  <2>1. /\ w \in 1 .. latest /\ w \in Version /\ Concerns(w) \in Version /\ IsApart(w)
        /\ SaysWhat(table, w)
        /\ Does(w, "add") => Concerns(w) = w
        /\ Kind(w) = "index" => Target(w) \in Version /\ ~IsFake(Target(w))
    BY EarlierFacts
  <2>2. /\ Does(w, "rename") => ~IsFake(Concerns(w))
        /\ Does(w, "add") \/ Does(w, "rename") \/ DropsIndex(w)
        /\ Does(w, "add") => Kind(w) \in {"plain", "index"} /\ ~Does(w, "rename") /\ ~Does(w, "drop")
    BY <2>1, ConcernsAre
  <2>3. CASE Concerns(w) # p
    BY <1>2, <1>5, <2>1, <2>3, SaysStay
  <2>4. CASE Concerns(w) = p
    <3>1. ~DropsIndex(w)
      BY <1>2, <1>4, <2>1, <2>4, NameAssumption DEF SaysWhat
    <3>2. Does(w, "add") /\ w = p
      BY <1>2, <2>1, <2>2, <2>4, <3>1
    <3>3. w \notin Entries(q)
      BY <1>5, <3>2 DEF Entries
    <3> QED BY <1>2, <2>2, <3>1, <3>2, <3>3 DEF SaysWhat
  <2> QED BY <2>3, <2>4
<1> QED BY <1>3, <1>5, <1>6, <1>7 DEF NextSays

(* What is said of released migrations stays said of them.                 *)
SameSoFar ==
    \A o \in 1 .. latest :
        history'[o] = history[o] /\ ideal'[o] = ideal[o] /\ ideal'[o - 1] = ideal[o - 1]

LEMMA SaidSame ==
    ASSUME IInv, SameSoFar
    PROVE  /\ \A w \in 1 .. latest :
                 /\ IsApart(w)' <=> IsApart(w)
                 /\ DropsIndex(w)' <=> DropsIndex(w)
                 /\ IsFake(w)' <=> IsFake(w)
           /\ \A t : \A w \in 1 .. latest : SaysWhat(t, w)' <=> SaysWhat(t, w)
           /\ \A P \in SUBSET (1 .. latest) : Altering(P)' <=> Altering(P)
           /\ \A q : \A P \in SUBSET (1 .. latest) : Listed(P, q)' <=> Listed(P, q)
<1>1. ASSUME NEW w \in 1 .. latest
      PROVE  /\ \A d : Does(w, d)' <=> Does(w, d)
             /\ Kind(w)' = Kind(w) /\ (IsFake(w)' <=> IsFake(w))
             /\ Target(w)' = Target(w) /\ Concerns(w)' = Concerns(w)
             /\ Concerns(w) \in 1 .. latest
             /\ history'[w] = history[w]
  <2>1. history'[w] = history[w] /\ ideal'[w] = ideal[w] /\ ideal'[w - 1] = ideal[w - 1]
    BY DEF SameSoFar
  <2>2. \A d : Does(w, d)' <=> Does(w, d)
    BY <2>1 DEF Does
  <2>3. Kind(w)' = Kind(w) /\ (IsFake(w)' <=> IsFake(w))
    BY <2>1 DEF Kind, IsFake
  <2>4. Target(w)' = Target(w)
    BY <2>1 DEF Target
  <2>5. Concerns(w)' = Concerns(w)
    BY <2>1 DEF Concerns, Does
  <2>6. Concerns(w) \in 1 .. latest
    <3>1. Concerns(w) \in 1 .. w /\ w \in Nat
      BY Migrations
    <3>2. latest \in Nat
      BY VersionAssumption DEF IInv, TypeInv, Version
    <3> QED BY <3>1, <3>2
  <2> QED BY <2>1, <2>2, <2>3, <2>4, <2>5, <2>6
<1>2. ASSUME NEW w \in 1 .. latest
      PROVE  (DropsIndex(w)' <=> DropsIndex(w)) /\ (IsApart(w)' <=> IsApart(w))
  <2> SUFFICES ASSUME NEW p, p = Concerns(w)
               PROVE  (DropsIndex(w)' <=> DropsIndex(w)) /\ (IsApart(w)' <=> IsApart(w))
    OBVIOUS
  <2>1. p \in 1 .. latest /\ Concerns(w)' = p
    BY <1>1
  <2>2. Kind(p)' = Kind(p)
    BY <1>1, <2>1
  <2>3. Kind(Concerns(w))' = Kind(p)'
    BY <2>1 DEF Kind
  <2>4. DropsIndex(w)' <=> DropsIndex(w)
    BY <1>1, <2>2, <2>3 DEF DropsIndex
  <2>5. IsApart(w)' <=> IsApart(w)
    BY <1>1, <2>4 DEF IsApart
  <2> QED BY <2>4, <2>5
<1>3. ASSUME NEW t, NEW w \in 1 .. latest PROVE SaysWhat(t, w)' <=> SaysWhat(t, w)
  <2>1. (w \in Entries(t))' <=> w \in Entries(t)
    BY DEF Entries
  <2> QED BY <1>1, <1>2, <2>1 DEF SaysWhat
<1>4. ASSUME NEW P \in SUBSET (1 .. latest) PROVE Altering(P)' <=> Altering(P)
  <2>1. \A w \in P : w \in 1 .. latest
    OBVIOUS
  <2>2. \A w \in P : IsApart(w)' <=> IsApart(w)
    BY <1>2, <2>1
  <2>3. \A w \in P : /\ Does(w, "rename")' <=> Does(w, "rename")
                     /\ Does(w, "add")' <=> Does(w, "add")
                     /\ Kind(w)' = Kind(w) /\ Target(w)' = Target(w)
                     /\ Concerns(w)' = Concerns(w)
    BY <1>1, <2>1
  <2> QED BY <2>2, <2>3 DEF Altering
<1>5. ASSUME NEW P \in SUBSET (1 .. latest), NEW q PROVE Listed(P, q)' <=> Listed(P, q)
  <2>1. \A w \in P : Concerns(w)' = Concerns(w)
    BY <1>1
  <2>2. \A w, o : IsLast(P, w, o)' <=> IsLast(P, w, o)
    BY <2>1 DEF IsLast
  <2> QED BY <2>1, <2>2 DEF Listed
<1> QED BY <1>1, <1>2, <1>3, <1>4, <1>5

(* A table whose records were erased says nothing of pending migrations,   *)
(* and there are none.                                                     *)
LEMMA ErasedSays ==
    ASSUME IInv, ColumnsInv', Pending' = {}, dbversion' > 0, table'.unsynced = <<>>
    PROVE  SyncInv'
<1>1. Range(table'.unsynced) = {}
  BY DEF Range
<1>2. FlagsInv'
  BY DEF FlagsInv
<1>3. OrderInv'
  BY <1>1 DEF OrderInv, Listed, IsLast
<1> QED BY <1>2, <1>3 DEF SyncInv

LEMMA InitSyncInv == Init => SyncInv
<1> SUFFICES ASSUME Init PROVE SyncInv
  OBVIOUS
<1>1. /\ latest = 1 /\ table.created = FALSE
      /\ history = [v \in Version |-> IF v = 1 THEN AddColumn(First, "plain") ELSE NoChange]
  BY DEF Init, EmptyTable
<1>2. \A v \in 1 .. latest : v = 1 /\ v \in Version
  BY <1>1, VersionAssumption DEF Version
<1>3. ColumnsInv
  BY <1>1, <1>2 DEF ColumnsInv, IsOfColumn, AddColumn
<1> QED BY <1>1, <1>3 DEF SyncInv, FlagsInv, OrderInv

LEMMA ReleaseKeepsSync ==
    ASSUME IInv, SyncInv, NEW c \in Change, Release(c), Legal(ideal[latest], c, Targets),
           IsOfColumn(ideal[latest], c)
    PROVE  SyncInv'
<1> SUFFICES ASSUME NEW v, v = latest + 1 PROVE SyncInv'
  OBVIOUS
<1>1. /\ latest \in Version /\ history \in [Version -> Change]
      /\ ideal \in [0 .. MaxVersion -> Ideals]
  BY DEF IInv, TypeInv
<1>2. /\ latest < MaxVersion /\ latest' = v
      /\ history' = [history EXCEPT ![v] = c]
      /\ ideal' = [ideal EXCEPT ![v] = Meant(ideal[latest], v, c)]
      /\ table' = table /\ dbversion' = dbversion
  BY DEF Release
<1>3. /\ latest \in Nat /\ MaxVersion \in Nat /\ v - 1 = latest /\ v \in Version
      /\ \A w \in 1 .. v : w = v \/ w \in 1 .. latest
      /\ \A w \in 1 .. latest : /\ w \in Version /\ w # v /\ w \in 0 .. MaxVersion
                                /\ w - 1 \in 0 .. MaxVersion /\ w - 1 # v
  BY <1>1, <1>2, VersionAssumption DEF Version
<1>4. /\ SameSoFar
      /\ history'[v] = c /\ ideal'[v - 1] = ideal[latest]
  <2>1. latest \in 0 .. MaxVersion /\ latest # v
    BY <1>1, <1>3, VersionAssumption DEF Version
  <2> QED BY <1>1, <1>2, <1>3, <2>1 DEF SameSoFar
<1>5. ASSUME NEW n \in Name, ideal[latest].named[n] # NoColumn
      PROVE  ideal[latest].named[n] \in 1 .. latest
  <2>1. latest \in 0 .. MaxVersion
    BY <1>1, VersionAssumption DEF Version
  <2>2. ideal[latest].named[n] \in 0 .. MaxVersion /\ ideal[latest].named[n] <= latest
    BY <1>1, <2>1 DEF Ideals, IInv, ReleasesInv
  <2> QED BY <1>3, <1>5, <2>2 DEF NoColumn
<1>6. ASSUME NEW w \in 1 .. v PROVE IsOfColumn(ideal[w - 1], history[w])'
  <2> SUFFICES ASSUME NEW i, i = ideal'[w - 1], NEW k, k = history'[w]
               PROVE  IsOfColumn(ideal[w - 1], history[w])'
    OBVIOUS
  <2>1. /\ Legal(i, k, Targets) /\ IsOfColumn(i, k)
        /\ \A n \in Name : i.named[n] # NoColumn => i.named[n] \in 1 .. latest
    <3>1. CASE w = v
      <4>1. i = ideal[latest] /\ k = c
        BY <1>4, <3>1
      <4> QED BY <1>5, <4>1
    <3>2. CASE w \in 1 .. latest
      <4>1. i = ideal[w - 1] /\ k = history[w]
        BY <1>4, <3>2 DEF SameSoFar
      <4>2. Legal(i, k, Targets) /\ i \in Ideals /\ \A n \in Name : i.named[n] <= w - 1
        BY <3>2, <4>1, Migrations
      <4>3. IsOfColumn(i, k)
        BY <3>2, <4>1 DEF SyncInv, ColumnsInv
      <4>4. ASSUME NEW n \in Name, i.named[n] # NoColumn PROVE i.named[n] \in 1 .. latest
        <5>1. i.named[n] \in 0 .. MaxVersion /\ i.named[n] <= w - 1
          BY <4>2 DEF Ideals
        <5> QED BY <1>3, <3>2, <4>4, <5>1 DEF NoColumn
      <4> QED BY <4>2, <4>3, <4>4
    <3> QED BY <1>3, <3>1, <3>2
  <2>2. \A o \in 1 .. latest : IsFake(o)' <=> IsFake(o)
    BY <1>4, SaidSame
  <2>3. k.do = "rename" => ~IsFake(i.named[k.old])'
    <3> SUFFICES ASSUME k.do = "rename", NEW p, p = i.named[k.old] PROVE ~IsFake(p)'
      BY DEF IsFake, Kind
    <3>1. k.old \in Name /\ p # NoColumn
      BY <2>1 DEF Legal
    <3>2. p \in 1 .. latest /\ ~IsFake(p)
      BY <2>1, <3>1 DEF IsOfColumn
    <3> QED BY <2>2, <3>2
  <2>4. k.kind \in {"index", "constraint"} => k.do = "add" /\ ~IsFake(i.named[k.on])'
    <3> SUFFICES ASSUME k.kind \in {"index", "constraint"}, NEW p, p = i.named[k.on]
                 PROVE  k.do = "add" /\ ~IsFake(p)'
      BY DEF IsFake, Kind
    <3>1. k.do = "add" /\ ~IsFake(p)
      BY <2>1 DEF IsOfColumn
    <3>2. k.on \in Name /\ p # NoColumn
      BY <2>1, <3>1 DEF Legal
    <3>3. p \in 1 .. latest
      BY <2>1, <3>2
    <3> QED BY <2>2, <3>1, <3>3
  <2> QED BY <2>3, <2>4 DEF IsOfColumn, IsFake, Kind
<1>7. ColumnsInv'
  BY <1>2, <1>6 DEF ColumnsInv
<1>8. Pending' = Pending /\ Pending \in SUBSET (1 .. latest)
  BY <1>2, PendingReleased DEF Pending
<1>9. FlagsInv'
  BY <1>2, <1>4, <1>8, SaidSame DEF SyncInv, FlagsInv
<1>10. OrderInv'
  <2> SUFFICES ASSUME NEW P, P = Pending, NEW t, t = table PROVE OrderInv'
    OBVIOUS
  <2>1. /\ Altering(P)' <=> Altering(P)
        /\ Listed(P, t.unsynced)' <=> Listed(P, t.unsynced)
        /\ \A w \in P : SaysWhat(t, w)' <=> SaysWhat(t, w)
    BY <1>4, <1>8, SaidSame
  <2>2. /\ t.created /\ Altering(P) =>
              Listed(P, t.unsynced) /\ \A w \in P : SaysWhat(t, w)
    BY DEF SyncInv, OrderInv
  <2>3. Pending' = P /\ table' = t
    BY <1>2, <1>8
  <2> QED BY <2>1, <2>2, <2>3 DEF OrderInv, Altering, Listed, IsLast, SaysWhat, Entries
<1> QED BY <1>7, <1>9, <1>10 DEF SyncInv

LEMMA IncludeKeepsSync == ASSUME IInv, SyncInv, Include PROVE SyncInv'
<1> SUFFICES ASSUME NEW v, v = table.version + 1, NEW q, q = Included(table, v, history[v])
             PROVE  SyncInv'
  OBVIOUS
<1>1. /\ table \in Tables /\ dbversion \in 0 .. latest /\ latest \in Version
      /\ ColumnsInv /\ FlagsInv /\ OrderInv
  BY DEF IInv, TypeInv, SyncInv
<1>2. /\ table.version < latest
      /\ table' = IF dbversion = v THEN EraseRecords(TraceName(q)) ELSE q
      /\ UNCHANGED <<latest, history, ideal, db, dbversion>>
  BY DEF Include
<1>3. /\ v \in Version /\ v - 1 = table.version /\ v <= latest
      /\ Before(table, v, ideal[v - 1], Targets)
      /\ history[v] \in Change /\ Legal(ideal[v - 1], history[v], Targets)
      /\ ideal[v] = Meant(ideal[v - 1], v, history[v])
      /\ IsTargetOf(Targets[v], ideal[v - 1], v, history[v])
  BY <1>2, NextMigration
<1>4. /\ q \in Tables /\ q.version = v /\ q.created = table.created
      /\ Unambiguous(q) /\ Follow(q, Targets)
  <2>1. /\ After(table, q, v, Meant(ideal[v - 1], v, history[v]), Targets)
        /\ q.version = v
    BY <1>3, IncludedAfter
  <2> QED BY <2>1 DEF After
<1>5. SameSoFar
  BY <1>2 DEF SameSoFar
<1>6. ColumnsInv'
  BY <1>1, <1>2 DEF ColumnsInv, IsOfColumn, IsFake, Kind
<1>7. CASE dbversion = v
  <2>1. table' = EraseRecords(TraceName(q)) /\ TraceName(q) \in Tables
        /\ TraceName(q).version = v
    BY <1>2, <1>4, <1>7, TraceNameKeeps DEF SameColumns
  <2>2. table'.unsynced = <<>> /\ table'.version = v
    <3>1. EraseRecords(TraceName(q)).version = v
      BY <2>1 DEF EraseRecords, Tables
    <3> QED BY <2>1, <3>1, ErasedFields
  <2>3. Pending' = {} /\ dbversion' > 0
    BY <1>2, <1>3, <1>7, <2>2, VersionAssumption DEF Pending, Version
  <2> QED BY <1>6, <2>2, <2>3, ErasedSays
<1>8. CASE dbversion # v /\ ~table.created
  <2>1. ~table'.created
    BY <1>2, <1>4, <1>8
  <2> QED BY <1>6, <2>1 DEF SyncInv, FlagsInv, OrderInv
<1>9. CASE dbversion # v /\ table.created
  <2>1. table' = q /\ dbversion' = dbversion /\ v \in 1 .. latest
    BY <1>1, <1>2, <1>3, <1>9, VersionAssumption DEF Version
  <2> SUFFICES ASSUME NEW P, P = Pending \cup {v} PROVE SyncInv'
    OBVIOUS
  <2>2. /\ Pending' = P /\ P \in SUBSET (1 .. latest) /\ dbversion > 0
    <3>1. table.version >= dbversion /\ dbversion > 0
      BY <1>1, <1>9 DEF IInv, DatabaseInv, FlagsInv
    <3>2. table.version \in Nat /\ dbversion \in Nat /\ v \in Nat
      BY <1>3, PendingReleased, VersionAssumption DEF Version
    <3>3. Pending' = dbversion + 1 .. v /\ Pending = dbversion + 1 .. v - 1
      BY <1>3, <1>4, <2>1 DEF Pending
    <3>4. Pending \subseteq 1 .. latest
      BY PendingReleased
    <3> QED BY <2>1, <3>1, <3>2, <3>3, <3>4
  <2>3. /\ \A w \in P : (IsApart(w)' <=> IsApart(w)) /\ (DropsIndex(w)' <=> DropsIndex(w))
        /\ \A w \in P : SaysWhat(q, w)' <=> SaysWhat(q, w)
        /\ Altering(P)' <=> Altering(P)
        /\ Listed(P, q.unsynced)' <=> Listed(P, q.unsynced)
    BY <1>5, <2>2, SaidSame
  <2>4. FlagsInv'
    <3>1. /\ table.flags \subseteq q.flags
          /\ q.flags = {} => DropsIndex(v)
          /\ q.flags \cap Unsupported = {} => IsApart(v)
      <4> SUFFICES ASSUME NEW c, c = history[v], NEW i, i = ideal[v - 1]
                   PROVE  /\ table.flags \subseteq q.flags
                          /\ q.flags = {} => DropsIndex(v)
                          /\ q.flags \cap Unsupported = {} => IsApart(v)
        OBVIOUS
      <4>1. /\ table.flags \subseteq q.flags
            /\ q.flags = {} => c.do = "drop" /\ Kind(i.named[c.old]) = "index"
            /\ q.flags \cap Unsupported = {} =>
                  \/ c.do = "rename"
                  \/ c.do = "add" /\ c.kind \in {"plain", "index"}
                  \/ c.do = "drop" /\ Kind(i.named[c.old]) = "index"
        BY <1>3, IncludedFlags
      <4>2. c.do = "drop" => Concerns(v) = i.named[c.old]
        BY DEF Concerns, Does
      <4>3. c.do = "drop" /\ Kind(i.named[c.old]) = "index" => DropsIndex(v)
        BY <4>2 DEF DropsIndex, Does
      <4>4. Kind(v) = c.kind
        BY DEF Kind
      <4> QED BY <4>1, <4>3, <4>4 DEF IsApart, Does
    <3>2. ASSUME q.flags = {}, NEW w \in P PROVE DropsIndex(w)
      BY <1>1, <1>9, <3>1, <3>2 DEF FlagsInv
    <3>3. ASSUME q.flags \cap Unsupported = {}, NEW w \in P PROVE IsApart(w)
      BY <1>1, <1>9, <3>1, <3>3 DEF FlagsInv
    <3> QED BY <2>1, <2>2, <2>3, <3>2, <3>3 DEF FlagsInv
  <2>5. OrderInv'
    <3> SUFFICES ASSUME Altering(P)
                 PROVE  Listed(P, q.unsynced) /\ \A w \in P : SaysWhat(q, w)
      BY <2>1, <2>2, <2>3 DEF OrderInv
    <3>1. NextIs(v, q)
      BY <1>2, <1>9 DEF NextIs
    <3>2. /\ Does(v, "add") \/ Does(v, "rename") \/ DropsIndex(v)
          /\ v \in Nat /\ table.unsynced \in Seq(Version) /\ Concerns(v) \in Version
          /\ Pending \subseteq Nat /\ \A w \in Pending : w < v
          /\ Listed(Pending, table.unsynced)
      <4>1. IsApart(v)
        BY DEF Altering
      <4>2. Concerns(v) \in 1 .. v
        BY <2>1, Migrations
      <4>3. 1 .. v \subseteq Version
        BY <1>3, VersionAssumption DEF Version
      <4> QED BY <1>1, <2>1, <3>1, <4>1, <4>2, <4>3, ConcernsAre, NextFacts
    <3>3. NextSays(q, v)
      BY <1>1, <3>1, <3>2, AddSays, RenameSays, DropSays
    <3>4. PICK others \in Seq(Version) :
              /\ Touched(table, q, Concerns(v), others)
              /\ Range(others) = Range(table.unsynced) \ {Concerns(v)}
              /\ KeepsOrder(table.unsynced, others)
              /\ SaysWhat(q, v)
              /\ \A w \in Pending : SaysWhat(q, w)
      BY <3>3 DEF NextSays
    <3>5. Listed(P, <<Concerns(v)>> \o others)
      BY <3>2, <3>4, ListedInFront
    <3>6. q.unsynced = <<Concerns(v)>> \o others
      BY <3>4 DEF Touched
    <3> QED BY <3>4, <3>5, <3>6
  <2> QED BY <1>6, <2>4, <2>5 DEF SyncInv
<1> QED BY <1>7, <1>8, <1>9

LEMMA SyncKeepsSync == ASSUME IInv, SyncInv, Sync PROVE SyncInv'
<1>1. /\ table \in Tables /\ dbversion \in 0 .. latest /\ latest \in Version
      /\ Unambiguous(table) /\ Follow(table, Targets) /\ ColumnsInv
  BY DEF IInv, TypeInv, TableInv, SyncInv
<1>2. /\ table' = EraseRecords(TraceName(table)) /\ UNCHANGED <<latest, history, ideal>>
      /\ dbversion < table.version /\ dbversion' = table.version
  BY DEF Sync
<1>3. ColumnsInv'
  BY <1>1, <1>2 DEF ColumnsInv, IsOfColumn, IsFake, Kind
<1>4. TraceName(table) \in Tables /\ TraceName(table).version = table.version
  BY <1>1, TraceNameKeeps DEF SameColumns
<1>5. table'.unsynced = <<>> /\ table'.version = table.version
  <2>1. EraseRecords(TraceName(table)).version = table.version
    BY <1>4 DEF EraseRecords, Tables
  <2> QED BY <1>2, <1>4, <2>1, ErasedFields
<1>6. Pending' = {} /\ dbversion' > 0
  <2>1. table.version \in Nat /\ dbversion \in Nat
    BY PendingReleased
  <2> QED BY <1>2, <1>5, <2>1 DEF Pending
<1> QED BY <1>3, <1>5, <1>6, ErasedSays

(* The records say in which order and with what the table is altered.      *)
THEOREM SyncInvariance == Spec => []SyncInv
<1>1. ASSUME IInv, SyncInv, [Next]_vars PROVE SyncInv'
  <2>1. CASE Releases
    <3>1. PICK c \in Change : /\ Release(c) /\ Legal(ideal[latest], c, Targets)
                              /\ IsOfColumn(ideal[latest], c)
      BY <2>1, <1>1, ReleasesLegal DEF IInv
    <3> QED BY <1>1, <3>1, ReleaseKeepsSync
  <2>2. CASE Include
    BY <1>1, <2>2, IncludeKeepsSync
  <2>3. CASE Sync
    BY <1>1, <2>3, SyncKeepsSync
  <2>4. CASE Restart
    <3>1. table'.created = FALSE /\ UNCHANGED <<latest, history, ideal>>
      BY <2>4 DEF Restart, EmptyTable
    <3>2. ColumnsInv'
      BY <1>1, <3>1 DEF SyncInv, ColumnsInv, IsOfColumn, IsFake, Kind
    <3> QED BY <3>1, <3>2 DEF SyncInv, FlagsInv, OrderInv
  <2>5. CASE UNCHANGED vars
    <3>1. SameSoFar /\ Pending' = Pending /\ table' = table /\ dbversion' = dbversion
          /\ UNCHANGED <<latest, history, ideal>>
      BY <2>5 DEF vars, SameSoFar, Pending
    <3>2. ColumnsInv'
      BY <1>1, <3>1 DEF SyncInv, ColumnsInv, IsOfColumn, IsFake, Kind
    <3> SUFFICES ASSUME NEW P, P = Pending, NEW t, t = table PROVE SyncInv'
      OBVIOUS
    <3>3. P \in SUBSET (1 .. latest)
      BY <1>1, PendingReleased
    <3>4. /\ \A w \in P : (IsApart(w)' <=> IsApart(w)) /\ (DropsIndex(w)' <=> DropsIndex(w))
          /\ \A w \in P : SaysWhat(t, w)' <=> SaysWhat(t, w)
          /\ Altering(P)' <=> Altering(P)
          /\ Listed(P, t.unsynced)' <=> Listed(P, t.unsynced)
      BY <1>1, <3>1, <3>3, SaidSame
    <3>5. FlagsInv' /\ OrderInv'
      BY <1>1, <3>1, <3>4 DEF SyncInv, FlagsInv, OrderInv
    <3> QED BY <3>2, <3>5 DEF SyncInv
  <2> QED BY <1>1, <2>1, <2>2, <2>3, <2>4, <2>5 DEF Next
<1>2. Init => SyncInv
  BY InitSyncInv
<1> QED BY <1>1, <1>2, Invariance, PTL DEF Spec

-----------------------------------------------------------------------------
(* What a synchronization that alters the table makes of the database,     *)
(* statement by statement.                                                 *)

HasRow(i, n) == i.named[n] # NoColumn /\ ~IsFake(i.named[n])

HasKind(i, n, k) == i.named[n] # NoColumn /\ Kind(i.named[n]) = k

IsOn(i, n, m) == m \in Name /\ i.named[m] = Targets[i.named[n]]

(* The database d has what i means, but for the indexes that are lost: they *)
(* were never made.                                                        *)
Mirrors(d, i, lost) ==
    \A n \in Name :
      /\ d.rows[n] = IF HasRow(i, n) THEN i.named[n] ELSE NoColumn
      /\ d.defined[n] = IF HasRow(i, n) THEN i.defined[i.named[n]] ELSE 0
      /\ IF HasKind(i, n, "index") /\ i.named[n] \notin lost
         THEN IsOn(i, n, d.index[n]) ELSE d.index[n] = NoName
      /\ IF HasKind(i, n, "constraint")
         THEN IsOn(i, n, d.constraint[n]) ELSE d.constraint[n] = NoName

(* What a statement finds: an ideal table i of w - 1 migrations and d that *)
(* mirrors it.                                                             *)
Finds(d, i, lost, w) ==
    /\ d \in Databases /\ i \in Ideals /\ w \in Version
    /\ \A n \in Name : i.named[n] <= w - 1
    /\ \A o \in Version : IsFake(o) => Targets[o] # NoColumn
    /\ Mirrors(d, i, lost)

(* The statement is executed, and d is a mirror of j.                      *)
Makes(r, j, lost) == r.ok /\ Mirrors(r.db, j, lost)

LEMMA FindsFields ==
    ASSUME NEW d, NEW i, NEW lost, NEW w, Finds(d, i, lost, w)
    PROVE  /\ \A n \in Name : i.named[n] \in Version \cup {NoColumn} /\ i.named[n] # w
           /\ w \notin {NoColumn, Emptied} /\ ~Holds(d, w)
           /\ DOMAIN d.rows = Name /\ DOMAIN d.defined = Name
           /\ DOMAIN d.index = Name /\ DOMAIN d.constraint = Name
           /\ \A n \in Name : HasColumn(d, n) <=> HasRow(i, n)
           /\ \A n \in Name : HasKind(i, n, "index") \/ HasKind(i, n, "constraint") =>
                 Targets[i.named[n]] # NoColumn /\ ~HasRow(i, n)
           /\ \A n \in Name : ~(HasKind(i, n, "index") /\ HasKind(i, n, "constraint"))
<1>1. /\ w \in Nat /\ w # 0 /\ w # -1
      /\ i.named \in [Name -> 0 .. MaxVersion]
  BY VersionAssumption DEF Finds, Version, Ideals
<1>2. \A n \in Name : i.named[n] \in Version \cup {NoColumn} /\ i.named[n] # w
  <2> SUFFICES ASSUME NEW n \in Name
               PROVE  i.named[n] \in Version \cup {NoColumn} /\ i.named[n] # w
    OBVIOUS
  <2>1. i.named[n] \in 0 .. MaxVersion /\ i.named[n] <= w - 1
    BY <1>1 DEF Finds
  <2> QED BY <1>1, <2>1, VersionAssumption DEF Version, NoColumn
<1>3. \A n \in Name : d.rows[n] = IF HasRow(i, n) THEN i.named[n] ELSE NoColumn
  BY DEF Finds, Mirrors
<1>4. w \notin {NoColumn, Emptied} /\ ~Holds(d, w)
  BY <1>1, <1>2, <1>3 DEF Holds, NoColumn, Emptied
<1>5. /\ DOMAIN d.rows = Name /\ DOMAIN d.defined = Name
      /\ DOMAIN d.index = Name /\ DOMAIN d.constraint = Name
  BY DatabaseFields DEF Finds
<1>6. \A n \in Name : HasColumn(d, n) <=> HasRow(i, n)
  BY <1>3 DEF HasColumn, HasRow
<1>7. \A n \in Name : HasKind(i, n, "index") \/ HasKind(i, n, "constraint") =>
                 Targets[i.named[n]] # NoColumn /\ ~HasRow(i, n)
  BY <1>2 DEF Finds, HasKind, HasRow, IsFake
<1>8. \A n \in Name : ~(HasKind(i, n, "index") /\ HasKind(i, n, "constraint"))
  BY DEF HasKind
<1> QED BY <1>2, <1>4, <1>5, <1>6, <1>7, <1>8

(* A column is added.                                                      *)
LEMMA AddMirrors ==
    ASSUME NEW d, NEW i, NEW lost, NEW w, Finds(d, i, lost, w),
           NEW n \in Name, i.named[n] = NoColumn, ~IsFake(w),
           NEW j, \A m \in Name : j.named[m] = IF m = n THEN w ELSE i.named[m],
           j.defined[w] = w, \A o \in Version : o # w => j.defined[o] = i.defined[o]
    PROVE  Makes(ExecAddColumn(d, w, n, w), j, lost)
<1> DEFINE rows == [d.rows EXCEPT ![n] = w]
           defined == [d.defined EXCEPT ![n] = w]
<1>1. /\ w \notin {NoColumn, Emptied} /\ ~Holds(d, w)
      /\ DOMAIN d.rows = Name /\ DOMAIN d.defined = Name
      /\ \A m \in Name : i.named[m] \in Version \cup {NoColumn} /\ i.named[m] # w
      /\ \A m \in Name : HasKind(i, m, "index") \/ HasKind(i, m, "constraint") =>
            Targets[i.named[m]] # NoColumn
  BY FindsFields
<1>0. d \in Databases /\ i \in Ideals /\ w \in Version
  BY DEF Finds
<1>2. ~HasColumn(d, n)
  BY FindsFields DEF HasRow
<1>3. ExecAddColumn(d, w, n, w) = Done([d EXCEPT !.rows[n] = w, !.defined[n] = w])
  BY <1>1, <1>2 DEF ExecAddColumn
<1>4. PICK e : e = [d EXCEPT !.rows[n] = w, !.defined[n] = w]
  OBVIOUS
<1>5. /\ e.rows = rows /\ e.defined = defined /\ e.index = d.index
      /\ e.constraint = d.constraint
  BY <1>0, <1>4 DEF Databases
<1>6. ExecAddColumn(d, w, n, w).ok /\ ExecAddColumn(d, w, n, w).db = e
  BY <1>3, <1>4 DEF Done
<1>7. /\ \A m \in Name : rows[m] = IF m = n THEN w ELSE d.rows[m]
      /\ \A m \in Name : defined[m] = IF m = n THEN w ELSE d.defined[m]
  BY <1>1
<1> HIDE DEF rows, defined
<1>8. /\ j.defined[w] = w
      /\ \A m \in Name : i.named[m] # NoColumn => j.defined[i.named[m]] = i.defined[i.named[m]]
  BY <1>0, <1>1
<1>9. /\ HasRow(j, n) /\ j.named[n] = w /\ \A k : HasKind(j, n, k) <=> Kind(w) = k
      /\ \A m \in Name : m # n =>
            /\ j.named[m] = i.named[m] /\ (HasRow(j, m) <=> HasRow(i, m))
            /\ \A k : HasKind(j, m, k) <=> HasKind(i, m, k)
  BY <1>1 DEF HasRow, HasKind
<1>10. Kind(w) # "index" /\ Kind(w) # "constraint"
  BY DEF IsFake
<1>11. ~HasRow(i, n) /\ \A k : ~HasKind(i, n, k)
  BY DEF HasRow, HasKind
<1>12. ASSUME NEW m \in Name, NEW p, IsOn(i, m, p),
              HasKind(i, m, "index") \/ HasKind(i, m, "constraint")
       PROVE  IsOn(j, m, p)
  BY <1>1, <1>9, <1>11, <1>12 DEF IsOn
<1>13. Mirrors(e, j, lost)
  <2> SUFFICES ASSUME NEW m \in Name
      PROVE /\ e.rows[m] = IF HasRow(j, m) THEN j.named[m] ELSE NoColumn
            /\ e.defined[m] = IF HasRow(j, m) THEN j.defined[j.named[m]] ELSE 0
            /\ IF HasKind(j, m, "index") /\ j.named[m] \notin lost
               THEN IsOn(j, m, e.index[m]) ELSE e.index[m] = NoName
            /\ IF HasKind(j, m, "constraint")
               THEN IsOn(j, m, e.constraint[m]) ELSE e.constraint[m] = NoName
    BY DEF Mirrors
  <2>1. /\ d.rows[m] = IF HasRow(i, m) THEN i.named[m] ELSE NoColumn
        /\ d.defined[m] = IF HasRow(i, m) THEN i.defined[i.named[m]] ELSE 0
        /\ IF HasKind(i, m, "index") /\ i.named[m] \notin lost
           THEN IsOn(i, m, d.index[m]) ELSE d.index[m] = NoName
        /\ IF HasKind(i, m, "constraint")
           THEN IsOn(i, m, d.constraint[m]) ELSE d.constraint[m] = NoName
    BY DEF Finds, Mirrors
  <2>2. CASE m = n
    BY <2>1, <2>2, <1>5, <1>7, <1>8, <1>9, <1>10, <1>11
  <2>3. CASE m # n
    <3>1. HasRow(i, m) => i.named[m] # NoColumn
      BY DEF HasRow
    <3> QED BY <2>1, <2>3, <3>1, <1>5, <1>7, <1>8, <1>9, <1>12
  <2> QED BY <2>2, <2>3
<1> QED BY <1>6, <1>13 DEF Makes

(* An index is made on what its declaration was made on.                   *)
LEMMA IndexMirrors ==
    ASSUME NEW d, NEW i, NEW lost, NEW w, Finds(d, i, lost, w),
           NEW n \in Name, i.named[n] = NoColumn, Kind(w) = "index",
           NEW m \in Name, i.named[m] = Targets[w], HasRow(i, m),
           NEW j, \A k \in Name : j.named[k] = IF k = n THEN w ELSE i.named[k],
           j.defined[w] = w, \A o \in Version : o # w => j.defined[o] = i.defined[o]
    PROVE  /\ w \notin lost => Makes(ExecCreateIndex(d, n, m), j, lost)
           /\ w \in lost => Mirrors(d, j, lost)
<1>0. d \in Databases /\ i \in Ideals /\ w \in Version
  BY DEF Finds
<1>1. /\ w \notin {NoColumn, Emptied} /\ DOMAIN d.index = Name
      /\ \A k \in Name : i.named[k] \in Version \cup {NoColumn} /\ i.named[k] # w
      /\ \A k \in Name : HasKind(i, k, "index") \/ HasKind(i, k, "constraint") =>
            Targets[i.named[k]] # NoColumn
  BY FindsFields
<1>2. HasColumn(d, m)
  BY FindsFields
<1>3. /\ \A k \in Name : i.named[k] # NoColumn => j.defined[i.named[k]] = i.defined[i.named[k]]
  BY <1>0, <1>1
<1>4. /\ ~HasRow(j, n) /\ j.named[n] = w
      /\ HasKind(j, n, "index") /\ ~HasKind(j, n, "constraint")
      /\ \A k \in Name : k # n =>
            /\ j.named[k] = i.named[k] /\ (HasRow(j, k) <=> HasRow(i, k))
            /\ \A x : HasKind(j, k, x) <=> HasKind(i, k, x)
  BY <1>1 DEF HasRow, HasKind, IsFake
<1>5. ~HasRow(i, n) /\ \A x : ~HasKind(i, n, x)
  BY DEF HasRow, HasKind
<1>6. ASSUME NEW k \in Name, NEW p, IsOn(i, k, p),
             HasKind(i, k, "index") \/ HasKind(i, k, "constraint")
      PROVE  IsOn(j, k, p)
  BY <1>1, <1>4, <1>5, <1>6 DEF IsOn
<1>7. m # n /\ IsOn(j, n, m)
  BY <1>4 DEF IsOn, HasRow
<1>8. ASSUME NEW e, e.rows = d.rows, e.defined = d.defined, e.constraint = d.constraint,
             \A k \in Name : k # n => e.index[k] = d.index[k],
             IF w \notin lost THEN e.index[n] = m ELSE e.index[n] = NoName
      PROVE  Mirrors(e, j, lost)
  <2> SUFFICES ASSUME NEW k \in Name
      PROVE /\ e.rows[k] = IF HasRow(j, k) THEN j.named[k] ELSE NoColumn
            /\ e.defined[k] = IF HasRow(j, k) THEN j.defined[j.named[k]] ELSE 0
            /\ IF HasKind(j, k, "index") /\ j.named[k] \notin lost
               THEN IsOn(j, k, e.index[k]) ELSE e.index[k] = NoName
            /\ IF HasKind(j, k, "constraint")
               THEN IsOn(j, k, e.constraint[k]) ELSE e.constraint[k] = NoName
    BY DEF Mirrors
  <2>1. /\ d.rows[k] = IF HasRow(i, k) THEN i.named[k] ELSE NoColumn
        /\ d.defined[k] = IF HasRow(i, k) THEN i.defined[i.named[k]] ELSE 0
        /\ IF HasKind(i, k, "index") /\ i.named[k] \notin lost
           THEN IsOn(i, k, d.index[k]) ELSE d.index[k] = NoName
        /\ IF HasKind(i, k, "constraint")
           THEN IsOn(i, k, d.constraint[k]) ELSE d.constraint[k] = NoName
    BY DEF Finds, Mirrors
  <2>2. CASE k = n
    BY <2>1, <2>2, <1>4, <1>5, <1>7, <1>8
  <2>3. CASE k # n
    <3>1. HasRow(i, k) => i.named[k] # NoColumn
      BY DEF HasRow
    <3> QED BY <2>1, <2>3, <3>1, <1>3, <1>4, <1>6, <1>8
  <2> QED BY <2>2, <2>3
<1>9. d.index[n] = NoName
  BY <1>5 DEF Finds, Mirrors
<1>10. ASSUME w \notin lost PROVE Makes(ExecCreateIndex(d, n, m), j, lost)
  <2>1. ExecCreateIndex(d, n, m) = Done([d EXCEPT !.index[n] = m])
    BY <1>2, <1>9 DEF ExecCreateIndex
  <2>2. PICK e : e = [d EXCEPT !.index[n] = m]
    OBVIOUS
  <2>3. /\ e.rows = d.rows /\ e.defined = d.defined /\ e.constraint = d.constraint
        /\ e.index = [d.index EXCEPT ![n] = m]
    BY <1>0, <2>2 DEF Databases
  <2>4. Mirrors(e, j, lost)
    BY <1>1, <1>8, <1>10, <2>3
  <2> QED BY <2>1, <2>2, <2>4 DEF Makes, Done
<1>11. ASSUME w \in lost PROVE Mirrors(d, j, lost)
  BY <1>8, <1>9, <1>11
<1> QED BY <1>10, <1>11

(* A column is renamed, and what is declared on it follows.                *)
LEMMA RenameMirrors ==
    ASSUME NEW d, NEW i, NEW lost, NEW w, Finds(d, i, lost, w),
           NEW n \in Name, NEW m \in Name, HasRow(i, n), i.named[m] = NoColumn,
           NEW j, j.defined = i.defined,
           \A k \in Name : j.named[k] = IF k = n THEN NoColumn
                                        ELSE IF k = m THEN i.named[n] ELSE i.named[k]
    PROVE  Makes(ExecRenameColumn(d, n, m), j, lost)
<1> DEFINE moved(on) == [k \in Name |-> IF on[k] = n THEN m ELSE on[k]]
           rows == [d.rows EXCEPT ![n] = NoColumn, ![m] = d.rows[n]]
           defined == [d.defined EXCEPT ![n] = 0, ![m] = d.defined[n]]
           e == [rows |-> rows, defined |-> defined,
                 index |-> moved(d.index), constraint |-> moved(d.constraint)]
<1>1. /\ DOMAIN d.rows = Name /\ DOMAIN d.defined = Name
      /\ \A k \in Name : HasKind(i, k, "index") \/ HasKind(i, k, "constraint") =>
            Targets[i.named[k]] # NoColumn /\ ~HasRow(i, k)
  BY FindsFields
<1>2. n # m /\ HasColumn(d, n) /\ ~HasColumn(d, m)
  BY FindsFields DEF HasRow
<1>3. ExecRenameColumn(d, n, m) = Done(e)
  BY <1>2 DEF ExecRenameColumn
<1>4. /\ \A k \in Name : rows[k] = IF k = n THEN NoColumn
                                   ELSE IF k = m THEN d.rows[n] ELSE d.rows[k]
      /\ \A k \in Name : defined[k] = IF k = n THEN 0
                                      ELSE IF k = m THEN d.defined[n] ELSE d.defined[k]
      /\ \A on : \A k \in Name : moved(on)[k] = IF on[k] = n THEN m ELSE on[k]
  BY <1>1, <1>2
<1> HIDE DEF rows, defined, moved
<1>5. PICK f : f = e
  OBVIOUS
<1>6. f.rows = rows /\ f.defined = defined /\ f.index = moved(d.index)
      /\ f.constraint = moved(d.constraint)
  BY <1>5
<1> HIDE DEF e
<1>7. /\ ~HasRow(j, n) /\ \A x : ~HasKind(j, n, x)
      /\ HasRow(j, m) /\ j.named[m] = i.named[n]
      /\ ~HasKind(j, m, "index") /\ ~HasKind(j, m, "constraint")
      /\ \A k \in Name : k # n /\ k # m =>
            /\ j.named[k] = i.named[k] /\ (HasRow(j, k) <=> HasRow(i, k))
            /\ \A x : HasKind(j, k, x) <=> HasKind(i, k, x)
  BY <1>2 DEF HasRow, HasKind, IsFake
<1>8. ~HasRow(i, m) /\ (\A x : ~HasKind(i, m, x))
      /\ ~HasKind(i, n, "index") /\ ~HasKind(i, n, "constraint")
  BY DEF HasRow, HasKind, IsFake
<1>9. NoName # n
  BY NameAssumption
<1>10. ASSUME NEW k \in Name, k # n, k # m, NEW p, IsOn(i, k, p),
              HasKind(i, k, "index") \/ HasKind(i, k, "constraint")
       PROVE  IsOn(j, k, IF p = n THEN m ELSE p)
  <2>1. p # m
    BY <1>1, <1>10 DEF IsOn
  <2> QED BY <1>2, <1>7, <1>10, <2>1 DEF IsOn
<1>11. Mirrors(f, j, lost)
  <2> SUFFICES ASSUME NEW k \in Name
      PROVE /\ f.rows[k] = IF HasRow(j, k) THEN j.named[k] ELSE NoColumn
            /\ f.defined[k] = IF HasRow(j, k) THEN j.defined[j.named[k]] ELSE 0
            /\ IF HasKind(j, k, "index") /\ j.named[k] \notin lost
               THEN IsOn(j, k, f.index[k]) ELSE f.index[k] = NoName
            /\ IF HasKind(j, k, "constraint")
               THEN IsOn(j, k, f.constraint[k]) ELSE f.constraint[k] = NoName
    BY DEF Mirrors
  <2>1. \A l \in {k, n} :
           /\ d.rows[l] = IF HasRow(i, l) THEN i.named[l] ELSE NoColumn
           /\ d.defined[l] = IF HasRow(i, l) THEN i.defined[i.named[l]] ELSE 0
           /\ IF HasKind(i, l, "index") /\ i.named[l] \notin lost
              THEN IsOn(i, l, d.index[l]) ELSE d.index[l] = NoName
           /\ IF HasKind(i, l, "constraint")
              THEN IsOn(i, l, d.constraint[l]) ELSE d.constraint[l] = NoName
    BY DEF Finds, Mirrors
  <2>2. f.index[k] = IF d.index[k] = n THEN m ELSE d.index[k]
    BY <1>4, <1>6
  <2>3. f.constraint[k] = IF d.constraint[k] = n THEN m ELSE d.constraint[k]
    BY <1>4, <1>6
  <2>4. CASE k = n
    <3>1. d.index[k] = NoName /\ d.constraint[k] = NoName
      BY <2>1, <2>4, <1>8
    <3> QED BY <2>2, <2>3, <2>4, <3>1, <1>4, <1>6, <1>7, <1>9
  <2>5. CASE k = m
    <3>1. d.index[k] = NoName /\ d.constraint[k] = NoName
      BY <2>1, <2>5, <1>8
    <3>2. d.rows[n] = i.named[n] /\ d.defined[n] = i.defined[i.named[n]]
      BY <2>1
    <3> QED BY <2>2, <2>3, <2>5, <3>1, <3>2, <1>2, <1>4, <1>6, <1>7, <1>9
  <2>6. CASE k # n /\ k # m
    <3>1. f.rows[k] = d.rows[k] /\ f.defined[k] = d.defined[k]
      BY <2>6, <1>4, <1>6
    <3>2. f.rows[k] = (IF HasRow(j, k) THEN j.named[k] ELSE NoColumn)
          /\ f.defined[k] = (IF HasRow(j, k) THEN j.defined[j.named[k]] ELSE 0)
      BY <2>1, <2>6, <3>1, <1>7
    <3>3. IF HasKind(j, k, "index") /\ j.named[k] \notin lost
          THEN IsOn(j, k, f.index[k]) ELSE f.index[k] = NoName
      BY <2>1, <2>2, <2>6, <1>7, <1>9, <1>10
    <3>4. IF HasKind(j, k, "constraint")
          THEN IsOn(j, k, f.constraint[k]) ELSE f.constraint[k] = NoName
      BY <2>1, <2>3, <2>6, <1>7, <1>9, <1>10
    <3> QED BY <3>2, <3>3, <3>4
  <2> QED BY <2>4, <2>5, <2>6
<1> QED BY <1>3, <1>5, <1>11 DEF Makes, Done

(* An index is dropped.                                                    *)
LEMMA DropMirrors ==
    ASSUME NEW d, NEW i, NEW lost, NEW w, Finds(d, i, lost, w),
           NEW n \in Name, HasKind(i, n, "index"),
           \A k \in Name : i.named[k] # NoColumn => Targets[i.named[k]] # i.named[n],
           NEW j, j.defined = i.defined,
           \A k \in Name : j.named[k] = IF k = n THEN NoColumn ELSE i.named[k]
    PROVE  Makes(ExecDropIndex(d, n), j, lost)
<1>0. d \in Databases
  BY DEF Finds
<1>1. DOMAIN d.index = Name
  BY FindsFields
<1>2. PICK e : e = [d EXCEPT !.index[n] = NoName]
  OBVIOUS
<1>3. /\ e.rows = d.rows /\ e.defined = d.defined /\ e.constraint = d.constraint
      /\ e.index = [d.index EXCEPT ![n] = NoName]
  BY <1>0, <1>2 DEF Databases
<1>4. \A k \in Name : e.index[k] = IF k = n THEN NoName ELSE d.index[k]
  BY <1>1, <1>3
<1>5. /\ ~HasRow(j, n) /\ \A x : ~HasKind(j, n, x)
      /\ \A k \in Name : k # n =>
            /\ j.named[k] = i.named[k] /\ (HasRow(j, k) <=> HasRow(i, k))
            /\ \A x : HasKind(j, k, x) <=> HasKind(i, k, x)
  BY DEF HasRow, HasKind
<1>6. ~HasRow(i, n) /\ ~HasKind(i, n, "constraint")
  BY DEF HasRow, HasKind, IsFake
<1>7. ASSUME NEW k \in Name, k # n, NEW p, IsOn(i, k, p),
             HasKind(i, k, "index") \/ HasKind(i, k, "constraint")
      PROVE  IsOn(j, k, p)
  <2>1. p # n
    BY <1>7 DEF IsOn, HasKind
  <2> QED BY <1>5, <1>7, <2>1 DEF IsOn
<1>8. Mirrors(e, j, lost)
  <2> SUFFICES ASSUME NEW k \in Name
      PROVE /\ e.rows[k] = IF HasRow(j, k) THEN j.named[k] ELSE NoColumn
            /\ e.defined[k] = IF HasRow(j, k) THEN j.defined[j.named[k]] ELSE 0
            /\ IF HasKind(j, k, "index") /\ j.named[k] \notin lost
               THEN IsOn(j, k, e.index[k]) ELSE e.index[k] = NoName
            /\ IF HasKind(j, k, "constraint")
               THEN IsOn(j, k, e.constraint[k]) ELSE e.constraint[k] = NoName
    BY DEF Mirrors
  <2>1. /\ d.rows[k] = IF HasRow(i, k) THEN i.named[k] ELSE NoColumn
        /\ d.defined[k] = IF HasRow(i, k) THEN i.defined[i.named[k]] ELSE 0
        /\ IF HasKind(i, k, "index") /\ i.named[k] \notin lost
           THEN IsOn(i, k, d.index[k]) ELSE d.index[k] = NoName
        /\ IF HasKind(i, k, "constraint")
           THEN IsOn(i, k, d.constraint[k]) ELSE d.constraint[k] = NoName
    BY DEF Finds, Mirrors
  <2>2. CASE k = n
    BY <2>1, <2>2, <1>3, <1>4, <1>5, <1>6
  <2>3. CASE k # n
    BY <2>1, <2>3, <1>3, <1>4, <1>5, <1>7
  <2> QED BY <2>2, <2>3
<1> QED BY <1>2, <1>8 DEF Makes, ExecDropIndex, Done

(* To match is to mirror with no index lost.                               *)
LEMMA MatchesIs ==
    ASSUME IInv, RowsInv, NEW v \in 0 .. latest, NEW d \in Databases
    PROVE  Matches(d, v) <=> Mirrors(d, ideal[v], {})
<1> SUFFICES ASSUME NEW i, i = ideal[v]
             PROVE  Matches(d, v) <=> Mirrors(d, i, {})
  OBVIOUS
<1> DEFINE nameOf(o) == CHOOSE n \in Name : i.named[n] = o
           is(n, kinds) == i.named[n] # NoColumn /\ Kind(i.named[n]) \in kinds
<1>1. /\ i \in Ideals /\ NamedOnce(i) /\ Declared(i, Targets)
      /\ \A o \in Version : IsFake(o) => Targets[o] # NoColumn /\ Targets[o] = Target(o)
      /\ history \in [Version -> Change]
  <2>1. v \in 0 .. MaxVersion /\ latest \in Version
    BY VersionAssumption DEF IInv, TypeInv, Version
  <2> QED BY <2>1 DEF IInv, TypeInv, ReleasesInv, RowsInv, Targets
<1>2. \A n \in Name : i.named[n] # NoColumn =>
         i.named[n] \in Version /\ Kind(i.named[n]) \in Kinds
  <2> SUFFICES ASSUME NEW n \in Name, i.named[n] # NoColumn
               PROVE  i.named[n] \in Version /\ Kind(i.named[n]) \in Kinds
    OBVIOUS
  <2>1. i.named[n] \in 0 .. MaxVersion
    BY <1>1 DEF Ideals
  <2>2. i.named[n] \in Version
    BY <2>1, VersionAssumption DEF Version, NoColumn
  <2>3. history[i.named[n]] \in Change
    BY <1>1, <2>2
  <2> QED BY <2>2, <2>3 DEF Kind, Change
<1>3. ASSUME NEW n \in Name
      PROVE  /\ is(n, {"plain", "special"}) <=> HasRow(i, n)
             /\ is(n, {"index"}) <=> HasKind(i, n, "index")
             /\ is(n, {"constraint"}) <=> HasKind(i, n, "constraint")
  BY <1>2 DEF HasRow, HasKind, IsFake, Kinds
<1>4. ASSUME NEW n \in Name, HasKind(i, n, "index") \/ HasKind(i, n, "constraint"), NEW m
      PROVE  m = nameOf(Target(i.named[n])) <=> IsOn(i, n, m)
  <2>1. IsFake(i.named[n]) /\ i.named[n] \in Version /\ i.named[n] # NoColumn
    BY <1>2, <1>4 DEF HasKind, IsFake
  <2>2. Targets[i.named[n]] # NoColumn /\ Targets[i.named[n]] = Target(i.named[n])
    BY <1>1, <2>1
  <2>3. \E k \in Name : i.named[k] = Targets[i.named[n]]
    BY <1>1, <2>1, <2>2 DEF Declared
  <2>4. /\ nameOf(Target(i.named[n])) \in Name
        /\ i.named[nameOf(Target(i.named[n]))] = Targets[i.named[n]]
    BY <2>2, <2>3, Zenon
  <2>5. \A k, l \in Name : i.named[k] = Targets[i.named[n]] /\ i.named[l] = Targets[i.named[n]]
                              => k = l
    BY <1>1, <2>2 DEF NamedOnce
  <2> HIDE DEF nameOf
  <2> QED BY <2>4, <2>5 DEF IsOn
<1>5. Matches(d, v) <=>
        \A n \in Name :
          /\ d.rows[n] = IF is(n, {"plain", "special"}) THEN i.named[n] ELSE NoColumn
          /\ d.defined[n] = IF is(n, {"plain", "special"}) THEN i.defined[i.named[n]] ELSE 0
          /\ d.index[n] = IF is(n, {"index"}) THEN nameOf(Target(i.named[n])) ELSE NoName
          /\ d.constraint[n] = IF is(n, {"constraint"})
                               THEN nameOf(Target(i.named[n])) ELSE NoName
  BY Zenon DEF Matches
<1> HIDE DEF nameOf, is
<1>6. ASSUME NEW n \in Name
      PROVE  (/\ d.rows[n] = IF is(n, {"plain", "special"}) THEN i.named[n] ELSE NoColumn
              /\ d.defined[n] = IF is(n, {"plain", "special"}) THEN i.defined[i.named[n]] ELSE 0
              /\ d.index[n] = IF is(n, {"index"}) THEN nameOf(Target(i.named[n])) ELSE NoName
              /\ d.constraint[n] = IF is(n, {"constraint"})
                                   THEN nameOf(Target(i.named[n])) ELSE NoName)
             <=>
             (/\ d.rows[n] = IF HasRow(i, n) THEN i.named[n] ELSE NoColumn
              /\ d.defined[n] = IF HasRow(i, n) THEN i.defined[i.named[n]] ELSE 0
              /\ IF HasKind(i, n, "index") /\ i.named[n] \notin {}
                 THEN IsOn(i, n, d.index[n]) ELSE d.index[n] = NoName
              /\ IF HasKind(i, n, "constraint")
                 THEN IsOn(i, n, d.constraint[n]) ELSE d.constraint[n] = NoName)
  BY <1>3, <1>4
<1> QED BY <1>5, <1>6 DEF Mirrors

(* What is made from a table that is as it is meant.                       *)
LEMMA MadeMirrors ==
    ASSUME NEW t \in Tables, NEW i \in Ideals, IsMeant(t, i), NamedOnce(i),
           Declared(i, Targets),
           \A o \in Version : IsFake(o) => Targets[o] # NoColumn,
           \A o, p \in Version :
              o \in Entries(t) /\ p \in Entries(t) /\ Targets[o] = p => t.on[o] = t.name[p],
           NEW from, \A o \in Columns(t) : from[o] = o
    PROVE  Mirrors(TableWith(t, from), i, {})
<1> DEFINE made(k) == {o \in Entries(t) : Kind(o) = k}
           d == TableWith(t, from)
<1>1. /\ Entries(t) \subseteq Version
      /\ \A n \in Name : i.named[n] # NoColumn =>
            i.named[n] \in Entries(t) /\ t.name[i.named[n]] = n
      /\ \A n \in Name, o \in Entries(t) : t.name[o] = n =>
            i.named[n] = o /\ i.named[n] # NoColumn
  <2>1. Entries(t) \subseteq Version /\ NoColumn \notin Version
    BY Fields DEF Version, NoColumn
  <2>2. ASSUME NEW n \in Name, i.named[n] # NoColumn
        PROVE  i.named[n] \in Entries(t) /\ t.name[i.named[n]] = n
    <3>1. i.named[n] \in 0 .. MaxVersion
      BY DEF Ideals
    <3>2. i.named[n] \in Version
      BY <2>2, <3>1, VersionAssumption DEF Version, NoColumn
    <3>3. t.name[i.named[n]] = n
      BY <3>2 DEF IsMeant
    <3> QED BY <3>2, <3>3, NameAssumption DEF Entries
  <2> QED BY <2>1, <2>2 DEF IsMeant
<1>2. ASSUME NEW os, os \subseteq Entries(t), NEW f, NEW none, NEW n \in Name
      PROVE  /\ i.named[n] \in os /\ i.named[n] # NoColumn =>
                   At(t, os, f, none)[n] = f[i.named[n]]
             /\ ~(i.named[n] \in os /\ i.named[n] # NoColumn) =>
                   At(t, os, f, none)[n] = none
  <2>1. ASSUME i.named[n] \in os, i.named[n] # NoColumn
        PROVE  At(t, os, f, none)[n] = f[i.named[n]]
    <3>1. \A o \in os : t.name[o] = n <=> o = i.named[n]
      BY <1>1, <1>2, <2>1
    <3>2. (CHOOSE o \in os : t.name[o] = n) = i.named[n]
      BY <2>1, <3>1
    <3> QED BY <2>1, <3>1, <3>2 DEF At
  <2>2. ASSUME ~(i.named[n] \in os /\ i.named[n] # NoColumn)
        PROVE  At(t, os, f, none)[n] = none
    <3>1. \A o \in os : t.name[o] # n
      BY <1>1, <1>2, <2>2
    <3> QED BY <3>1 DEF At
  <2> QED BY <2>1, <2>2
<1>3. /\ d.rows = At(t, Columns(t), from, NoColumn)
      /\ d.defined = At(t, Columns(t), t.defined, 0)
      /\ d.index = At(t, made("index"), t.on, NoName)
      /\ d.constraint = At(t, made("constraint"), t.on, NoName)
  BY DEF TableWith
<1>4. ASSUME NEW n \in Name, NEW k \in {"index", "constraint"}, HasKind(i, n, k)
      PROVE  IsOn(i, n, t.on[i.named[n]])
  <2>1. /\ i.named[n] \in Entries(t) /\ i.named[n] \in Version
        /\ IsFake(i.named[n]) /\ i.named[n] # NoColumn
    BY <1>1, <1>4 DEF HasKind, IsFake
  <2>2. PICK m \in Name : i.named[m] = Targets[i.named[n]]
    BY <2>1 DEF Declared
  <2>3. Targets[i.named[n]] # NoColumn
    BY <2>1
  <2>4. i.named[m] \in Entries(t) /\ i.named[m] \in Version /\ t.name[i.named[m]] = m
    BY <1>1, <2>2, <2>3
  <2>5. t.on[i.named[n]] = m
    BY <2>1, <2>2, <2>4
  <2> QED BY <2>2, <2>5 DEF IsOn
<1> HIDE DEF d
<1>5. ASSUME NEW n \in Name
      PROVE  /\ i.named[n] \in Columns(t) /\ i.named[n] # NoColumn <=> HasRow(i, n)
             /\ \A k : i.named[n] \in made(k) /\ i.named[n] # NoColumn <=> HasKind(i, n, k)
  BY <1>1 DEF Columns, HasRow, HasKind
<1>6. Columns(t) \subseteq Entries(t) /\ \A k : made(k) \subseteq Entries(t)
  BY DEF Columns
<1> HIDE DEF made
<1>7. ASSUME NEW n \in Name
      PROVE  /\ d.rows[n] = IF HasRow(i, n) THEN i.named[n] ELSE NoColumn
             /\ d.defined[n] = IF HasRow(i, n) THEN i.defined[i.named[n]] ELSE 0
  <2>1. /\ HasRow(i, n) => d.rows[n] = from[i.named[n]] /\ d.defined[n] = t.defined[i.named[n]]
        /\ ~HasRow(i, n) => d.rows[n] = NoColumn /\ d.defined[n] = 0
    BY <1>2, <1>3, <1>5, <1>6
  <2>2. HasRow(i, n) => from[i.named[n]] = i.named[n]
                        /\ t.defined[i.named[n]] = i.defined[i.named[n]]
    BY <1>5, <1>6 DEF IsMeant
  <2> QED BY <2>1, <2>2
<1>8. ASSUME NEW n \in Name
      PROVE  /\ IF HasKind(i, n, "index") THEN IsOn(i, n, d.index[n]) ELSE d.index[n] = NoName
             /\ IF HasKind(i, n, "constraint")
                THEN IsOn(i, n, d.constraint[n]) ELSE d.constraint[n] = NoName
  <2>1. /\ HasKind(i, n, "index") => d.index[n] = t.on[i.named[n]]
        /\ ~HasKind(i, n, "index") => d.index[n] = NoName
    BY <1>2, <1>3, <1>5, <1>6
  <2>2. /\ HasKind(i, n, "constraint") => d.constraint[n] = t.on[i.named[n]]
        /\ ~HasKind(i, n, "constraint") => d.constraint[n] = NoName
    BY <1>2, <1>3, <1>5, <1>6
  <2> QED BY <2>1, <2>2, <1>4
<1> QED BY <1>7, <1>8 DEF Mirrors, d

-----------------------------------------------------------------------------
(* The records, read backwards, are the migrations in their order, each    *)
(* column with the last that is about it.                                  *)
LEMMA Walk ==
    ASSUME NEW P \in SUBSET Nat, NEW q \in Seq(Version), Listed(P, q),
           NEW os, os = Reverse(q)
    PROVE  /\ Len(os) \in Nat /\ os \in Seq(Version)
           /\ \E last \in [1 .. Len(os) -> P] :
                /\ \A m \in 1 .. Len(os) : IsLast(P, last[m], os[m])
                /\ \A m, n \in 1 .. Len(os) : m < n => last[m] < last[n]
                /\ \A x \in P : IsLast(P, x, Concerns(x)) => \E m \in 1 .. Len(os) : last[m] = x
<1>1. /\ Len(os) = Len(q) /\ os \in Seq(Version) /\ Len(q) \in Nat
      /\ DOMAIN q = 1 .. Len(q)
      /\ \A m \in 1 .. Len(q) : os[m] = q[(Len(q) - m) + 1]
  BY DEF Reverse
<1> DEFINE last == [m \in 1 .. Len(os) |-> CHOOSE x \in P : IsLast(P, x, os[m])]
<1>2. ASSUME NEW m \in 1 .. Len(os) PROVE last[m] \in P /\ IsLast(P, last[m], os[m])
  <2>1. (Len(q) - m) + 1 \in DOMAIN q
    BY <1>1
  <2>2. os[m] \in Range(q)
    BY <1>1, <2>1 DEF Range
  <2>3. \E x \in P : IsLast(P, x, os[m])
    BY <2>2 DEF Listed
  <2>4. last[m] = CHOOSE x \in P : IsLast(P, x, os[m])
    OBVIOUS
  <2> HIDE DEF last
  <2> QED BY <2>3, <2>4
<1>3. last \in [1 .. Len(os) -> P]
  BY <1>2
<1> HIDE DEF last
<1>4. ASSUME NEW m \in 1 .. Len(os), NEW n \in 1 .. Len(os), m < n
      PROVE  last[m] < last[n]
  <2> DEFINE a == (Len(q) - n) + 1
             b == (Len(q) - m) + 1
  <2>1. a \in DOMAIN q /\ b \in DOMAIN q /\ a < b
    BY <1>1, <1>4
  <2>2. q[a] = os[n] /\ q[b] = os[m]
    BY <1>1
  <2> HIDE DEF a, b
  <2>3. IsLast(P, last[n], q[a]) /\ IsLast(P, last[m], q[b]) /\ last[m] \in P /\ last[n] \in P
    BY <1>2, <2>2
  <2> QED BY <2>1, <2>3 DEF Listed
<1>5. ASSUME NEW x \in P, IsLast(P, x, Concerns(x))
      PROVE  \E m \in 1 .. Len(os) : last[m] = x
  <2>1. PICK a \in 1 .. Len(q) : q[a] = Concerns(x)
    BY <1>1 DEF Listed, Range
  <2> DEFINE m == (Len(q) - a) + 1
  <2>2. m \in 1 .. Len(os) /\ os[m] = Concerns(x)
    <3>1. m \in 1 .. Len(q) /\ (Len(q) - m) + 1 = a
      BY <1>1, <2>1
    <3> HIDE DEF m
    <3> QED BY <1>1, <2>1, <3>1
  <2> HIDE DEF m
  <2>3. IsLast(P, last[m], Concerns(x)) /\ last[m] \in P
    BY <1>2, <2>2
  <2>4. last[m] <= x /\ x <= last[m] /\ last[m] \in Nat /\ x \in Nat
    BY <1>5, <2>3 DEF IsLast
  <2>5. last[m] = x
    BY <2>4
  <2> QED BY <2>2, <2>5
<1> QED BY <1>1, <1>2, <1>3, <1>4, <1>5

(* What has a name keeps one until a migration is about it, and what has   *)
(* none will not have one again.                                           *)
NamedAt(o, v) == \E n \in Name : ideal[v].named[n] = o

LEMMA NamedNext ==
    ASSUME IInv, RowsInv, NEW v \in 1 .. latest, NEW o \in Version
    PROVE  /\ NamedAt(o, v - 1) /\ Concerns(v) # o => NamedAt(o, v)
           /\ NamedAt(o, v) /\ o # v => NamedAt(o, v - 1)
           /\ Does(v, "drop") => ~NamedAt(Concerns(v), v)
           /\ Does(v, "add") => NamedAt(v, v)
<1> DEFINE i == ideal[v - 1]
           j == ideal[v]
           c == history[v]
<1>1. /\ v \in Version /\ c \in Change /\ Legal(i, c, Targets) /\ i \in Ideals
      /\ j = Meant(i, v, c) /\ \A n \in Name : i.named[n] <= v - 1
      /\ c.do \in {"add", "alter", "drop", "rename"}
      /\ c.do = "drop" => Concerns(v) = i.named[c.old]
      /\ c.do = "rename" => Concerns(v) = i.named[c.old]
  BY Migrations DEF Does
<1>2. NamedOnce(i) /\ o # NoColumn
  <2>1. v - 1 \in 0 .. latest
    BY <1>1, VersionAssumption DEF IInv, TypeInv, Version
  <2> QED BY <2>1 DEF RowsInv, Version, NoColumn
<1>3. Does(v, "add") <=> c.do = "add"
  BY DEF Does
<1>4. Does(v, "drop") <=> c.do = "drop"
  BY DEF Does
<1>5. (NamedAt(o, v) <=> \E n \in Name : j.named[n] = o)
      /\ (NamedAt(o, v - 1) <=> \E n \in Name : i.named[n] = o)
      /\ (NamedAt(v, v) <=> \E n \in Name : j.named[n] = v)
      /\ (NamedAt(Concerns(v), v) <=> \E n \in Name : j.named[n] = Concerns(v))
  BY DEF NamedAt
<1> HIDE DEF i, j, c
<1>6. CASE c.do = "add"
  <2>1. c.name \in Name /\ i.named[c.name] = NoColumn
    BY <1>1, <1>6 DEF Legal
  <2>2. \A n \in Name : j.named[n] = IF n = c.name THEN v ELSE i.named[n]
    BY <1>1, <1>6, MeantNames
  <2> QED BY <1>2, <1>3, <1>4, <1>5, <1>6, <2>1, <2>2
<1>7. CASE c.do = "alter"
  <2>1. j.named = i.named
    BY <1>1, <1>7, MeantNames
  <2> QED BY <1>3, <1>4, <1>5, <1>7, <2>1
<1>8. CASE c.do = "drop"
  <2>1. c.old \in Name /\ i.named[c.old] # NoColumn
    BY <1>1, <1>8 DEF Legal
  <2>2. \A n \in Name : j.named[n] = IF n = c.old THEN NoColumn ELSE i.named[n]
    BY <1>1, <1>8, MeantNames
  <2>3. \A n \in Name : n # c.old => i.named[n] # i.named[c.old]
    BY <1>2, <2>1 DEF NamedOnce
  <2> QED BY <1>1, <1>2, <1>3, <1>4, <1>5, <1>8, <2>1, <2>2, <2>3
<1>9. CASE c.do = "rename"
  <2>1. c.old \in Name /\ c.name \in Name /\ c.old # c.name /\ i.named[c.name] = NoColumn
    BY <1>1, <1>9 DEF Legal
  <2>2. \A n \in Name : j.named[n] = IF n = c.old THEN NoColumn
                                     ELSE IF n = c.name THEN i.named[c.old] ELSE i.named[n]
    BY <1>1, <1>9, MeantNames
  <2> QED BY <1>1, <1>2, <1>3, <1>4, <1>5, <1>9, <2>1, <2>2
<1> QED BY <1>1, <1>6, <1>7, <1>8, <1>9

LEMMA NamedUntil ==
    ASSUME IInv, RowsInv, NEW o \in Version, NEW v \in 0 .. latest, NEW u \in v .. latest,
           NamedAt(o, v), \A x \in v + 1 .. u : Concerns(x) # o
    PROVE  NamedAt(o, u)
<1> DEFINE T == {m \in Nat : v + m <= u => NamedAt(o, v + m)}
<1>1. latest \in Nat /\ v \in Nat /\ u \in Nat /\ v <= u /\ u <= latest
  BY VersionAssumption DEF IInv, TypeInv, Version
<1>2. 0 \in T
  BY <1>1
<1>3. ASSUME NEW m \in T, m \in Nat PROVE m + 1 \in T
  <2>1. SUFFICES ASSUME v + (m + 1) <= u PROVE NamedAt(o, v + (m + 1))
    BY <1>3
  <2> DEFINE w == v + (m + 1)
  <2>2. w \in 1 .. latest /\ w - 1 = v + m /\ v + m <= u /\ w \in v + 1 .. u
    BY <1>1, <1>3, <2>1
  <2>3. NamedAt(o, v + m)
    BY <1>3, <2>2
  <2> HIDE DEF w
  <2>4. NamedAt(o, w - 1) /\ Concerns(w) # o
    BY <2>2, <2>3
  <2>5. NamedAt(o, w)
    BY <2>2, <2>4, NamedNext
  <2> QED BY <2>5 DEF w
<1> HIDE DEF T
<1>4. u - v \in T
  BY <1>1, <1>2, <1>3, Induct
<1>5. v + (u - v) = u
  BY <1>1
<1> QED BY <1>1, <1>4, <1>5 DEF T

LEMMA NamedBefore ==
    ASSUME IInv, RowsInv, NEW o \in Version, NEW v \in 0 .. latest, NEW u \in v .. latest,
           o <= v, NamedAt(o, u)
    PROVE  NamedAt(o, v)
<1> DEFINE T == {m \in Nat : v + m <= u => (NamedAt(o, v + m) => NamedAt(o, v))}
<1>1. latest \in Nat /\ v \in Nat /\ u \in Nat /\ v <= u /\ u <= latest /\ o \in Nat
  BY VersionAssumption DEF IInv, TypeInv, Version
<1>2. 0 \in T
  BY <1>1
<1>3. ASSUME NEW m \in T, m \in Nat PROVE m + 1 \in T
  <2>1. SUFFICES ASSUME v + (m + 1) <= u, NamedAt(o, v + (m + 1)) PROVE NamedAt(o, v)
    BY <1>3
  <2> DEFINE w == v + (m + 1)
  <2>2. w \in 1 .. latest /\ w - 1 = v + m /\ v + m <= u /\ o # w
    BY <1>1, <1>3, <2>1
  <2>3. NamedAt(o, v + m) => NamedAt(o, v)
    BY <1>3, <2>2
  <2>4. NamedAt(o, w)
    BY <2>1
  <2> HIDE DEF w
  <2>5. NamedAt(o, w - 1)
    BY <2>2, <2>4, NamedNext
  <2> QED BY <2>2, <2>3, <2>5
<1> HIDE DEF T
<1>4. u - v \in T
  BY <1>1, <1>2, <1>3, Induct
<1>5. v + (u - v) = u
  BY <1>1
<1> QED BY <1>1, <1>4, <1>5 DEF T

(* What is pending and is not in the table is gone again.                  *)
Lost == Pending \ Entries(table)

LEMMA PendingFacts ==
    ASSUME IInv, SyncInv, table.created, Altering(Pending), NEW w \in Pending
    PROVE  /\ w \in 1 .. latest /\ w \in Version /\ w \in Nat /\ dbversion < w
           /\ w <= table.version /\ w - 1 \in 0 .. latest /\ w \in 0 .. latest
           /\ table.version \in w .. latest
           /\ Concerns(w) \in 1 .. w /\ Concerns(w) \in Version
           /\ IsApart(w) /\ SaysWhat(table, w)
           /\ ColumnsInv
<1>1. /\ w \in 1 .. latest /\ dbversion \in Nat /\ dbversion < w
      /\ w <= table.version /\ table.version \in Nat
  BY PendingReleased
<1>2. /\ w \in Version /\ w \in Nat /\ Concerns(w) \in 1 .. w
  BY <1>1, Migrations
<1>3. latest \in Nat /\ latest <= MaxVersion /\ table.version <= latest
  BY VersionAssumption DEF IInv, TypeInv, Version
<1>4. /\ w - 1 \in 0 .. latest /\ w \in 0 .. latest
      /\ table.version \in w .. latest /\ Concerns(w) \in Version
  BY <1>1, <1>2, <1>3, VersionAssumption DEF Version
<1>5. IsApart(w)
  BY DEF Altering
<1>6. SaysWhat(table, w) /\ ColumnsInv
  BY DEF SyncInv, OrderInv
<1> QED BY <1>1, <1>2, <1>4, <1>5, <1>6

LEMMA NamedIs ==
    ASSUME IInv, NEW o \in Version
    PROVE  o \in Entries(table) <=> NamedAt(o, table.version)
<1>1. /\ table.name \in [Version -> Name \cup {NoName}]
      /\ \A n \in Name : table.name[o] = n <=> ideal[table.version].named[n] = o
  <2>1. table \in Tables
    BY DEF IInv, TypeInv
  <2> QED BY <2>1, Fields DEF IInv, TableInv, IsMeant
<1> QED BY <1>1, NameAssumption DEF NamedAt, Entries

(* An index that has come and gone since is the only thing that more than  *)
(* one pending migration is about, and what was added and not dropped is   *)
(* in the table.                                                           *)
LEMMA LastIs ==
    ASSUME IInv, RowsInv, SyncInv, table.created, Altering(Pending), NEW w \in Pending
    PROVE  /\ ~IsLast(Pending, w, Concerns(w)) =>
                 Does(w, "add") /\ Kind(w) = "index" /\ w \in Lost
           /\ IsLast(Pending, w, Concerns(w)) /\ Does(w, "add") => w \in Entries(table)
<1>1. ASSUME ~IsLast(Pending, w, Concerns(w))
      PROVE  Does(w, "add") /\ Kind(w) = "index" /\ w \in Lost
  <2>1. PICK x \in Pending : Concerns(x) = Concerns(w) /\ ~(x <= w)
    BY <1>1 DEF IsLast
  <2>2. /\ w \in 1 .. latest /\ w \in Version /\ w \in Nat
        /\ w \in 0 .. latest /\ Concerns(w) \in 1 .. w /\ Concerns(w) \in Version
        /\ IsApart(w) /\ ColumnsInv
    BY PendingFacts
  <2>3. /\ x \in 1 .. latest /\ x \in Version /\ x \in Nat
        /\ x - 1 \in 0 .. latest /\ IsApart(x) /\ SaysWhat(table, x)
    BY PendingFacts
  <2>4. w < x /\ x - 1 \in w .. latest /\ Concerns(w) < x
    BY <2>1, <2>2, <2>3
  <2>5. /\ Does(w, "add") => Concerns(w) = w /\ Kind(w) \in {"plain", "index"}
        /\ Does(w, "rename") => ~IsFake(Concerns(w))
        /\ DropsIndex(w) => Does(w, "drop") /\ Kind(Concerns(w)) = "index"
        /\ Does(w, "add") \/ Does(w, "rename") \/ DropsIndex(w)
    BY <2>2, ConcernsAre
  <2>6. /\ Does(x, "add") => Concerns(x) = x
        /\ Does(x, "rename") => ~IsFake(Concerns(x))
        /\ DropsIndex(x) => Does(x, "drop") /\ Kind(Concerns(x)) = "index" /\ IsFake(Concerns(x))
        /\ Does(x, "add") \/ Does(x, "rename") \/ DropsIndex(x)
    BY <2>2, <2>3, ConcernsAre
  <2>7. ~Does(x, "add")
    BY <2>1, <2>2, <2>3, <2>4, <2>6
  <2>8. ~Does(w, "rename")
    <3>1. SUFFICES ASSUME Does(w, "rename") PROVE FALSE
      OBVIOUS
    <3>2. Does(x, "rename")
      BY <2>1, <2>5, <2>6, <2>7, <3>1
    <3>3. w = x
      BY <2>1, <3>1, <3>2 DEF Altering
    <3> QED BY <2>4, <2>2, <3>3
  <2>9. ~DropsIndex(w)
    <3>1. SUFFICES ASSUME DropsIndex(w) PROVE FALSE
      OBVIOUS
    <3>2. ~NamedAt(Concerns(w), w)
      BY <2>2, <2>5, <3>1, NamedNext
    <3>3. ~NamedAt(Concerns(x), x - 1)
      BY <2>1, <2>2, <2>4, <3>2, NamedBefore
    <3>4. Does(x, "drop") \/ Does(x, "rename")
      BY <2>6, <2>7
    <3>5. Concerns(x) = ideal[x - 1].named[history[x].old] /\ history[x].old \in Name
      <4>1. /\ Concerns(x) = ideal[x - 1].named[history[x].old]
            /\ Legal(ideal[x - 1], history[x], Targets)
        BY <2>3, <3>4, Migrations
      <4> QED BY <3>4, <4>1 DEF Legal, Does
    <3> QED BY <3>3, <3>5 DEF NamedAt
  <2>10. Does(w, "add") /\ Concerns(w) = w
    BY <2>5, <2>8, <2>9
  <2>11. ~Does(x, "rename")
    BY <2>1, <2>10 DEF Altering
  <2>12. DropsIndex(x)
    BY <2>6, <2>7, <2>11
  <2>13. Kind(w) = "index" /\ table.name[w] = NoName
    BY <2>1, <2>3, <2>6, <2>10, <2>12 DEF SaysWhat
  <2> QED BY <2>10, <2>13 DEF Lost, Entries
<1>2. ASSUME IsLast(Pending, w, Concerns(w)), Does(w, "add") PROVE w \in Entries(table)
  <2>1. /\ w \in 1 .. latest /\ w \in Version /\ w \in Nat /\ dbversion < w
        /\ w \in 0 .. latest /\ table.version \in w .. latest
    BY PendingFacts
  <2>2. Concerns(w) = w /\ NamedAt(w, w)
    BY <1>2, <2>1, Migrations, NamedNext
  <2>3. ASSUME NEW x \in w + 1 .. table.version PROVE Concerns(x) # w
    <3>1. table.version \in Nat /\ dbversion \in Nat
      BY PendingReleased
    <3>2. x \in Pending /\ ~(x <= w)
      BY <2>1, <3>1 DEF Pending
    <3> QED BY <1>2, <2>2, <3>2 DEF IsLast
  <2>4. NamedAt(w, table.version)
    BY <2>1, <2>2, <2>3, NamedUntil
  <2> QED BY <2>1, <2>4, NamedIs
<1> QED BY <1>1, <1>2

(* The statement for a migration does to the database what it means.       *)
LEMMA StatementMirrors ==
    ASSUME IInv, RowsInv, SyncInv, table.created, Altering(Pending), NEW w \in Pending,
           NEW t, t = TraceName(table),
           NEW d \in Databases, Mirrors(d, ideal[w - 1], Lost)
    PROVE  /\ IsLast(Pending, w, Concerns(w)) => Makes(Statement(t, d, Concerns(w)), ideal[w], Lost)
           /\ ~IsLast(Pending, w, Concerns(w)) => Mirrors(d, ideal[w], Lost)
<1> DEFINE o == Concerns(w)
<1> SUFFICES ASSUME NEW i, i = ideal[w - 1], NEW j, j = ideal[w], NEW c, c = history[w]
             PROVE  /\ IsLast(Pending, w, o) => Makes(Statement(t, d, o), j, Lost)
                    /\ ~IsLast(Pending, w, o) => Mirrors(d, j, Lost)
  OBVIOUS
<1>1. /\ w \in 1 .. latest /\ w \in Version /\ w \in Nat /\ dbversion < w
      /\ o \in 1 .. w /\ o \in Version
      /\ IsApart(w) /\ SaysWhat(table, w) /\ ColumnsInv
  BY PendingFacts
<1>2. /\ c \in Change /\ Legal(i, c, Targets) /\ i \in Ideals /\ j = Meant(i, w, c)
      /\ \A n \in Name : i.named[n] <= w - 1
      /\ Does(w, "add") => o = w
      /\ Does(w, "drop") => o = i.named[c.old]
      /\ Does(w, "rename") => o = i.named[c.old]
  BY <1>1, Migrations
<1>3. /\ Does(w, "add") => Kind(w) \in {"plain", "index"}
      /\ Does(w, "rename") => ~IsFake(o)
      /\ DropsIndex(w) => Does(w, "drop") /\ Kind(o) = "index" /\ IsFake(o)
      /\ Does(w, "add") \/ Does(w, "rename") \/ DropsIndex(w)
  BY <1>1, ConcernsAre
<1>4. \A x : Does(w, x) <=> c.do = x
  BY DEF Does
<1>5. Finds(d, i, Lost, w)
  BY <1>1, <1>2 DEF Finds, IInv, ReleasesInv
<1>6. /\ t.name = table.name /\ t.old = table.old /\ t.defined = table.defined
      /\ \A p, q \in Version :
            p \in Entries(table) /\ q \in Entries(table) /\ Targets[p] = q => t.on[p] = table.name[q]
      /\ table \in Tables
  <2>1. table \in Tables /\ Unambiguous(table) /\ Follow(table, Targets)
    BY DEF IInv, TypeInv, TableInv
  <2> QED BY <2>1, TraceNameKeeps DEF SameColumns
<1>7. /\ ~IsLast(Pending, w, o) => Does(w, "add") /\ Kind(w) = "index" /\ w \in Lost
      /\ IsLast(Pending, w, o) /\ Does(w, "add") => w \in Entries(table)
  BY LastIs
<1>8. CASE Does(w, "add") /\ Kind(w) = "plain"
  <2>1. IsLast(Pending, w, o) /\ w \in Entries(table) /\ o = w
    BY <1>2, <1>7, <1>8
  <2>2. table.name[w] = c.name /\ table.defined[w] = w
    BY <1>1, <1>8, <2>1 DEF SaysWhat
  <2>3. ~IsFake(w)
    BY <1>8 DEF IsFake
  <2>4. table.old[w] = NoName
    <3>1. SUFFICES ASSUME table.old[w] # NoName PROVE FALSE
      OBVIOUS
    <3>2. ideal[dbversion].named[table.old[w]] = w /\ table.old[w] \in Name
      BY <1>1, <1>6, <2>1, <2>3, <3>1, Fields DEF IInv, DatabaseInv, Told
    <3>3. dbversion \in 0 .. MaxVersion
      BY VersionAssumption DEF IInv, TypeInv, Version
    <3>4. ideal[dbversion].named[table.old[w]] <= dbversion
      BY <3>2, <3>3 DEF IInv, ReleasesInv
    <3> QED BY <1>1, <3>2, <3>3, <3>4
  <2>5. Kind(w) # "index"
    BY <1>8
  <2>6. Statement(t, d, w) = ExecAddColumn(d, w, c.name, w)
    <3>1. Statement(t, d, w) = ExecAddColumn(d, w, t.name[w], t.defined[w])
      BY <1>6, <2>4, <2>5, Zenon DEF Statement
    <3> QED BY <1>6, <2>2, <3>1
  <2>7. c.name \in Name /\ i.named[c.name] = NoColumn
    BY <1>2, <1>4, <1>8 DEF Legal
  <2>8. (\A m \in Name : j.named[m] = IF m = c.name THEN w ELSE i.named[m])
        /\ j.defined[w] = w /\ \A p \in Version : p # w => j.defined[p] = i.defined[p]
    <3>1. c.do = "add"
      BY <1>4, <1>8
    <3>2. \A m \in Name : j.named[m] = IF m = c.name THEN w ELSE i.named[m]
      BY <1>1, <1>2, <3>1, MeantNames
    <3>3. /\ Meant(i, w, c).defined[w] = w
          /\ \A p \in Version : p # w => Meant(i, w, c).defined[p] = i.defined[p]
      <4>1. w \in Version /\ c \in Change /\ i \in Ideals
        BY <1>1, <1>2
      <4> QED BY <3>1, <4>1, MeantDefines
    <3> QED BY <1>2, <3>2, <3>3
  <2>9. Makes(ExecAddColumn(d, w, c.name, w), j, Lost)
    BY <1>5, <2>3, <2>7, <2>8, AddMirrors
  <2> QED BY <2>1, <2>6, <2>9
<1>9. CASE Does(w, "add") /\ Kind(w) = "index"
  <2>1. IsFake(w) /\ o = w
    BY <1>2, <1>9 DEF IsFake
  <2>2. /\ c.on \in Name /\ Target(w) = i.named[c.on]
        /\ Target(w) \in 1 .. w - 1 /\ ~IsFake(Target(w))
    BY <1>1, <2>1, TargetsAre
  <2>3. Targets[w] = i.named[c.on] /\ HasRow(i, c.on) /\ Target(w) \in Version
    BY <1>1, <2>1, <2>2, VersionAssumption DEF Targets, HasRow, NoColumn, Version
  <2>4. c.name \in Name /\ i.named[c.name] = NoColumn
    BY <1>2, <1>4, <1>9 DEF Legal
  <2>5. (\A m \in Name : j.named[m] = IF m = c.name THEN w ELSE i.named[m])
        /\ j.defined[w] = w /\ \A p \in Version : p # w => j.defined[p] = i.defined[p]
    <3>1. c.do = "add"
      BY <1>4, <1>9
    <3>2. \A m \in Name : j.named[m] = IF m = c.name THEN w ELSE i.named[m]
      BY <1>1, <1>2, <3>1, MeantNames
    <3>3. /\ Meant(i, w, c).defined[w] = w
          /\ \A p \in Version : p # w => Meant(i, w, c).defined[p] = i.defined[p]
      <4>1. w \in Version /\ c \in Change /\ i \in Ideals
        BY <1>1, <1>2
      <4> QED BY <3>1, <4>1, MeantDefines
    <3> QED BY <1>2, <3>2, <3>3
  <2>6. /\ w \notin Lost => Makes(ExecCreateIndex(d, c.name, c.on), j, Lost)
        /\ w \in Lost => Mirrors(d, j, Lost)
    BY <1>5, <1>9, <2>2, <2>3, <2>4, <2>5, IndexMirrors
  <2>7. ASSUME IsLast(Pending, w, o)
        PROVE  w \notin Lost /\ Statement(t, d, w) = ExecCreateIndex(d, c.name, c.on)
    <3>1. w \in Entries(table) /\ w \notin Lost
      BY <1>7, <1>9, <2>7 DEF Lost
    <3>2. table.name[w] = c.name /\ table.name[Target(w)] = c.on
      BY <1>1, <1>9, <3>1 DEF SaysWhat
    <3>3. Target(w) \in Entries(table)
      BY <2>2, <2>3, <3>2, NameAssumption DEF Entries
    <3>4. t.on[w] = c.on
      BY <1>1, <1>6, <2>2, <2>3, <3>1, <3>2, <3>3
    <3>5. t.name[w] = c.name /\ t.name[w] # NoName
      BY <1>6, <3>1, <3>2 DEF Entries
    <3>6. Statement(t, d, w) = ExecCreateIndex(d, t.name[w], t.on[w])
      BY <1>9, <2>1, <3>5, Zenon DEF Statement
    <3> QED BY <3>1, <3>4, <3>5, <3>6
  <2> QED BY <1>7, <2>1, <2>6, <2>7
<1>10. CASE Does(w, "rename")
  <2>1. IsLast(Pending, w, o)
    BY <1>4, <1>7, <1>10
  <2>2. table.old[o] = c.old /\ table.name[o] = c.name
    BY <1>1, <1>10 DEF SaysWhat
  <2>3. /\ c.old \in Name /\ c.name \in Name /\ i.named[c.old] # NoColumn
        /\ i.named[c.name] = NoColumn
    BY <1>2, <1>4, <1>10 DEF Legal
  <2>4. ~IsFake(o) /\ Kind(o) # "index" /\ o = i.named[c.old] /\ HasRow(i, c.old)
    BY <1>2, <1>3, <1>10, <2>3 DEF IsFake, HasRow
  <2>5. Statement(t, d, o) = ExecRenameColumn(d, c.old, c.name)
    <3>1. t.old[o] = c.old /\ t.name[o] = c.name /\ t.old[o] # NoName
      BY <1>6, <2>2, <2>3, NameAssumption
    <3>2. Statement(t, d, o) = ExecRenameColumn(d, t.old[o], t.name[o])
      BY <2>4, <3>1, Zenon DEF Statement
    <3> QED BY <3>1, <3>2
  <2>6. \A k \in Name : j.named[k] = IF k = c.old THEN NoColumn
                                     ELSE IF k = c.name THEN i.named[c.old] ELSE i.named[k]
    BY <1>1, <1>2, <1>4, <1>10, MeantNames
  <2>7. j.defined = i.defined
    <3>1. c.do \in {"drop", "rename"}
      BY <1>4, <1>10
    <3>2. w \in Version /\ c \in Change /\ i \in Ideals /\ Legal(i, c, Targets)
      BY <1>1, <1>2
    <3>3. Meant(i, w, c).defined = i.defined
      BY <3>1, <3>2, MeantKeeps
    <3> QED BY <1>2, <3>3
  <2>8. Makes(ExecRenameColumn(d, c.old, c.name), j, Lost)
    BY <1>5, <2>3, <2>4, <2>6, <2>7, RenameMirrors
  <2> QED BY <2>1, <2>5, <2>8
<1>11. CASE DropsIndex(w)
  <2>0. Does(w, "drop") /\ Kind(o) = "index" /\ IsFake(o)
    BY <1>3, <1>11
  <2>1. IsLast(Pending, w, o)
    BY <1>4, <1>7, <2>0
  <2>2. table.old[o] = c.old /\ table.name[o] = NoName
    BY <1>1, <1>11 DEF SaysWhat
  <2>3. /\ c.old \in Name /\ i.named[c.old] # NoColumn /\ o = i.named[c.old]
        /\ \A m \in Name : i.named[m] # NoColumn => Targets[i.named[m]] # i.named[c.old]
    BY <1>2, <1>4, <2>0 DEF Legal
  <2>4. HasKind(i, c.old, "index")
    BY <2>0, <2>3 DEF HasKind
  <2>5. Statement(t, d, o) = ExecDropIndex(d, c.old)
    <3>1. t.old[o] = c.old /\ t.name[o] = NoName
      BY <1>6, <2>2
    <3>2. Statement(t, d, o) = ExecDropIndex(d, t.old[o])
      BY <2>0, <3>1, Zenon DEF Statement
    <3> QED BY <3>1, <3>2
  <2>6. \A k \in Name : j.named[k] = IF k = c.old THEN NoColumn ELSE i.named[k]
    BY <1>1, <1>2, <1>4, <2>0, MeantNames
  <2>7. j.defined = i.defined
    <3>1. c.do \in {"drop", "rename"}
      BY <1>4, <2>0
    <3>2. w \in Version /\ c \in Change /\ i \in Ideals /\ Legal(i, c, Targets)
      BY <1>1, <1>2
    <3>3. Meant(i, w, c).defined = i.defined
      BY <3>1, <3>2, MeantKeeps
    <3> QED BY <1>2, <3>3
  <2>8. Makes(ExecDropIndex(d, c.old), j, Lost)
    BY <1>5, <2>3, <2>4, <2>6, <2>7, DropMirrors
  <2> QED BY <2>1, <2>5, <2>8
<1> QED BY <1>3, <1>8, <1>9, <1>10, <1>11

(* The statements run one after the other.                                 *)
LEMMA RunIs ==
    ASSUME NEW t, NEW d, NEW os \in Seq(Version)
    PROVE  \E run : /\ run[0] = Done(d)
                    /\ \A m \in 0 .. Len(os) - 1 :
                          run[m + 1] = IF run[m].ok THEN Statement(t, run[m].db, os[m + 1])
                                       ELSE run[m]
                    /\ Executed(t, d, os) = run[Len(os)]
<1> DEFINE n == Len(os)
           run == CHOOSE r : Run(t, d, os, n, r)
<1>1. n \in Nat
  OBVIOUS
<1>2. Run(t, d, os, n, run)
  BY <1>1, RunExists
<1>3. Executed(t, d, os) = run[n]
  BY DEF Executed, Run
<1> HIDE DEF run
<1>4. \A i \in 0 .. n :
        run[i] = IF i = 0 THEN Done(d)
                 ELSE IF run[i - 1].ok THEN Statement(t, run[i - 1].db, os[i])
                 ELSE run[i - 1]
  BY <1>2 DEF Run
<1>5. run[0] = Done(d)
  BY <1>1, <1>4
<1>6. ASSUME NEW m \in 0 .. n - 1
      PROVE  run[m + 1] = IF run[m].ok THEN Statement(t, run[m].db, os[m + 1]) ELSE run[m]
  <2>1. m + 1 \in 0 .. n /\ m + 1 # 0 /\ (m + 1) - 1 = m
    BY <1>1
  <2> HIDE DEF n
  <2> QED BY <2>1, <1>4
<1> QED BY <1>3, <1>5, <1>6

(* After as many of them as are about the migrations up to v, the database *)
(* has what v migrations mean.                                             *)
LEMMA AlterMirrors ==
    ASSUME IInv, RowsInv, SyncInv, table.created, Altering(Pending),
           dbversion < table.version, Mirrors(db, ideal[dbversion], Lost),
           NEW t, t = TraceName(table)
    PROVE  Mirrors(AlterTable(t, db).db, ideal[table.version], Lost)
<1> SUFFICES ASSUME NEW os, os = Reverse(t.unsynced)
             PROVE  Mirrors(Executed(t, db, os).db, ideal[table.version], Lost)
  BY DEF AlterTable
<1>1. /\ dbversion \in Nat /\ table.version \in Nat /\ Pending \in SUBSET Nat
      /\ \A v \in Pending : v > dbversion
      /\ db \in Databases /\ table \in Tables
      /\ Unambiguous(table) /\ Follow(table, Targets)
  BY PendingReleased DEF IInv, TypeInv, TableInv
<1>2. t \in Tables /\ t.unsynced = table.unsynced
  BY <1>1, TraceNameKeeps DEF SameColumns
<1>3. t.unsynced \in Seq(Version) /\ Listed(Pending, t.unsynced)
  BY <1>2, Fields DEF SyncInv, OrderInv
<1>4. PICK last \in [1 .. Len(os) -> Pending] :
        /\ \A m \in 1 .. Len(os) : IsLast(Pending, last[m], os[m])
        /\ \A m, n \in 1 .. Len(os) : m < n => last[m] < last[n]
        /\ \A x \in Pending :
              IsLast(Pending, x, Concerns(x)) => \E m \in 1 .. Len(os) : last[m] = x
  <2>1. PICK P, q : P = Pending /\ q = t.unsynced
    OBVIOUS
  <2>2. P \in SUBSET Nat /\ q \in Seq(Version) /\ Listed(P, q) /\ os = Reverse(q)
    BY <1>1, <1>3, <2>1
  <2>3. \E last \in [1 .. Len(os) -> P] :
           /\ \A m \in 1 .. Len(os) : IsLast(P, last[m], os[m])
           /\ \A m, n \in 1 .. Len(os) : m < n => last[m] < last[n]
           /\ \A x \in P : IsLast(P, x, Concerns(x)) => \E m \in 1 .. Len(os) : last[m] = x
    BY <2>2, Walk, Zenon
  <2> QED BY <2>1, <2>3
<1>5. Len(os) \in Nat /\ os \in Seq(Version)
  BY <1>1, <1>3, Walk
<1>6. PICK run : /\ run[0] = Done(db)
                 /\ \A m \in 0 .. Len(os) - 1 :
                       run[m + 1] = IF run[m].ok THEN Statement(t, run[m].db, os[m + 1])
                                    ELSE run[m]
                 /\ Executed(t, db, os) = run[Len(os)]
  BY <1>5, RunIs
<1>7. \A m \in 1 .. Len(os) : last[m] \in Pending /\ last[m] \in Nat
  BY <1>1, <1>4
<1> DEFINE Reached(v, k) ==
              /\ \A m \in 1 .. Len(os) : m <= k <=> last[m] <= v
              /\ run[k].ok /\ run[k].db \in Databases
              /\ Mirrors(run[k].db, ideal[v], Lost)
           T == {x \in Nat : dbversion + x <= table.version =>
                               \E k \in 0 .. Len(os) : Reached(dbversion + x, k)}
<1>8. 0 \in T
  <2>1. Done(db).ok /\ Done(db).db = db
    BY DEF Done
  <2>2. \A m \in 1 .. Len(os) : ~(last[m] <= dbversion) /\ ~(m <= 0)
    BY <1>1, <1>5, <1>7
  <2>3. Reached(dbversion, 0)
    BY <1>1, <1>6, <2>1, <2>2
  <2>4. dbversion + 0 = dbversion /\ 0 \in 0 .. Len(os)
    BY <1>1, <1>5
  <2> HIDE DEF Reached
  <2> QED BY <2>3, <2>4
<1>9. ASSUME NEW x \in T, x \in Nat PROVE x + 1 \in T
  <2>1. SUFFICES ASSUME dbversion + (x + 1) <= table.version
                 PROVE  \E k \in 0 .. Len(os) : Reached(dbversion + (x + 1), k)
    BY <1>9
  <2>2. PICK v, w : v = dbversion + x /\ w = dbversion + (x + 1)
    OBVIOUS
  <2>3. /\ v \in Nat /\ w = v + 1 /\ v = w - 1 /\ v <= table.version /\ w \in Pending
    BY <1>1, <1>9, <2>1, <2>2 DEF Pending
  <2>4. \E k \in 0 .. Len(os) : Reached(v, k)
    BY <1>9, <2>2, <2>3
  <2> HIDE DEF T
  <2>5. PICK k \in 0 .. Len(os) : Reached(v, k)
    BY <2>4
  <2> SUFFICES \E l \in 0 .. Len(os) : Reached(w, l)
    BY <2>2
  <2>6. PICK d : d = run[k].db
    OBVIOUS
  <2>7. d \in Databases /\ Mirrors(d, ideal[w - 1], Lost) /\ run[k].ok
        /\ \A m \in 1 .. Len(os) : m <= k <=> last[m] <= v
    BY <2>3, <2>5, <2>6
  <2>8. /\ IsLast(Pending, w, Concerns(w)) =>
              Makes(Statement(t, d, Concerns(w)), ideal[w], Lost)
        /\ ~IsLast(Pending, w, Concerns(w)) => Mirrors(d, ideal[w], Lost)
    BY <2>3, <2>7, StatementMirrors
  <2>9. CASE \E m \in 1 .. Len(os) : last[m] = w
    <3>1. PICK m \in 1 .. Len(os) : last[m] = w
      BY <2>9
    <3>2. IsLast(Pending, w, os[m]) /\ os[m] = Concerns(w) /\ os[m] \in Version
      BY <1>4, <1>5, <3>1 DEF IsLast
    <3>3. m = k + 1
      <4>1. ~(m <= k)
        BY <2>3, <2>7, <3>1
      <4>2. ASSUME k + 1 < m PROVE FALSE
        <5>1. k + 1 \in 1 .. Len(os)
          BY <1>5, <4>2
        <5>2. last[k + 1] < last[m] /\ last[k + 1] \in Nat
          BY <1>4, <1>7, <4>2, <5>1
        <5>3. k + 1 <= k
          BY <2>3, <2>7, <3>1, <5>1, <5>2
        <5> QED BY <1>5, <5>3
      <4> QED BY <1>5, <4>1, <4>2
    <3>4. run[k + 1] = Statement(t, d, Concerns(w))
      <4>1. k \in 0 .. Len(os) - 1
        BY <1>5, <3>3
      <4> QED BY <1>6, <2>6, <2>7, <3>2, <3>3, <4>1
    <3>5. run[k + 1].ok /\ Mirrors(run[k + 1].db, ideal[w], Lost)
      BY <2>8, <3>2, <3>4 DEF Makes
    <3>6. run[k + 1].db \in Databases
      <4>1. Statement(t, d, Concerns(w)) \in Results
        BY <1>2, <2>7, <3>2, StatementType
      <4> QED BY <3>4, <4>1 DEF Results
    <3>7. ASSUME NEW n \in 1 .. Len(os) PROVE n <= k + 1 <=> last[n] <= w
      <4>1. last[n] \in Nat /\ (n <= k <=> last[n] <= v)
        BY <1>7, <2>7
      <4>2. CASE n <= k + 1
        <5>1. n = m \/ n <= k
          BY <1>5, <3>3, <4>2
        <5> QED BY <2>3, <3>1, <4>1, <4>2, <5>1
      <4>3. CASE ~(n <= k + 1)
        <5>1. m < n
          BY <1>5, <3>3, <4>3
        <5>2. last[m] < last[n]
          BY <1>4, <5>1
        <5> QED BY <2>3, <3>1, <4>1, <4>3, <5>2
      <4> QED BY <4>2, <4>3
    <3>8. k + 1 \in 0 .. Len(os) /\ Reached(w, k + 1)
      BY <1>5, <3>3, <3>5, <3>6, <3>7
    <3> HIDE DEF Reached
    <3> QED BY <3>8
  <2>10. CASE \A m \in 1 .. Len(os) : last[m] # w
    <3>1. ~IsLast(Pending, w, Concerns(w))
      BY <1>4, <2>3, <2>10
    <3>2. Mirrors(run[k].db, ideal[w], Lost)
      BY <2>6, <2>8, <3>1
    <3>3. ASSUME NEW n \in 1 .. Len(os) PROVE n <= k <=> last[n] <= w
      <4>1. last[n] \in Nat /\ (n <= k <=> last[n] <= v) /\ last[n] # w
        BY <1>7, <2>7, <2>10
      <4>2. last[n] <= v <=> last[n] <= w
        BY <2>3, <4>1
      <4> QED BY <4>1, <4>2
    <3>4. Reached(w, k)
      BY <2>6, <2>7, <3>2, <3>3
    <3> HIDE DEF Reached
    <3> QED BY <3>4
  <2> QED BY <2>9, <2>10
<1> HIDE DEF T
<1>10. table.version - dbversion \in T
  BY <1>1, <1>8, <1>9, Induct
<1>11. PICK k \in 0 .. Len(os) : Reached(table.version, k)
  <2>1. dbversion + (table.version - dbversion) = table.version
    BY <1>1
  <2> HIDE DEF Reached
  <2> QED BY <1>1, <1>10, <2>1 DEF T
<1>12. k = Len(os)
  <2>1. SUFFICES ASSUME k # Len(os) PROVE FALSE
    OBVIOUS
  <2>2. k + 1 \in 1 .. Len(os) /\ ~(k + 1 <= k)
    BY <1>5, <2>1
  <2>3. last[k + 1] \in Pending
    BY <1>7, <2>2
  <2>4. last[k + 1] <= table.version
    BY <2>3, PendingReleased
  <2> QED BY <1>11, <2>2, <2>4
<1> QED BY <1>6, <1>11, <1>12

-----------------------------------------------------------------------------
(* What a synchronization reaches.                                         *)

(* A table that is recreated has the rows of every column, and no column   *)
(* is looked for that is not there.                                        *)
LEMMA RecreatedMirrors ==
    ASSUME IInv, RowsInv, RenamesAreApart, Mirrors(db, ideal[dbversion], {}),
           NEW t, t = TraceName(table), table.created, Recreates(t)
    PROVE  Mirrors(RecreateTable(t, db).db, ideal[table.version], {})
<1> SUFFICES ASSUME NEW i, i = ideal[table.version], NEW s, s = ideal[dbversion]
             PROVE  Mirrors(RecreateTable(t, db).db, i, {})
  OBVIOUS
<1> DEFINE from == [p \in Columns(t) |-> IF IsCopied(t, p) THEN db.rows[Source(t, p)]
                                         ELSE IF Holds(db, p) THEN Emptied ELSE p]
<1>1. /\ table \in Tables /\ db \in Databases
      /\ dbversion \in 0 .. latest /\ dbversion \in 0 .. MaxVersion
      /\ table.version \in 0 .. latest /\ table.version \in 0 .. MaxVersion
      /\ Unambiguous(table) /\ Follow(table, Targets)
      /\ i \in Ideals /\ s \in Ideals /\ IsMeant(table, i)
      /\ NamedOnce(i) /\ Declared(i, Targets)
      /\ \A o \in Version : IsFake(o) => Targets[o] # NoColumn
      /\ Told(table, s.named) /\ \A n \in Name : s.named[n] <= dbversion
  <2>1. table \in Tables /\ latest \in Version /\ table.version <= latest
        /\ dbversion \in 0 .. latest /\ db \in Databases
        /\ ideal \in [0 .. MaxVersion -> Ideals]
    BY DEF IInv, TypeInv
  <2>2. /\ dbversion \in 0 .. MaxVersion
        /\ table.version \in 0 .. latest /\ table.version \in 0 .. MaxVersion
    <3>1. table.version \in 0 .. MaxVersion
      BY <2>1, Fields
    <3> QED BY <2>1, <3>1, VersionAssumption DEF Version
  <2> QED BY <2>1, <2>2 DEF IInv, ReleasesInv, TableInv, DatabaseInv, RowsInv
<1>2. /\ t \in Tables /\ t.name = table.name /\ t.old = table.old
      /\ t.unsynced = table.unsynced /\ t.defined = table.defined /\ t.flags = table.flags
      /\ Entries(t) = Entries(table) /\ Columns(t) = Columns(table)
      /\ \A o, p \in Version :
            o \in Entries(t) /\ p \in Entries(t) /\ Targets[o] = p => t.on[o] = t.name[p]
  <2>1. /\ SameColumns(table, t)
        /\ \A o, p \in Version :
              o \in Entries(table) /\ p \in Entries(table) /\ Targets[o] = p =>
                 t.on[o] = table.name[p]
    BY <1>1, TraceNameKeeps
  <2> QED BY <2>1 DEF SameColumns, Entries, Columns
<1>3. \A o \in Columns(t) :
        /\ o \in Version /\ ~IsFake(o) /\ o \in Entries(t) /\ t.name[o] \in Name
        /\ o # NoColumn /\ o # Emptied
  <2>1. t.name \in [Version -> Name \cup {NoName}] /\ Entries(t) \subseteq Version
    BY <1>2, Fields
  <2>2. NoColumn \notin Version /\ Emptied \notin Version
    BY DEF NoColumn, Emptied, Version
  <2> QED BY <2>1, <2>2 DEF Columns, Entries
<1>4. \A n \in Name : db.rows[n] = IF HasRow(s, n) THEN s.named[n] ELSE NoColumn
  BY DEF Mirrors
<1>5. ASSUME NEW o \in Columns(t), o \notin Range(t.unsynced)
      PROVE  IsCopied(t, o) /\ HasColumn(db, Source(t, o)) /\ from[o] = o
  <2>1. s.named[t.name[o]] = o /\ t.old[o] = NoName
    BY <1>1, <1>2, <1>3, <1>5 DEF Told
  <2>2. IsCopied(t, o) /\ Source(t, o) = t.name[o]
    BY <1>2, <1>5, <2>1, PendingIs DEF IsCopied, Source
  <2>3. db.rows[t.name[o]] = o
    BY <1>3, <1>4, <2>1 DEF HasRow
  <2> QED BY <1>3, <2>2, <2>3 DEF HasColumn
<1>6. ASSUME NEW o \in Columns(t), o \in Range(t.unsynced)
      PROVE  ~IsCopied(t, o) /\ from[o] = o
  <2>1. ~IsCopied(t, o)
    BY <1>2, <1>6, PendingIs DEF IsCopied
  <2>2. \E v \in Pending : ~IsApart(v)
    BY <1>2 DEF RowsInv, Recreates
  <2>3. Renames = {}
    BY <2>2 DEF RenamesAreApart, IsApart
  <2>4. ~(o <= dbversion)
    BY <1>2, <1>3, <1>6, <2>3 DEF RowsInv
  <2>5. ~Holds(db, o)
    <3>1. SUFFICES ASSUME NEW n \in Name, db.rows[n] = o PROVE FALSE
      BY DEF Holds
    <3>2. s.named[n] = o
      BY <1>3, <1>4, <3>1
    <3> QED BY <1>1, <2>4, <3>2
  <2> QED BY <2>1, <2>5
<1>7. \A o \in Columns(t) : from[o] = o
  BY <1>5, <1>6
<1>8. \A o \in Columns(t) : IsCopied(t, o) => HasColumn(db, Source(t, o))
  BY <1>5, <1>6
<1>9. RecreateTable(t, db).db = TableWith(t, from)
  BY <1>8 DEF RecreateTable, Done
<1> HIDE DEF from
<1>10. IsMeant(t, i)
  BY <1>1, <1>2 DEF IsMeant
<1>11. Mirrors(TableWith(t, from), i, {})
  BY <1>1, <1>2, <1>7, <1>10, MadeMirrors
<1> QED BY <1>9, <1>11

LEMMA CreatedMirrors ==
    ASSUME IInv, RowsInv, NEW t, t = TraceName(table)
    PROVE  Mirrors(CreateTable(t).db, ideal[table.version], {})
<1> SUFFICES ASSUME NEW i, i = ideal[table.version]
             PROVE  Mirrors(CreateTable(t).db, i, {})
  OBVIOUS
<1> DEFINE from == [o \in Version |-> o]
<1>1. /\ table \in Tables /\ Unambiguous(table) /\ Follow(table, Targets)
      /\ i \in Ideals /\ IsMeant(table, i) /\ NamedOnce(i) /\ Declared(i, Targets)
      /\ \A o \in Version : IsFake(o) => Targets[o] # NoColumn
  <2>1. table \in Tables /\ latest \in Version /\ table.version <= latest
        /\ ideal \in [0 .. MaxVersion -> Ideals]
    BY DEF IInv, TypeInv
  <2>2. table.version \in 0 .. latest /\ table.version \in 0 .. MaxVersion
    <3>1. table.version \in 0 .. MaxVersion
      BY <2>1, Fields
    <3> QED BY <2>1, <3>1, VersionAssumption DEF Version
  <2> QED BY <2>1, <2>2 DEF IInv, ReleasesInv, TableInv, RowsInv
<1>2. /\ t \in Tables /\ IsMeant(t, i) /\ Columns(t) \subseteq Version
      /\ \A o, p \in Version :
            o \in Entries(t) /\ p \in Entries(t) /\ Targets[o] = p => t.on[o] = t.name[p]
  <2>1. /\ SameColumns(table, t)
        /\ \A o, p \in Version :
              o \in Entries(table) /\ p \in Entries(table) /\ Targets[o] = p =>
                 t.on[o] = table.name[p]
    BY <1>1, TraceNameKeeps
  <2>2. t \in Tables /\ t.name = table.name /\ t.defined = table.defined
        /\ Entries(t) = Entries(table)
    BY <2>1 DEF SameColumns, Entries
  <2>3. Columns(t) \subseteq Version
    BY <2>2, Fields DEF Columns
  <2>4. IsMeant(t, i)
    BY <1>1, <2>2 DEF IsMeant
  <2> QED BY <2>1, <2>2, <2>3, <2>4
<1>3. \A o \in Columns(t) : from[o] = o
  BY <1>2
<1>4. CreateTable(t).db = TableWith(t, from)
  BY DEF CreateTable, Done
<1> HIDE DEF from
<1>5. Mirrors(TableWith(t, from), i, {})
  BY <1>1, <1>2, <1>3, MadeMirrors
<1> QED BY <1>4, <1>5

(* Nothing that was lost is in a schema that is synchronized.              *)
LEMMA LostIsGone ==
    ASSUME IInv, NEW d
    PROVE  /\ Mirrors(d, ideal[dbversion], {}) => Mirrors(d, ideal[dbversion], Lost)
           /\ Mirrors(d, ideal[table.version], Lost) => Mirrors(d, ideal[table.version], {})
<1>1. ASSUME NEW n \in Name PROVE ideal[dbversion].named[n] \notin Lost
  <2>1. dbversion \in 0 .. MaxVersion
    BY VersionAssumption DEF IInv, TypeInv, Version
  <2>2. ideal[dbversion].named[n] <= dbversion /\ ideal[dbversion] \in Ideals
    BY <2>1 DEF IInv, TypeInv, ReleasesInv
  <2>3. ideal[dbversion].named[n] \in 0 .. MaxVersion
    BY <2>2 DEF Ideals
  <2>4. \A v \in Pending : v > dbversion
    BY PendingReleased
  <2>5. \A v \in Lost : v > dbversion
    BY <2>4 DEF Lost
  <2> QED BY <2>1, <2>2, <2>3, <2>5
<1>2. ASSUME NEW n \in Name PROVE ideal[table.version].named[n] \notin Lost
  <2>1. SUFFICES ASSUME NEW o \in Lost, ideal[table.version].named[n] = o PROVE FALSE
    OBVIOUS
  <2>2. o \in Pending /\ o \notin Entries(table)
    BY DEF Lost
  <2>3. o \in Version
    <3>1. o \in 1 .. latest
      BY <2>2, PendingReleased
    <3> QED BY <3>1, VersionAssumption DEF IInv, TypeInv, Version
  <2>4. NamedAt(o, table.version)
    BY <2>1 DEF NamedAt
  <2> QED BY <2>2, <2>3, <2>4, NamedIs
<1>3. Mirrors(d, ideal[dbversion], {}) => Mirrors(d, ideal[dbversion], Lost)
  BY <1>1 DEF Mirrors
<1>4. Mirrors(d, ideal[table.version], Lost) => Mirrors(d, ideal[table.version], {})
  BY <1>2 DEF Mirrors
<1> QED BY <1>3, <1>4

LEMMA SyncMatches ==
    ASSUME IInv, RowsInv, SyncInv, Sync, WithinLimits, Matches(db, dbversion)
    PROVE  Matches(db', dbversion')
<1> SUFFICES ASSUME NEW t, t = TraceName(table), NEW e, e = db', NEW v, v = dbversion'
             PROVE  Matches(e, v)
  OBVIOUS
<1>1. /\ table \in Tables /\ db \in Databases /\ dbversion \in 0 .. latest
      /\ v = table.version /\ v \in 0 .. latest /\ dbversion < table.version
      /\ t \in Tables /\ t.created = table.created /\ t.flags = table.flags
      /\ e = Synchronized(t, db).db
  <2>1. table \in Tables /\ Unambiguous(table) /\ Follow(table, Targets)
        /\ latest \in Version /\ table.version <= latest
        /\ db \in Databases /\ dbversion \in 0 .. latest
    BY DEF IInv, TypeInv, TableInv
  <2>2. SameColumns(table, t)
    BY <2>1, TraceNameKeeps
  <2>3. table.version \in 0 .. MaxVersion
    BY <2>1, Fields
  <2>4. table.version \in 0 .. latest
    BY <2>1, <2>3, VersionAssumption DEF Version
  <2> QED BY <2>1, <2>2, <2>4 DEF Sync, SameColumns
<1>2. e \in Databases
  BY <1>1, SynchronizedType
<1>3. Mirrors(db, ideal[dbversion], {})
  BY <1>1, MatchesIs
<1>4. SUFFICES Mirrors(e, ideal[table.version], {})
  BY <1>1, <1>2, MatchesIs
<1>5. CASE ~t.created
  <2>1. ~Recreates(t)
    BY <1>5 DEF Recreates
  <2>2. e = CreateTable(t).db
    BY <1>1, <1>5, <2>1 DEF Synchronized
  <2> QED BY <2>2, CreatedMirrors
<1>6. t.created => /\ RenamesAreApart /\ RenamesAreOfStored /\ RenamesAreSingle
                   /\ RenamesPrecedeIndexes /\ IndexDropsAreNoticed
  BY <1>1 DEF SyncInv, FlagsInv, WithinLimits
<1>7. CASE t.created /\ t.flags = {}
  <2>1. \A w \in Pending : DropsIndex(w)
    BY <1>1, <1>7 DEF SyncInv, FlagsInv
  <2>2. table.version \in Pending
    <3>1. dbversion \in Nat /\ table.version \in Nat
      BY PendingReleased
    <3> QED BY <1>1, <3>1 DEF Pending
  <2> QED BY <1>6, <1>7, <2>1, <2>2 DEF IndexDropsAreNoticed
<1>8. CASE t.created /\ t.flags # {} /\ Recreates(t)
  <2>1. e = RecreateTable(t, db).db
    BY <1>1, <1>8 DEF Synchronized
  <2> QED BY <1>1, <1>3, <1>6, <1>8, <2>1, RecreatedMirrors
<1>9. CASE t.created /\ t.flags # {} /\ ~Recreates(t)
  <2>1. e = AlterTable(t, db).db
    BY <1>1, <1>9 DEF Synchronized
  <2>2. \A w \in Pending : IsApart(w)
    BY <1>1, <1>9 DEF SyncInv, FlagsInv, Recreates
  <2>3. Altering(Pending)
    BY <1>6, <1>9, <2>2 DEF Altering, Renames, RenamesAreOfStored, RenamesAreSingle,
                            RenamesPrecedeIndexes
  <2>4. Mirrors(db, ideal[dbversion], Lost)
    BY <1>3, LostIsGone
  <2>5. Mirrors(e, ideal[table.version], Lost)
    BY <1>1, <1>9, <2>1, <2>3, <2>4, AlterMirrors
  <2> QED BY <2>5, LostIsGone
<1>10. t.created \in BOOLEAN
  BY <1>1, Fields
<1> QED BY <1>5, <1>7, <1>8, <1>9, <1>10

(* A synchronization brings the table in the database to what all the      *)
(* migrations mean: columns, definitions, rows, indexes and constraints,   *)
(* whether the table is made, altered statement by statement or recreated, *)
(* if it had what the migrations before mean and the new ones keep within  *)
(* the limits.                                                             *)
THEOREM SyncCorrect == Spec => SyncArrives
<1> DEFINE Arrives ==
        dbversion' # dbversion /\ WithinLimits /\ Matches(db, dbversion)
            => Matches(db', dbversion')
<1>1. ASSUME IInv, RowsInv, SyncInv, [Next]_vars PROVE [Arrives]_vars
  <2>1. CASE Sync
    BY <1>1, <2>1, SyncMatches
  <2>2. CASE Releases \/ Include \/ Restart \/ UNCHANGED vars
    BY <2>2 DEF Releases, Release, Include, Restart, vars
  <2> QED BY <1>1, <2>1, <2>2 DEF Next
<1>2. Spec => [][Arrives]_vars
  BY <1>1, Invariance, RowsInvariance, SyncInvariance, PTL DEF Spec
<1> QED BY <1>2 DEF SyncArrives
=============================================================================
