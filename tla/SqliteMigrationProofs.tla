----------------------- MODULE SqliteMigrationProofs -----------------------
(***************************************************************************)
(* Proofs about SchemaMigration and SqliteMigration: what a migration does *)
(* to the tables in memory; then that the synchronization implements it,   *)
(* and what a crash, a refused statement or a rerun leave of the database. *)
(* They hold for any set of names, any number of migrations and any number *)
(* of faults.                                                              *)
(***************************************************************************)
EXTENDS SqliteMigration, WellFoundedInduction, TLAPS

-----------------------------------------------------------------------------
(* Induction over the natural numbers, for sets instead of predicates.     *)

(* A set of natural numbers that is not empty has a least element.         *)
LEMMA Least ==
    ASSUME NEW T, T \subseteq Nat, T # {}
    PROVE  \E x \in T : \A y \in T : x <= y
<1> DEFINE R == OpToRel(<, Nat)
<1>1. IsWellFoundedOn(R, Nat)
  BY NatLessThanWellFounded
<1>2. PICK x \in T : \A y \in T : ~(<<y, x>> \in R)
  <2> HIDE DEF R
  <2> QED BY <1>1, WFMin
<1>3. \A y \in T : ~(y < x)
  BY <1>2, Zenon DEF OpToRel
<1> HIDE DEF R
<1> QED BY <1>3

-----------------------------------------------------------------------------
(* Sequences grow at the front.                                            *)
LEMMA Prepended ==
    ASSUME NEW S, NEW q \in Seq(S), NEW x \in S
    PROVE  /\ <<x>> \o q \in Seq(S)
           /\ Len(<<x>> \o q) = Len(q) + 1
           /\ DOMAIN (<<x>> \o q) = 1 .. Len(q) + 1
           /\ (<<x>> \o q)[1] = x
           /\ \A i \in 1 .. Len(q) : (<<x>> \o q)[i + 1] = q[i]
           /\ \A i \in 2 .. Len(q) + 1 : (<<x>> \o q)[i] = q[i - 1] /\ i - 1 \in 1 .. Len(q)
  OBVIOUS

LEMMA PrependRange ==
    ASSUME NEW S, NEW q \in Seq(S), NEW x \in S
    PROVE  /\ <<x>> \o q \in Seq(S)
           /\ Range(<<x>> \o q) = Range(q) \cup {x}
<1>1. DOMAIN q = 1 .. Len(q) /\ DOMAIN (<<x>> \o q) = 1 .. Len(q) + 1
  BY Prepended
<1>2. ASSUME NEW y PROVE y \in Range(<<x>> \o q) => y \in Range(q) \cup {x}
  BY <1>1, Prepended DEF Range
<1>3. ASSUME NEW y \in Range(q) PROVE y \in Range(<<x>> \o q)
  <2>1. PICK i \in 1 .. Len(q) : y = q[i]
    BY <1>1, <1>3 DEF Range
  <2>2. i + 1 \in 1 .. Len(q) + 1 /\ (<<x>> \o q)[i + 1] = y
    BY <2>1, Prepended
  <2> QED BY <1>1, <2>2 DEF Range
<1>4. x \in Range(<<x>> \o q)
  BY <1>1, Prepended DEF Range
<1>5. <<x>> \o q \in Seq(S)
  BY Prepended
<1> QED BY <1>2, <1>3, <1>4, <1>5

LEMMA PrependOnce ==
    ASSUME NEW S, NEW q \in Seq(S), NEW x \in S, x \notin Range(q), IsInjective(q)
    PROVE  IsInjective(<<x>> \o q)
<1> DEFINE r == <<x>> \o q
<1>1. /\ Len(q) \in Nat /\ DOMAIN q = 1 .. Len(q) /\ DOMAIN r = 1 .. Len(q) + 1
      /\ r[1] = x
      /\ \A i \in 2 .. Len(q) + 1 : r[i] = q[i - 1] /\ i - 1 \in 1 .. Len(q)
  BY Prepended
<1> HIDE DEF r
<1>2. \A i \in DOMAIN q : q[i] # x
  BY DEF Range
<1>3. ASSUME NEW i \in DOMAIN r
      PROVE  \/ i = 1 /\ r[i] = x
             \/ i \in Int /\ i - 1 \in DOMAIN q /\ r[i] = q[i - 1]
  <2>1. i = 1 \/ i \in 2 .. Len(q) + 1
    BY <1>1
  <2> QED BY <1>1, <2>1
<1>4. ASSUME NEW i \in DOMAIN r, NEW j \in DOMAIN r, r[i] = r[j] PROVE i = j
  <2>1. CASE i = 1 \/ j = 1
    BY <1>2, <1>3, <1>4, <2>1
  <2>2. CASE i # 1 /\ j # 1
    <3>1. /\ i \in Int /\ i - 1 \in DOMAIN q /\ r[i] = q[i - 1]
          /\ j \in Int /\ j - 1 \in DOMAIN q /\ r[j] = q[j - 1]
      BY <1>3, <2>2
    <3>2. i - 1 = j - 1
      BY <1>4, <3>1 DEF IsInjective
    <3> QED BY <3>1, <3>2
  <2> QED BY <2>1, <2>2
<1>5. IsInjective(r)
  BY <1>4 DEF IsInjective
<1> QED BY <1>5 DEF r

-----------------------------------------------------------------------------
(* The inductive invariant of SchemaMigration, in parts.  The parts speak  *)
(* of any schema s, of the names it should have and of the targets of its  *)
(* foreign keys, so that what the operators do to s can be said without    *)
(* the variables.                                                          *)

IsMeant(s, named) ==
    \A n \in Name, o \in Version : s.name[o] = n <=> named[n] = o

Unambiguous(s) ==
    /\ \A o \in Version : IsEntry(s, o) => ~IsTraced(s, s.name[o])
    /\ \A i, j \in DOMAIN s.reentry : s.reentry[i].old = s.reentry[j].old => i = j

(* The name f leads to table t: it is the name of t, or was and is on      *)
(* record.                                                                 *)
Leads(s, f, t) ==
    \/ ~IsTraced(s, f) /\ f = s.name[t]
    \/ \E i \in DOMAIN s.reentry :
          /\ s.reentry[i].old = f
          /\ s.reentry[i].kind = "renamed"
          /\ s.reentry[i].table = t

Follow(s, target) ==
    \A o, t \in Version :
        IsEntry(s, o) /\ IsEntry(s, t) /\ target[o] = t => Leads(s, s.foreign[o], t)

Pending(s, v) ==
    /\ \A i, j \in DOMAIN s.unsynced : s.unsynced[i] = s.unsynced[j] => i = j
    /\ \A o \in Version : IsEntry(s, o) /\ o \notin s.created =>
          o \in Range(s.unsynced) /\ s.old[o] = NoName
    /\ \A o \in Version : s.old[o] # NoName => o \in Range(s.unsynced)
    /\ \A o \in Range(s.unsynced) : o <= v

Told(s, named) ==
    /\ \A o \in Version : o \in s.created <=> \E n \in Name : named[n] = o
    /\ \A n \in Name, o \in Version : named[n] = o =>
          \/ o \in Range(s.unsynced) /\ s.old[o] = n
          \/ o \notin Range(s.unsynced) /\ s.old[o] = NoName /\ s.name[o] = n

(* What a release may ask for.                                             *)
Legal(named, c) ==
    \/ c.do = "add" /\ c.name \in Name /\ c.foreign = NoName
    \/ /\ c.do = "add" /\ c.name \in Name /\ c.foreign \in Name
       /\ named[c.name] = NoTable
       /\ c.foreign = c.name \/ named[c.foreign] # NoTable
    \/ c.do = "drop" /\ c.old \in Name
    \/ /\ c.do = "rename" /\ c.old \in Name /\ c.name \in Name
       /\ c.old # c.name /\ named[c.name] = NoTable

Targets == [o \in Version |-> Target(o)]

ReleasesInv ==
    /\ schema.version <= latest /\ dbversion <= latest
    /\ \A v \in 0 .. MaxVersion : \A n \in Name : ideal[v][n] <= v
    /\ \A v \in 1 .. latest :
          /\ Legal(ideal[v - 1], history[v])
          /\ ideal[v] = Meant(ideal[v - 1], v, history[v])

SchemaInv ==
    /\ IsMeant(schema, ideal[schema.version])
    /\ Unambiguous(schema)
    /\ Follow(schema, Targets)
    /\ Pending(schema, schema.version)

DatabaseInv ==
    /\ schema.version < dbversion => schema.created = {}
    /\ schema.version >= dbversion => Told(schema, ideal[dbversion])

IInv == TypeOK /\ ReleasesInv /\ SchemaInv /\ DatabaseInv

-----------------------------------------------------------------------------
(* The fields of a schema.                                                 *)
LEMMA Fields ==
    ASSUME NEW s \in Schemas
    PROVE  /\ s.version \in 0 .. MaxVersion
           /\ s.name \in [Version -> Name \cup {NoName}]
           /\ s.old \in [Version -> Name \cup {NoName}]
           /\ s.created \subseteq Version
           /\ s.foreign \in [Version -> Name \cup {NoName}]
           /\ s.unsynced \in Seq(Version)
           /\ s.reentry \in Seq(Records)
           /\ DOMAIN s.reentry = 1 .. Len(s.reentry)
           /\ DOMAIN s.unsynced = 1 .. Len(s.unsynced)
           /\ Len(s.reentry) \in Nat /\ Len(s.unsynced) \in Nat
           /\ \A i \in DOMAIN s.reentry : s.reentry[i] \in Records
           /\ Range(s.unsynced) \subseteq Version
<1>1. /\ s.version \in 0 .. MaxVersion
      /\ s.name \in [Version -> Name \cup {NoName}]
      /\ s.old \in [Version -> Name \cup {NoName}]
      /\ s.created \subseteq Version
      /\ s.foreign \in [Version -> Name \cup {NoName}]
      /\ s.unsynced \in Seq(Version)
      /\ s.reentry \in Seq(Records)
  BY DEF Schemas
<1>2. /\ DOMAIN s.reentry = 1 .. Len(s.reentry)
      /\ DOMAIN s.unsynced = 1 .. Len(s.unsynced)
      /\ Len(s.reentry) \in Nat /\ Len(s.unsynced) \in Nat
      /\ \A i \in DOMAIN s.reentry : s.reentry[i] \in Records
      /\ \A i \in DOMAIN s.unsynced : s.unsynced[i] \in Version
  BY <1>1
<1> QED BY <1>1, <1>2 DEF Range

LEMMA IsTracedIf ==
    ASSUME NEW s, NEW n
    PROVE  IsTraced(s, n) <=> \E i \in DOMAIN s.reentry : s.reentry[i].old = n
  BY DEF IsTraced, Hits

(* Tracing a name that leads to a table of the schema yields its name.     *)
LEMMA ResolveLeads ==
    ASSUME NEW s \in Schemas, NEW f, NEW t \in Version,
           Unambiguous(s), Leads(s, f, t), IsEntry(s, t)
    PROVE  Resolve(s, f) = s.name[t]
<1>1. CASE ~IsTraced(s, f) /\ f = s.name[t]
  BY <1>1 DEF Resolve
<1>2. CASE \E i \in DOMAIN s.reentry :
              /\ s.reentry[i].old = f
              /\ s.reentry[i].kind = "renamed"
              /\ s.reentry[i].table = t
  <2>1. PICK i \in DOMAIN s.reentry :
              /\ s.reentry[i].old = f
              /\ s.reentry[i].kind = "renamed"
              /\ s.reentry[i].table = t
    BY <1>2
  <2>2. Hits(s, f) = {i}
    BY <2>1 DEF Hits, Unambiguous
  <2>3. i \in Nat
    BY Fields
  <2>4. FirstOf({i}) = i
    BY <2>3 DEF FirstOf
  <2>5. TracedName(s, f) = s.name[t]
    BY <2>1, <2>2, <2>4 DEF TracedName
  <2> QED BY <2>2, <2>5 DEF Resolve, IsTraced, IsEntry
<1> QED BY <1>1, <1>2 DEF Leads

-----------------------------------------------------------------------------
(* What becomes of the records when names are traced and reused.           *)

(* A set of indices has a first one.                                       *)
LEMMA FirstOfIsLeast ==
    ASSUME NEW T, T \subseteq Nat, T # {}
    PROVE  FirstOf(T) \in T /\ \A j \in T : FirstOf(T) <= j
<1>1. \E i \in T : \A j \in T : i <= j
  BY Least
<1> QED BY <1>1, Zenon DEF FirstOf

LEMMA FirstOfIndices ==
    ASSUME NEW T, T \subseteq Nat, T # {}
    PROVE  FirstOf(T) \in T
  BY FirstOfIsLeast

LEMMA ResolveType ==
    ASSUME NEW s \in Schemas, NEW n \in Name \cup {NoName}
    PROVE  Resolve(s, n) \in Name \cup {NoName}
<1>1. SUFFICES ASSUME IsTraced(s, n) PROVE TracedName(s, n) \in Name \cup {NoName}
  BY DEF Resolve
<1> DEFINE hit == s.reentry[FirstOf(Hits(s, n))]
           renamings == {i \in DOMAIN s.reentry :
                           s.reentry[i].kind = "renamed" /\ s.reentry[i].table = hit.table}
<1>2. DOMAIN s.reentry \subseteq Nat /\ s.name \in [Version -> Name \cup {NoName}]
      /\ \A i \in DOMAIN s.reentry : s.reentry[i] \in Records
  BY Fields
<1>3. FirstOf(Hits(s, n)) \in DOMAIN s.reentry
  BY <1>1, <1>2, FirstOfIndices DEF IsTraced, Hits
<1>4. hit \in Records
  BY <1>2, <1>3
<1>5. hit.table \in Version /\ hit.kind \in {"renamed", "dropped"}
  BY <1>4 DEF Records
<1>6. CASE hit.kind = "renamed"
  <2>1. TracedName(s, n) = s.name[hit.table]
    BY <1>6 DEF TracedName
  <2> QED BY <2>1, <1>2, <1>5
<1>7. CASE hit.kind = "dropped" /\ renamings = {}
  <2>1. TracedName(s, n) = NoName
    BY <1>7 DEF TracedName
  <2> QED BY <2>1
<1>8. CASE hit.kind = "dropped" /\ renamings # {}
  <2>1. TracedName(s, n) = s.reentry[FirstOf(renamings)].name
    BY <1>8 DEF TracedName
  <2>2. renamings \subseteq Nat /\ renamings \subseteq DOMAIN s.reentry
    BY <1>2
  <2>3. FirstOf(renamings) \in renamings
    BY <1>8, <2>2, FirstOfIndices
  <2>4. s.reentry[FirstOf(renamings)] \in Records
    BY <1>2, <2>2, <2>3
  <2>5. s.reentry[FirstOf(renamings)].name \in Name \cup {NoName}
    BY <2>4 DEF Records
  <2> QED BY <2>1, <2>5
<1> QED BY <1>5, <1>6, <1>7, <1>8

(* Tracing changes the foreign keys and nothing else, and leaves every one *)
(* of them with the present name of its table.                             *)
LEMMA TraceNameKeeps ==
    ASSUME NEW s \in Schemas, NEW target, Unambiguous(s), Follow(s, target)
    PROVE  /\ TraceName(s) \in Schemas
           /\ TraceName(s).version = s.version /\ TraceName(s).name = s.name
           /\ TraceName(s).old = s.old /\ TraceName(s).created = s.created
           /\ TraceName(s).unsynced = s.unsynced /\ TraceName(s).reentry = s.reentry
           /\ \A o, t \in Version :
                 IsEntry(s, o) /\ IsEntry(s, t) /\ target[o] = t =>
                    TraceName(s).foreign[o] = s.name[t]
<1> DEFINE traced == [o \in Version |->
                IF IsEntry(s, o) THEN Resolve(s, s.foreign[o]) ELSE s.foreign[o]]
           r == TraceName(s)
<1>1. /\ r.version = s.version /\ r.name = s.name /\ r.old = s.old
      /\ r.created = s.created /\ r.unsynced = s.unsynced /\ r.reentry = s.reentry
      /\ r.foreign = traced
  BY DEF TraceName, Schemas
<1>2. traced \in [Version -> Name \cup {NoName}]
  <2>1. s.foreign \in [Version -> Name \cup {NoName}]
    BY Fields
  <2>2. ASSUME NEW o \in Version PROVE traced[o] \in Name \cup {NoName}
    <3>1. s.foreign[o] \in Name \cup {NoName}
      BY <2>1
    <3>2. Resolve(s, s.foreign[o]) \in Name \cup {NoName}
      BY <3>1, ResolveType
    <3> QED BY <3>1, <3>2
  <2> QED BY <2>2
<1>3. r \in Schemas
  <2>1. r = [s EXCEPT !.foreign = traced]
    BY DEF TraceName
  <2> HIDE DEF traced, r
  <2> QED BY <1>2, <2>1 DEF Schemas
<1>4. ASSUME NEW o \in Version, NEW t \in Version,
             IsEntry(s, o), IsEntry(s, t), target[o] = t
      PROVE  r.foreign[o] = s.name[t]
  <2>1. Leads(s, s.foreign[o], t)
    BY <1>4 DEF Follow
  <2>2. Resolve(s, s.foreign[o]) = s.name[t]
    BY <2>1, <1>4, ResolveLeads
  <2> QED BY <1>1, <1>4, <2>2
<1> QED BY <1>1, <1>3, <1>4

(* So it keeps the records of what was traced good.                        *)
LEMMA TraceNameFollows ==
    ASSUME NEW s \in Schemas, NEW target, Unambiguous(s), Follow(s, target)
    PROVE  Unambiguous(TraceName(s)) /\ Follow(TraceName(s), target)
<1> DEFINE r == TraceName(s)
<1>1. /\ r.name = s.name /\ r.reentry = s.reentry
      /\ \A o, t \in Version :
            IsEntry(s, o) /\ IsEntry(s, t) /\ target[o] = t => r.foreign[o] = s.name[t]
  BY TraceNameKeeps
<1> HIDE DEF r
<1>2. Unambiguous(r)
  BY <1>1 DEF Unambiguous, IsEntry, IsTraced, Hits
<1>3. Follow(r, target)
  BY <1>1 DEF Unambiguous, Follow, Leads, IsEntry, IsTraced, Hits
<1> QED BY <1>2, <1>3 DEF r

(* After its name is reused nothing is traced to it, and all else holds.   *)
LEMMA ReuseNameKeeps ==
    ASSUME NEW s \in Schemas, NEW target, NEW n, Unambiguous(s), Follow(s, target)
    PROVE  /\ ReuseName(s, n) \in Schemas
           /\ ReuseName(s, n).version = s.version /\ ReuseName(s, n).name = s.name
           /\ ReuseName(s, n).old = s.old /\ ReuseName(s, n).created = s.created
           /\ ReuseName(s, n).unsynced = s.unsynced
           /\ Unambiguous(ReuseName(s, n))
           /\ Follow(ReuseName(s, n), target)
           /\ ~IsTraced(ReuseName(s, n), n)
<1>1. CASE ~IsTraced(s, n)
  BY <1>1 DEF ReuseName
<1>2. CASE IsTraced(s, n)
  <2> DEFINE traced == TraceName(s)
             r == EraseReentry(traced)
  <2>1. ReuseName(s, n) = r
    BY <1>2 DEF ReuseName
  <2>2. /\ traced \in Schemas
        /\ traced.version = s.version /\ traced.name = s.name
        /\ traced.old = s.old /\ traced.created = s.created
        /\ traced.unsynced = s.unsynced
        /\ \A o, t \in Version :
              IsEntry(s, o) /\ IsEntry(s, t) /\ target[o] = t => traced.foreign[o] = s.name[t]
    BY TraceNameKeeps
  <2> HIDE DEF traced
  <2>3. /\ r.version = traced.version /\ r.name = traced.name /\ r.old = traced.old
        /\ r.created = traced.created /\ r.unsynced = traced.unsynced
        /\ r.foreign = traced.foreign /\ r.reentry = <<>>
    BY <2>2 DEF EraseReentry, Schemas
  <2>4. r \in Schemas
    <3>1. r = [traced EXCEPT !.reentry = <<>>] /\ <<>> \in Seq(Records)
      BY DEF EraseReentry
    <3> HIDE DEF r
    <3> QED BY <2>2, <3>1 DEF Schemas
  <2> HIDE DEF r
  <2>5. \A m : ~IsTraced(r, m)
    BY <2>3 DEF IsTraced, Hits
  <2>6. Unambiguous(r)
    BY <2>3, <2>5 DEF Unambiguous
  <2>7. Follow(r, target)
    BY <2>2, <2>3, <2>5 DEF Follow, Leads, IsEntry
  <2> QED BY <2>1, <2>2, <2>3, <2>4, <2>5, <2>6, <2>7
<1> QED BY <1>1, <1>2

(* A record in front: what it adds to what is traced.                      *)
Recorded(s, q, x) ==
    /\ \A n : IsTraced(q, n) <=> n = x.old \/ IsTraced(s, n)
    /\ \A i, j \in DOMAIN q.reentry : q.reentry[i].old = q.reentry[j].old => i = j
    /\ \A i \in DOMAIN s.reentry : \E j \in DOMAIN q.reentry : q.reentry[j] = s.reentry[i]
    /\ \E j \in DOMAIN q.reentry : q.reentry[j] = x

LEMMA RecordInFront ==
    ASSUME NEW s \in Schemas, NEW q \in Schemas, NEW x \in Records,
           q.reentry = <<x>> \o s.reentry, Unambiguous(s), ~IsTraced(s, x.old)
    PROVE  Recorded(s, q, x)
<1>1. /\ s.reentry \in Seq(Records) /\ Len(s.reentry) \in Nat
      /\ DOMAIN s.reentry = 1 .. Len(s.reentry)
  BY Fields
<1>2. /\ DOMAIN q.reentry = 1 .. Len(s.reentry) + 1
      /\ q.reentry[1] = x
      /\ \A i \in 1 .. Len(s.reentry) : q.reentry[i + 1] = s.reentry[i]
      /\ \A i \in 2 .. Len(s.reentry) + 1 :
            q.reentry[i] = s.reentry[i - 1] /\ i - 1 \in 1 .. Len(s.reentry)
  BY <1>1, Prepended
<1>3. \A i \in DOMAIN s.reentry : \E j \in DOMAIN q.reentry : q.reentry[j] = s.reentry[i]
  <2> TAKE i \in DOMAIN s.reentry
  <2>1. i + 1 \in DOMAIN q.reentry /\ q.reentry[i + 1] = s.reentry[i]
    BY <1>1, <1>2
  <2> QED BY <2>1
<1>4. \E j \in DOMAIN q.reentry : q.reentry[j] = x
  <2>1. 1 \in DOMAIN q.reentry
    BY <1>1, <1>2
  <2> QED BY <1>2, <2>1
<1>5. ASSUME NEW j \in DOMAIN q.reentry
      PROVE  \/ j = 1 /\ q.reentry[j] = x
             \/ j - 1 \in DOMAIN s.reentry /\ q.reentry[j] = s.reentry[j - 1]
  <2>1. CASE j = 1
    BY <1>2, <2>1
  <2>2. CASE j # 1
    <3>1. j \in 2 .. Len(s.reentry) + 1
      BY <1>1, <1>2, <2>2
    <3> QED BY <1>1, <1>2, <3>1
  <2> QED BY <2>1, <2>2
<1>6. ASSUME NEW n PROVE IsTraced(q, n) <=> n = x.old \/ IsTraced(s, n)
  <2>1. /\ IsTraced(q, n) <=> \E i \in DOMAIN q.reentry : q.reentry[i].old = n
        /\ IsTraced(s, n) <=> \E i \in DOMAIN s.reentry : s.reentry[i].old = n
    BY IsTracedIf
  <2> QED BY <1>3, <1>4, <1>5, <2>1
<1>7. ASSUME NEW i \in DOMAIN q.reentry, NEW j \in DOMAIN q.reentry,
             q.reentry[i].old = q.reentry[j].old
      PROVE  i = j
  <2>1. \A k \in DOMAIN s.reentry : s.reentry[k].old # x.old
    BY IsTracedIf
  <2>2. i \in Int /\ j \in Int
    BY <1>1, <1>2
  <2>3. CASE i = 1 \/ j = 1
    BY <1>5, <1>7, <2>1, <2>3
  <2>4. CASE i # 1 /\ j # 1
    <3>1. /\ i - 1 \in DOMAIN s.reentry /\ q.reentry[i] = s.reentry[i - 1]
          /\ j - 1 \in DOMAIN s.reentry /\ q.reentry[j] = s.reentry[j - 1]
      BY <1>5, <2>4
    <3>2. i - 1 = j - 1
      BY <1>7, <3>1 DEF Unambiguous
    <3> QED BY <2>2, <3>2
  <2> QED BY <2>3, <2>4
<1> QED BY <1>3, <1>4, <1>6, <1>7 DEF Recorded

-----------------------------------------------------------------------------
(* Renaming a table.                                                       *)

(* The fields of the schema q in which table p is renamed to n, given the  *)
(* schema r in which that name was reused.                                 *)
IsRenamed(s, r, q, p, n) ==
    LET first == p \in s.created /\ p \notin Range(s.unsynced)
    IN  /\ q \in Schemas
        /\ q.version = s.version
        /\ q.name = [s.name EXCEPT ![p] = n]
        /\ q.old = [s.old EXCEPT ![p] =
                       IF first /\ s.old[p] = NoName THEN s.name[p] ELSE s.old[p]]
        /\ q.created = s.created
        /\ q.foreign = r.foreign
        /\ q.reentry = <<Record("renamed", p, s.name[p], n)>> \o r.reentry
        /\ q.unsynced = IF first THEN <<p>> \o s.unsynced ELSE s.unsynced

LEMMA RenameFields ==
    ASSUME NEW s \in Schemas, NEW target, NEW p \in Version, NEW n \in Name,
           Unambiguous(s), Follow(s, target), s.name[p] \in Name
    PROVE  IsRenamed(s, ReuseName(s, n), Rename(s, p, n), p, n)
<1> DEFINE r == ReuseName(s, n)
           q == Rename(s, p, n)
           first == p \in s.created /\ p \notin Range(s.unsynced)
           old == IF first /\ s.old[p] = NoName THEN s.name[p] ELSE s.old[p]
           x == Record("renamed", p, s.name[p], n)
           unsynced == IF first THEN <<p>> \o s.unsynced ELSE s.unsynced
<1>1. /\ r \in Schemas /\ r.version = s.version /\ r.name = s.name /\ r.old = s.old
      /\ r.created = s.created /\ r.unsynced = s.unsynced
  BY ReuseNameKeeps
<1>2. q = [r EXCEPT !.name[p] = n, !.old[p] = old, !.reentry = <<x>> \o r.reentry,
                    !.unsynced = unsynced]
  BY <1>1 DEF Rename, AddUnsynced
<1>3. old \in Name \cup {NoName}
  BY Fields
<1>4. <<x>> \o r.reentry \in Seq(Records)
  <2>1. x \in Records /\ r.reentry \in Seq(Records)
    BY <1>1, Fields DEF Record, Records
  <2> QED BY <2>1, Prepended
<1>5. unsynced \in Seq(Version)
  BY Fields, Prepended
<1> HIDE DEF r, q, old, x, unsynced
<1>6. /\ q.version = r.version /\ q.name = [r.name EXCEPT ![p] = n]
      /\ q.old = [r.old EXCEPT ![p] = old] /\ q.created = r.created
      /\ q.foreign = r.foreign /\ q.reentry = <<x>> \o r.reentry
      /\ q.unsynced = unsynced
  BY <1>1, <1>2 DEF Schemas
<1>7. q \in Schemas
  <2>1. /\ [r.name EXCEPT ![p] = n] \in [Version -> Name \cup {NoName}]
        /\ [r.old EXCEPT ![p] = old] \in [Version -> Name \cup {NoName}]
    BY <1>1, <1>3, Fields
  <2> QED BY <1>1, <1>2, <1>4, <1>5, <2>1 DEF Schemas
<1>8. IsRenamed(s, r, q, p, n)
  BY <1>1, <1>6, <1>7 DEF IsRenamed, old, x, unsynced
<1> QED BY <1>8 DEF r, q

(* The new name is nobody's: what is traced stays unambiguous, and every   *)
(* name that led to a table still does.                                    *)
LEMMA RenameTraces ==
    ASSUME NEW s \in Schemas, NEW target, NEW p \in Version, NEW n \in Name,
           Unambiguous(s), Follow(s, target), s.name[p] \in Name,
           \A o, t \in Version : s.name[o] = s.name[t] /\ IsEntry(s, o) => o = t,
           \A o \in Version : s.name[o] # n
    PROVE  Unambiguous(Rename(s, p, n)) /\ Follow(Rename(s, p, n), target)
<1> DEFINE r == ReuseName(s, n)
           q == Rename(s, p, n)
           x == Record("renamed", p, s.name[p], n)
<1>1. /\ r \in Schemas /\ r.name = s.name /\ Unambiguous(r) /\ Follow(r, target)
      /\ ~IsTraced(r, n)
  BY ReuseNameKeeps
<1>2. /\ q \in Schemas /\ q.name = [s.name EXCEPT ![p] = n] /\ q.foreign = r.foreign
      /\ q.reentry = <<x>> \o r.reentry
  <2>1. IsRenamed(s, r, q, p, n)
    BY RenameFields
  <2> QED BY <2>1 DEF IsRenamed
<1>3. /\ x \in Records /\ x.old = s.name[p] /\ x.kind = "renamed" /\ x.table = p
  BY DEF Record, Records
<1> HIDE DEF r, q, x
<1>4. s.name \in [Version -> Name \cup {NoName}] /\ NoName \notin Name
  BY Fields, NameAssumption
<1>5. \A o \in Version : q.name[o] = IF o = p THEN n ELSE s.name[o]
  BY <1>2, <1>4
<1>6. \A o \in Version : IsEntry(q, o) <=> IsEntry(s, o)
  BY <1>4, <1>5 DEF IsEntry
<1>7. ~IsTraced(r, x.old)
  BY <1>1, <1>3, <1>4 DEF Unambiguous, IsEntry
<1>8. Recorded(r, q, x)
  <2>1. r \in Schemas /\ q \in Schemas /\ x \in Records /\ Unambiguous(r)
        /\ q.reentry = <<x>> \o r.reentry /\ ~IsTraced(r, x.old)
    BY <1>1, <1>2, <1>3, <1>7
  <2> QED BY <2>1, RecordInFront
<1>9. ASSUME NEW o \in Version, IsEntry(q, o) PROVE ~IsTraced(q, q.name[o])
  <2>1. CASE o = p
    BY <1>1, <1>3, <1>5, <1>8, <2>1 DEF Recorded
  <2>2. CASE o # p
    <3>1. q.name[o] = s.name[o] /\ IsEntry(r, o)
      BY <1>1, <1>5, <1>6, <1>9, <2>2 DEF IsEntry
    <3>2. s.name[o] # s.name[p]
      BY <1>6, <1>9, <2>2
    <3> QED BY <1>1, <1>3, <1>8, <3>1, <3>2 DEF Unambiguous, Recorded
  <2> QED BY <2>1, <2>2
<1>10. Unambiguous(q)
  BY <1>8, <1>9 DEF Unambiguous, Recorded
<1>11. ASSUME NEW o \in Version, NEW t \in Version,
              IsEntry(q, o), IsEntry(q, t), target[o] = t
       PROVE  Leads(q, q.foreign[o], t)
  <2> DEFINE f == r.foreign[o]
  <2> SUFFICES Leads(q, f, t)
    BY <1>2
  <2>1. Leads(r, f, t) /\ IsEntry(s, t)
    BY <1>1, <1>6, <1>11 DEF Follow, IsEntry
  <2> HIDE DEF f
  <2>2. CASE ~IsTraced(r, f) /\ f = r.name[t] /\ t = p
    BY <1>1, <1>3, <1>8, <2>2 DEF Leads, Recorded
  <2>3. CASE ~IsTraced(r, f) /\ f = r.name[t] /\ t # p
    <3>1. f = q.name[t] /\ f # s.name[p]
      BY <1>1, <1>5, <2>1, <2>3
    <3> QED BY <1>3, <1>8, <2>3, <3>1 DEF Leads, Recorded
  <2>4. CASE \E i \in DOMAIN r.reentry :
                r.reentry[i].old = f /\ r.reentry[i].kind = "renamed" /\ r.reentry[i].table = t
    BY <1>8, <2>4 DEF Leads, Recorded
  <2> QED BY <2>1, <2>2, <2>3, <2>4 DEF Leads, Recorded
<1> QED BY <1>10, <1>11 DEF Follow, q

(* A table is put on record that is not there yet.                         *)
NoneTwice(s) == \A i, j \in DOMAIN s.unsynced : s.unsynced[i] = s.unsynced[j] => i = j

Unsynced(s, q, p) == Range(q.unsynced) = Range(s.unsynced) \cup {p} /\ NoneTwice(q)

LEMMA UnsyncedInFront ==
    ASSUME NEW s \in Schemas, NEW q \in Schemas, NEW p \in Version, p \notin Range(s.unsynced),
           q.unsynced = <<p>> \o s.unsynced, NoneTwice(s)
    PROVE  Unsynced(s, q, p)
<1>1. s.unsynced \in Seq(Version) /\ IsInjective(s.unsynced)
  BY Fields DEF NoneTwice, IsInjective
<1>2. Range(q.unsynced) = Range(s.unsynced) \cup {p} /\ IsInjective(q.unsynced)
  BY <1>1, PrependRange, PrependOnce
<1> QED BY <1>2 DEF Unsynced, NoneTwice, IsInjective

(* The database will be told of the first name only.                       *)
LEMMA RenamePends ==
    ASSUME NEW s \in Schemas, NEW r, NEW q, NEW p \in Version, NEW n \in Name,
           IsRenamed(s, r, q, p, n), s.name[p] \in Name, NEW v, Pending(s, v), p <= v
    PROVE  Pending(q, v) /\ \A named : Told(s, named) => Told(q, named)
<1> DEFINE first == p \in s.created /\ p \notin Range(s.unsynced)
<1>1. /\ q \in Schemas /\ q.created = s.created
      /\ q.name = [s.name EXCEPT ![p] = n]
      /\ q.old = [s.old EXCEPT ![p] =
                    IF first /\ s.old[p] = NoName THEN s.name[p] ELSE s.old[p]]
      /\ q.unsynced = IF first THEN <<p>> \o s.unsynced ELSE s.unsynced
  BY DEF IsRenamed
<1>2. /\ s.name \in [Version -> Name \cup {NoName}] /\ NoName \notin Name
      /\ s.old \in [Version -> Name \cup {NoName}]
  BY Fields, NameAssumption
<1>3. \A o \in Version :
         /\ q.name[o] = IF o = p THEN n ELSE s.name[o]
         /\ q.old[o] = IF o = p /\ first /\ s.old[p] = NoName THEN s.name[p] ELSE s.old[o]
  BY <1>1, <1>2
<1>4. /\ Range(q.unsynced) = IF first THEN Range(s.unsynced) \cup {p} ELSE Range(s.unsynced)
      /\ \A i, j \in DOMAIN q.unsynced : q.unsynced[i] = q.unsynced[j] => i = j
  <2>1. CASE first
    <3>1. p \notin Range(s.unsynced) /\ q.unsynced = <<p>> \o s.unsynced /\ NoneTwice(s)
      BY <1>1, <2>1 DEF Pending, NoneTwice
    <3>2. Unsynced(s, q, p)
      BY <1>1, <3>1, UnsyncedInFront
    <3> QED BY <2>1, <3>2 DEF Unsynced, NoneTwice
  <2>2. CASE ~first
    BY <1>1, <2>2 DEF Pending
  <2> QED BY <2>1, <2>2
<1>5. Pending(q, v)
  <2>1. ASSUME NEW o \in Version, IsEntry(q, o), o \notin q.created
        PROVE  o \in Range(q.unsynced) /\ q.old[o] = NoName
    <3>1. IsEntry(s, o) /\ o \notin s.created
      BY <1>1, <1>2, <1>3, <2>1 DEF IsEntry
    <3>2. o \in Range(s.unsynced) /\ s.old[o] = NoName
      BY <3>1 DEF Pending
    <3> QED BY <1>3, <1>4, <3>1, <3>2
  <2>2. ASSUME NEW o \in Version, q.old[o] # NoName PROVE o \in Range(q.unsynced)
    BY <1>3, <1>4, <2>2 DEF Pending
  <2>3. \A o \in Range(q.unsynced) : o <= v
    BY <1>4 DEF Pending
  <2> QED BY <1>4, <2>1, <2>2, <2>3 DEF Pending
<1>6. ASSUME NEW named, Told(s, named) PROVE Told(q, named)
  <2>1. \A o \in Version : o \in q.created <=> \E m \in Name : named[m] = o
    BY <1>1, <1>6 DEF Told
  <2>2. ASSUME NEW m \in Name, NEW o \in Version, named[m] = o
        PROVE  \/ o \in Range(q.unsynced) /\ q.old[o] = m
               \/ o \notin Range(q.unsynced) /\ q.old[o] = NoName /\ q.name[o] = m
    <3>1. /\ o \in s.created
          /\ \/ o \in Range(s.unsynced) /\ s.old[o] = m
             \/ o \notin Range(s.unsynced) /\ s.old[o] = NoName /\ s.name[o] = m
      BY <1>6, <2>2 DEF Told
    <3> QED BY <1>2, <1>3, <1>4, <3>1
  <2> QED BY <2>1, <2>2 DEF Told
<1> QED BY <1>5, <1>6

-----------------------------------------------------------------------------
(* Dropping a table.                                                       *)

(* The fields of the schema q in which table p is dropped.                 *)
IsDropped(s, q, p) ==
    LET first == p \in s.created /\ p \notin Range(s.unsynced)
        named == s.old[p] = NoName
    IN  /\ q \in Schemas
        /\ q.version = s.version
        /\ q.name = [s.name EXCEPT ![p] = NoName]
        /\ q.old = [s.old EXCEPT ![p] = IF named THEN s.name[p] ELSE s.old[p]]
        /\ q.created = s.created
        /\ q.foreign = s.foreign
        /\ q.reentry = IF named THEN <<Record("dropped", p, s.name[p], NoName)>> \o s.reentry
                       ELSE s.reentry
        /\ q.unsynced = IF first THEN <<p>> \o s.unsynced ELSE s.unsynced

LEMMA DropFields ==
    ASSUME NEW s \in Schemas, NEW p \in Version, s.name[p] \in Name
    PROVE  IsDropped(s, Drop(s, p), p)
<1> DEFINE q == Drop(s, p)
           first == p \in s.created /\ p \notin Range(s.unsynced)
           old == IF s.old[p] = NoName THEN s.name[p] ELSE s.old[p]
           x == Record("dropped", p, s.name[p], NoName)
           reentry == IF s.old[p] = NoName THEN <<x>> \o s.reentry ELSE s.reentry
           unsynced == IF first THEN <<p>> \o s.unsynced ELSE s.unsynced
<1>1. q = [s EXCEPT !.name[p] = NoName, !.old[p] = old, !.reentry = reentry,
                    !.unsynced = unsynced]
  BY DEF Drop, AddUnsynced
<1>2. old \in Name \cup {NoName}
  BY Fields
<1>3. reentry \in Seq(Records)
  <2>1. x \in Records /\ s.reentry \in Seq(Records)
    BY Fields DEF Record, Records
  <2>2. <<x>> \o s.reentry \in Seq(Records)
    BY <2>1, Prepended
  <2> QED BY <2>1, <2>2
<1>4. unsynced \in Seq(Version)
  BY Fields, Prepended
<1> HIDE DEF q, old, reentry, unsynced
<1>5. /\ q.version = s.version /\ q.name = [s.name EXCEPT ![p] = NoName]
      /\ q.old = [s.old EXCEPT ![p] = old] /\ q.created = s.created
      /\ q.foreign = s.foreign /\ q.reentry = reentry /\ q.unsynced = unsynced
  BY <1>1 DEF Schemas
<1>6. q \in Schemas
  <2>1. /\ [s.name EXCEPT ![p] = NoName] \in [Version -> Name \cup {NoName}]
        /\ [s.old EXCEPT ![p] = old] \in [Version -> Name \cup {NoName}]
    BY <1>2, Fields
  <2> QED BY <1>1, <1>3, <1>4, <2>1 DEF Schemas
<1>7. IsDropped(s, q, p)
  BY <1>5, <1>6 DEF IsDropped, old, reentry, unsynced
<1> QED BY <1>7 DEF q

(* Its name joins those that are traced; no other table is called so.      *)
LEMMA DropTraces ==
    ASSUME NEW s \in Schemas, NEW q, NEW target, NEW p \in Version,
           Unambiguous(s), Follow(s, target), s.name[p] \in Name,
           \A o, t \in Version : s.name[o] = s.name[t] /\ IsEntry(s, o) => o = t,
           IsDropped(s, q, p)
    PROVE  Unambiguous(q) /\ Follow(q, target)
<1> DEFINE x == Record("dropped", p, s.name[p], NoName)
<1>1. /\ q \in Schemas /\ q.name = [s.name EXCEPT ![p] = NoName] /\ q.foreign = s.foreign
      /\ q.reentry = IF s.old[p] = NoName THEN <<x>> \o s.reentry ELSE s.reentry
  BY DEF IsDropped
<1>2. /\ x \in Records /\ x.old = s.name[p]
  BY DEF Record, Records
<1> HIDE DEF x
<1>3. s.name \in [Version -> Name \cup {NoName}] /\ NoName \notin Name
  BY Fields, NameAssumption
<1>4. \A o \in Version : IsEntry(q, o) => IsEntry(s, o) /\ o # p /\ q.name[o] = s.name[o]
  BY <1>1, <1>3 DEF IsEntry
<1>5. \A o \in Version : IsEntry(s, o) /\ o # p => s.name[o] # x.old
  BY <1>2
<1>6. CASE s.old[p] = NoName
  <2>1. ~IsTraced(s, x.old)
    BY <1>2, <1>3 DEF Unambiguous, IsEntry
  <2>2. Recorded(s, q, x)
    <3>1. q.reentry = <<x>> \o s.reentry
      BY <1>1, <1>6
    <3> QED BY <1>1, <1>2, <2>1, <3>1, RecordInFront
  <2>3. Unambiguous(q)
    BY <1>4, <1>5, <2>2 DEF Unambiguous, Recorded
  <2>4. ASSUME NEW o \in Version, NEW t \in Version,
               IsEntry(q, o), IsEntry(q, t), target[o] = t
        PROVE  Leads(q, q.foreign[o], t)
    <3> DEFINE f == s.foreign[o]
    <3> SUFFICES Leads(q, f, t)
      BY <1>1
    <3>1. Leads(s, f, t) /\ q.name[t] = s.name[t] /\ s.name[t] # x.old
      BY <1>4, <1>5, <2>4 DEF Follow
    <3> HIDE DEF f
    <3>2. CASE ~IsTraced(s, f) /\ f = s.name[t]
      BY <2>2, <3>1, <3>2 DEF Leads, Recorded
    <3>3. CASE \E i \in DOMAIN s.reentry :
                  s.reentry[i].old = f /\ s.reentry[i].kind = "renamed" /\ s.reentry[i].table = t
      BY <2>2, <3>3 DEF Leads, Recorded
    <3> QED BY <3>1, <3>2, <3>3 DEF Leads
  <2> QED BY <2>3, <2>4 DEF Follow
<1>7. CASE s.old[p] # NoName
  <2>1. q.reentry = s.reentry
    BY <1>1, <1>7
  <2>2. \A n : IsTraced(q, n) <=> IsTraced(s, n)
    BY <2>1 DEF IsTraced, Hits
  <2>3. Unambiguous(q)
    BY <1>4, <2>1, <2>2 DEF Unambiguous
  <2>4. ASSUME NEW o \in Version, NEW t \in Version,
               IsEntry(q, o), IsEntry(q, t), target[o] = t
        PROVE  Leads(q, q.foreign[o], t)
    <3>1. Leads(s, s.foreign[o], t) /\ q.foreign[o] = s.foreign[o] /\ q.name[t] = s.name[t]
      BY <1>1, <1>4, <2>4 DEF Follow
    <3> QED BY <2>1, <2>2, <3>1 DEF Leads
  <2> QED BY <2>3, <2>4 DEF Follow
<1> QED BY <1>6, <1>7

(* The database will be told the name that it knows the table by.          *)
LEMMA DropPends ==
    ASSUME NEW s \in Schemas, NEW q, NEW p \in Version,
           IsDropped(s, q, p), s.name[p] \in Name, NEW v, Pending(s, v), p <= v
    PROVE  Pending(q, v) /\ \A named : Told(s, named) => Told(q, named)
<1> DEFINE first == p \in s.created /\ p \notin Range(s.unsynced)
<1>1. /\ q \in Schemas /\ q.created = s.created
      /\ q.name = [s.name EXCEPT ![p] = NoName]
      /\ q.old = [s.old EXCEPT ![p] = IF s.old[p] = NoName THEN s.name[p] ELSE s.old[p]]
      /\ q.unsynced = IF first THEN <<p>> \o s.unsynced ELSE s.unsynced
  BY DEF IsDropped
<1>2. /\ s.name \in [Version -> Name \cup {NoName}] /\ NoName \notin Name
      /\ s.old \in [Version -> Name \cup {NoName}]
  BY Fields, NameAssumption
<1>3. \A o \in Version :
         /\ q.name[o] = IF o = p THEN NoName ELSE s.name[o]
         /\ q.old[o] = IF o = p /\ s.old[p] = NoName THEN s.name[p] ELSE s.old[o]
  BY <1>1, <1>2
<1>4. /\ Range(q.unsynced) = IF first THEN Range(s.unsynced) \cup {p} ELSE Range(s.unsynced)
      /\ \A i, j \in DOMAIN q.unsynced : q.unsynced[i] = q.unsynced[j] => i = j
  <2>1. CASE first
    <3>1. p \notin Range(s.unsynced) /\ q.unsynced = <<p>> \o s.unsynced /\ NoneTwice(s)
      BY <1>1, <2>1 DEF Pending, NoneTwice
    <3>2. Unsynced(s, q, p)
      BY <1>1, <3>1, UnsyncedInFront
    <3> QED BY <2>1, <3>2 DEF Unsynced, NoneTwice
  <2>2. CASE ~first
    BY <1>1, <2>2 DEF Pending
  <2> QED BY <2>1, <2>2
<1>5. p \in Range(q.unsynced)
  <2>1. p \in Range(s.unsynced) \/ p \in s.created
    BY <1>2 DEF Pending, IsEntry
  <2> QED BY <1>4, <2>1
<1>6. Pending(q, v)
  <2>1. ASSUME NEW o \in Version, IsEntry(q, o), o \notin q.created
        PROVE  o \in Range(q.unsynced) /\ q.old[o] = NoName
    <3>1. IsEntry(s, o) /\ o \notin s.created /\ o # p
      BY <1>1, <1>2, <1>3, <2>1 DEF IsEntry
    <3>2. o \in Range(s.unsynced) /\ s.old[o] = NoName
      BY <3>1 DEF Pending
    <3> QED BY <1>3, <1>4, <3>1, <3>2
  <2>2. ASSUME NEW o \in Version, q.old[o] # NoName PROVE o \in Range(q.unsynced)
    BY <1>3, <1>4, <1>5, <2>2 DEF Pending
  <2>3. \A o \in Range(q.unsynced) : o <= v
    BY <1>4 DEF Pending
  <2> QED BY <1>4, <2>1, <2>2, <2>3 DEF Pending
<1>7. ASSUME NEW named, Told(s, named) PROVE Told(q, named)
  <2>1. \A o \in Version : o \in q.created <=> \E m \in Name : named[m] = o
    BY <1>1, <1>7 DEF Told
  <2>2. ASSUME NEW m \in Name, NEW o \in Version, named[m] = o
        PROVE  \/ o \in Range(q.unsynced) /\ q.old[o] = m
               \/ o \notin Range(q.unsynced) /\ q.old[o] = NoName /\ q.name[o] = m
    <3>1. /\ o \in s.created
          /\ \/ o \in Range(s.unsynced) /\ s.old[o] = m
             \/ o \notin Range(s.unsynced) /\ s.old[o] = NoName /\ s.name[o] = m
      BY <1>7, <2>2 DEF Told
    <3> QED BY <1>2, <1>3, <1>4, <1>5, <3>1
  <2> QED BY <2>1, <2>2 DEF Told
<1> QED BY <1>6, <1>7

-----------------------------------------------------------------------------
(* Adding a table.                                                         *)

(* The fields of the schema q to which table p, called n, is added, given  *)
(* the schema r in which that name was reused.                             *)
IsAdded(s, r, q, p, n, f) ==
    /\ q \in Schemas
    /\ q.version = s.version
    /\ q.name = [s.name EXCEPT ![p] = n]
    /\ q.old = s.old
    /\ q.created = s.created
    /\ q.foreign = [r.foreign EXCEPT ![p] = f]
    /\ q.reentry = r.reentry
    /\ q.unsynced = <<p>> \o s.unsynced

LEMMA AddFields ==
    ASSUME NEW s \in Schemas, NEW target, NEW p \in Version, NEW c \in Change,
           Unambiguous(s), Follow(s, target), c.name \in Name,
           \A o \in Version : s.name[o] # c.name
    PROVE  IsAdded(s, ReuseName(s, c.name), Add(s, p, c), p, c.name, c.foreign)
<1> DEFINE r == ReuseName(s, c.name)
           q == Add(s, p, c)
           unsynced == <<p>> \o s.unsynced
<1>1. /\ r \in Schemas /\ r.version = s.version /\ r.name = s.name /\ r.old = s.old
      /\ r.created = s.created /\ r.unsynced = s.unsynced
  BY ReuseNameKeeps
<1>2. q = [r EXCEPT !.name[p] = c.name, !.foreign[p] = c.foreign, !.unsynced = unsynced]
  BY <1>1 DEF Add, AddUnsynced
<1>3. unsynced \in Seq(Version)
  BY Fields, Prepended
<1>4. c.foreign \in Name \cup {NoName}
  BY DEF Change
<1> HIDE DEF r, q, unsynced
<1>5. /\ q.version = r.version /\ q.name = [r.name EXCEPT ![p] = c.name] /\ q.old = r.old
      /\ q.created = r.created /\ q.foreign = [r.foreign EXCEPT ![p] = c.foreign]
      /\ q.reentry = r.reentry /\ q.unsynced = unsynced
  BY <1>1, <1>2 DEF Schemas
<1>6. q \in Schemas
  <2>1. /\ [r.name EXCEPT ![p] = c.name] \in [Version -> Name \cup {NoName}]
        /\ [r.foreign EXCEPT ![p] = c.foreign] \in [Version -> Name \cup {NoName}]
    BY <1>1, <1>4, Fields
  <2> QED BY <1>1, <1>2, <1>3, <2>1 DEF Schemas
<1>7. IsAdded(s, r, q, p, c.name, c.foreign)
  BY <1>1, <1>5, <1>6 DEF IsAdded, unsynced
<1> QED BY <1>7 DEF r, q

(* The foreign key f of the new table p names a table of today, or the     *)
(* table itself, and no older foreign key was declared against it.         *)
NewTarget(s, target, p, n, f) ==
    /\ \A o \in Version : s.name[o] # n
    /\ s.name[p] = NoName
    /\ \A o \in Version : IsEntry(s, o) => target[o] # p
    /\ \A t \in Version : target[p] = t =>
          \/ t = p /\ f = n
          \/ t # p /\ (IsEntry(s, t) => s.name[t] = f)

(* So it needs no tracing.                                                 *)
LEMMA AddTraces ==
    ASSUME NEW s \in Schemas, NEW q, NEW target, NEW p \in Version, NEW n \in Name,
           NEW f \in Name \cup {NoName},
           Unambiguous(s), Follow(s, target), NewTarget(s, target, p, n, f),
           IsAdded(s, ReuseName(s, n), q, p, n, f)
    PROVE  Unambiguous(q) /\ Follow(q, target)
<1> DEFINE r == ReuseName(s, n)
<1>1. /\ r \in Schemas /\ r.name = s.name /\ Unambiguous(r) /\ Follow(r, target)
      /\ ~IsTraced(r, n)
  BY ReuseNameKeeps
<1>2. /\ q \in Schemas /\ q.name = [s.name EXCEPT ![p] = n]
      /\ q.foreign = [r.foreign EXCEPT ![p] = f] /\ q.reentry = r.reentry
  BY DEF IsAdded
<1> HIDE DEF r
<1>3. /\ s.name \in [Version -> Name \cup {NoName}] /\ NoName \notin Name
      /\ r.foreign \in [Version -> Name \cup {NoName}]
  BY <1>1, Fields, NameAssumption
<1>4. \A o \in Version :
         /\ q.name[o] = IF o = p THEN n ELSE s.name[o]
         /\ q.foreign[o] = IF o = p THEN f ELSE r.foreign[o]
         /\ IsEntry(q, o) <=> o = p \/ IsEntry(s, o)
         /\ IsEntry(r, o) <=> IsEntry(s, o)
  BY <1>1, <1>2, <1>3 DEF IsEntry
<1>5. \A m : IsTraced(q, m) <=> IsTraced(r, m)
  BY <1>2 DEF IsTraced, Hits
<1>6. \A o \in Version : IsEntry(s, o) => ~IsTraced(r, s.name[o])
  BY <1>1, <1>4 DEF Unambiguous
<1>7. Unambiguous(q)
  <2>1. \A o \in Version : IsEntry(q, o) => ~IsTraced(q, q.name[o])
    BY <1>1, <1>4, <1>5, <1>6 DEF NewTarget
  <2>2. \A i, j \in DOMAIN q.reentry : q.reentry[i].old = q.reentry[j].old => i = j
    BY <1>1, <1>2 DEF Unambiguous
  <2> QED BY <2>1, <2>2 DEF Unambiguous
<1>8. ASSUME NEW o \in Version, NEW t \in Version,
             IsEntry(q, o), IsEntry(q, t), target[o] = t
      PROVE  Leads(q, q.foreign[o], t)
  <2>1. CASE o = p
    <3>1. q.foreign[o] = f
      BY <1>4, <2>1
    <3>2. f = q.name[t] /\ ~IsTraced(r, f)
      BY <1>1, <1>4, <1>6, <1>8, <2>1 DEF NewTarget
    <3> QED BY <1>5, <3>1, <3>2 DEF Leads
  <2>2. CASE o # p
    <3>1. IsEntry(s, o) /\ t # p /\ IsEntry(s, t)
      BY <1>4, <1>8, <2>2 DEF NewTarget
    <3>2. Leads(r, r.foreign[o], t)
      BY <1>1, <1>4, <1>8, <3>1 DEF Follow
    <3>3. q.foreign[o] = r.foreign[o] /\ q.name[t] = r.name[t]
      BY <1>1, <1>4, <2>2, <3>1
    <3> QED BY <1>2, <1>5, <3>2, <3>3 DEF Leads
  <2> QED BY <2>1, <2>2
<1> QED BY <1>7, <1>8 DEF Follow

(* The database has never seen the new table.                              *)
LEMMA AddPends ==
    ASSUME NEW s \in Schemas, NEW r, NEW q, NEW p \in Version, NEW n \in Name, NEW f,
           IsAdded(s, r, q, p, n, f), s.name[p] = NoName,
           NEW u \in Nat, NEW v \in Nat, u < v, Pending(s, u), p = v
    PROVE  /\ Pending(q, v)
           /\ \A named : Told(s, named) /\ p \notin s.created => Told(q, named)
<1>1. /\ q \in Schemas /\ q.created = s.created /\ q.old = s.old
      /\ q.name = [s.name EXCEPT ![p] = n] /\ q.unsynced = <<p>> \o s.unsynced
  BY DEF IsAdded
<1>2. /\ s.name \in [Version -> Name \cup {NoName}] /\ NoName \notin Name
      /\ s.old \in [Version -> Name \cup {NoName}]
      /\ Range(s.unsynced) \subseteq Version
  BY Fields, NameAssumption
<1>3. \A o \in Version : q.name[o] = IF o = p THEN n ELSE s.name[o]
  BY <1>1, <1>2
<1>4. \A o \in Range(s.unsynced) : o \in Int /\ o <= u
  BY <1>2 DEF Pending, Version
<1>5. p \notin Range(s.unsynced) /\ s.old[p] = NoName
  <2>1. p \notin Range(s.unsynced)
    BY <1>4
  <2> QED BY <2>1 DEF Pending
<1>6. Range(q.unsynced) = Range(s.unsynced) \cup {p} /\ NoneTwice(q)
  <2>1. NoneTwice(s)
    BY DEF Pending, NoneTwice
  <2>2. Unsynced(s, q, p)
    BY <1>1, <1>5, <2>1, UnsyncedInFront
  <2> QED BY <2>2 DEF Unsynced
<1>7. Pending(q, v)
  <2>1. ASSUME NEW o \in Version, IsEntry(q, o), o \notin q.created
        PROVE  o \in Range(q.unsynced) /\ q.old[o] = NoName
    <3>1. CASE o = p
      BY <1>1, <1>5, <1>6, <3>1
    <3>2. CASE o # p
      <4>1. IsEntry(s, o) /\ o \notin s.created
        BY <1>1, <1>3, <2>1, <3>2 DEF IsEntry
      <4> QED BY <1>1, <1>6, <4>1 DEF Pending
    <3> QED BY <3>1, <3>2
  <2>2. \A o \in Version : q.old[o] # NoName => o \in Range(q.unsynced)
    BY <1>1, <1>6 DEF Pending
  <2>3. \A o \in Range(q.unsynced) : o <= v
    BY <1>4, <1>6
  <2> QED BY <1>6, <2>1, <2>2, <2>3 DEF Pending, NoneTwice
<1>8. ASSUME NEW named, Told(s, named), p \notin s.created PROVE Told(q, named)
  <2>1. \A o \in Version : o \in q.created <=> \E m \in Name : named[m] = o
    BY <1>1, <1>8 DEF Told
  <2>2. ASSUME NEW m \in Name, NEW o \in Version, named[m] = o
        PROVE  \/ o \in Range(q.unsynced) /\ q.old[o] = m
               \/ o \notin Range(q.unsynced) /\ q.old[o] = NoName /\ q.name[o] = m
    <3>1. o # p
      BY <1>1, <1>8, <2>1, <2>2
    <3>2. \/ o \in Range(s.unsynced) /\ s.old[o] = m
          \/ o \notin Range(s.unsynced) /\ s.old[o] = NoName /\ s.name[o] = m
      BY <1>8, <2>2 DEF Told
    <3> QED BY <1>1, <1>3, <1>6, <3>1, <3>2
  <2> QED BY <2>1, <2>2 DEF Told
<1> QED BY <1>7, <1>8

-----------------------------------------------------------------------------
(* Including the next migration.                                           *)

(* What is true of the schema s before the migration to version v, when    *)
(* the migrations before it mean the names named.                          *)
Before(s, v, named, target) ==
    /\ s \in Schemas /\ s.version = v - 1
    /\ named \in [Name -> 0 .. MaxVersion]
    /\ \A n \in Name : named[n] <= v - 1
    /\ \A o \in Version : target[o] \in Int /\ target[o] <= o
    /\ IsMeant(s, named)
    /\ Unambiguous(s)
    /\ Follow(s, target)
    /\ Pending(s, v - 1)

(* What is true of the schema q that it makes of s, when it means named.   *)
After(s, q, v, named, target) ==
    /\ q \in Schemas
    /\ q.created = s.created
    /\ IsMeant(q, named)
    /\ Unambiguous(q)
    /\ Follow(q, target)
    /\ Pending(q, v)
    /\ \A db : Told(s, db) /\ v \notin s.created => Told(q, db)

(* What follows: who is called what, and that version v is still unused.   *)
SoFar(s, v, named, target) ==
    /\ s.name \in [Version -> Name \cup {NoName}] /\ NoName \notin Name
    /\ \A o, t \in Version : s.name[o] = s.name[t] /\ IsEntry(s, o) => o = t
    /\ \A o \in Version : IsEntry(s, o) => o <= v - 1 /\ target[o] # v
    /\ s.name[v] = NoName
    /\ \A n \in Name : named[n] = NoTable <=> \A o \in Version : s.name[o] # n
    /\ v \in Nat /\ v - 1 \in Nat

LEMMA BeforeSoFar ==
    ASSUME NEW s, NEW v \in Version, NEW named, NEW target, Before(s, v, named, target)
    PROVE  SoFar(s, v, named, target)
<1>1. /\ s \in Schemas /\ IsMeant(s, named) /\ named \in [Name -> 0 .. MaxVersion]
      /\ \A n \in Name : named[n] <= v - 1
      /\ \A o \in Version : target[o] \in Int /\ target[o] <= o
  BY DEF Before
<1>2. s.name \in [Version -> Name \cup {NoName}] /\ NoName \notin Name
  BY <1>1, Fields, NameAssumption
<1>3. Version \subseteq Nat /\ MaxVersion \in Nat /\ \A o \in Version : o >= 1 /\ o <= MaxVersion
  BY VersionAssumption DEF Version
<1>4. \A o \in Version : IsEntry(s, o) => s.name[o] \in Name /\ named[s.name[o]] = o
  BY <1>1, <1>2 DEF IsEntry, IsMeant
<1>5. \A o, t \in Version : s.name[o] = s.name[t] /\ IsEntry(s, o) => o = t
  BY <1>4 DEF IsEntry
<1>6. ASSUME NEW o \in Version, IsEntry(s, o) PROVE o <= v - 1 /\ target[o] # v
  <2>1. o <= v - 1
    BY <1>1, <1>4, <1>6
  <2>2. target[o] \in Int /\ target[o] <= o
    BY <1>1
  <2> QED BY <1>3, <2>1, <2>2
<1>7. s.name[v] = NoName
  <2>1. ~(v <= v - 1)
    BY <1>3
  <2> QED BY <1>6, <2>1 DEF IsEntry
<1>8. ASSUME NEW n \in Name
      PROVE  named[n] = NoTable <=> \A o \in Version : s.name[o] # n
  <2>1. \A o \in Version : s.name[o] = n <=> named[n] = o
    BY <1>1 DEF IsMeant
  <2>2. named[n] = NoTable \/ named[n] \in Version
    BY <1>1 DEF Version, NoTable
  <2>3. NoTable \notin Version
    BY DEF Version, NoTable
  <2> QED BY <2>1, <2>2, <2>3
<1>9. v \in Nat /\ v - 1 \in Nat
  BY <1>3
<1> QED BY <1>2, <1>5, <1>6, <1>7, <1>8, <1>9, Zenon DEF SoFar

LEMMA AddIncluded ==
    ASSUME NEW s, NEW v \in Version, NEW c \in Change, NEW named, NEW target,
           Before(s, v, named, target), Legal(named, c),
           c.do = "add", named[c.name] = NoTable, c.name \in Name,
           target[v] = IF c.foreign = NoName THEN NoTable ELSE Meant(named, v, c)[c.foreign]
    PROVE  After(s, Add(s, v, c), v, Meant(named, v, c), target)
<1> DEFINE q == Add(s, v, c)
           n == c.name
           f == c.foreign
           meant == Meant(named, v, c)
<1>1. /\ s \in Schemas /\ IsMeant(s, named) /\ named \in [Name -> 0 .. MaxVersion]
      /\ \A m \in Name : named[m] <= v - 1
      /\ Unambiguous(s) /\ Follow(s, target) /\ Pending(s, v - 1)
  BY DEF Before
<1>2. /\ s.name \in [Version -> Name \cup {NoName}] /\ NoName \notin Name
      /\ \A o \in Version : IsEntry(s, o) => o <= v - 1 /\ target[o] # v
      /\ s.name[v] = NoName
      /\ \A m \in Name : named[m] = NoTable <=> \A o \in Version : s.name[o] # m
      /\ v \in Nat /\ v - 1 \in Nat
  <2>1. SoFar(s, v, named, target)
    BY BeforeSoFar
  <2> QED BY <2>1 DEF SoFar
<1>3. meant = [named EXCEPT ![n] = v]
  BY DEF Meant
<1>4. IsAdded(s, ReuseName(s, n), q, v, n, f)
  BY <1>1, <1>2, AddFields
<1> HIDE DEF q, meant
<1>5. q \in Schemas /\ q.created = s.created /\ q.name = [s.name EXCEPT ![v] = n]
  BY <1>4 DEF IsAdded
<1>6. IsMeant(q, meant)
  <2> SUFFICES ASSUME NEW m \in Name, NEW o \in Version
               PROVE  q.name[o] = m <=> meant[m] = o
    BY DEF IsMeant
  <2>1. s.name[o] = m <=> named[m] = o
    BY <1>1 DEF IsMeant
  <2>2. q.name[o] = IF o = v THEN n ELSE s.name[o]
    BY <1>2, <1>5
  <2>3. meant[m] = IF m = n THEN v ELSE named[m]
    BY <1>1, <1>3
  <2>4. named[m] # v
    BY <1>1, <1>2
  <2>5. s.name[o] # n
    BY <1>2
  <2> QED BY <2>1, <2>2, <2>3, <2>4, <2>5
<1>7. Unambiguous(q) /\ Follow(q, target)
  <2>1. f \in Name \cup {NoName}
    BY DEF Change
  <2>2. ASSUME NEW t \in Version, target[v] = t
        PROVE  \/ t = v /\ f = n
               \/ t # v /\ (IsEntry(s, t) => s.name[t] = f)
    <3>1. f # NoName /\ t = meant[f] /\ f \in Name
      BY <2>1, <2>2 DEF NoTable, Version, meant
    <3>2. CASE f = n
      BY <1>1, <1>3, <3>1, <3>2
    <3>3. CASE f # n
      <4>1. named[f] = t
        BY <1>1, <1>3, <3>1, <3>3
      <4>2. s.name[t] = f /\ t # v
        BY <1>1, <1>2, <3>1, <4>1 DEF IsMeant
      <4> QED BY <4>2
    <3> QED BY <3>2, <3>3
  <2>3. \A o \in Version : s.name[o] # n
    BY <1>2
  <2>4. NewTarget(s, target, v, n, f)
    BY <1>2, <2>2, <2>3 DEF NewTarget
  <2> QED BY <1>1, <1>4, <2>1, <2>4, AddTraces
<1>8. Pending(q, v) /\ \A db : Told(s, db) /\ v \notin s.created => Told(q, db)
  <2>1. v - 1 < v
    BY <1>2
  <2> QED BY <1>1, <1>2, <1>4, <2>1, AddPends
<1>9. After(s, q, v, meant, target)
  BY <1>5, <1>6, <1>7, <1>8 DEF After
<1> QED BY <1>9 DEF q, meant

LEMMA DropIncluded ==
    ASSUME NEW s, NEW v \in Version, NEW c \in Change, NEW named, NEW target,
           Before(s, v, named, target),
           c.do = "drop", c.old \in Name, NEW p \in Version, s.name[p] = c.old
    PROVE  After(s, Drop(s, p), v, Meant(named, v, c), target)
<1> DEFINE q == Drop(s, p)
           meant == Meant(named, v, c)
<1>1. /\ s \in Schemas /\ IsMeant(s, named) /\ named \in [Name -> 0 .. MaxVersion]
      /\ Unambiguous(s) /\ Follow(s, target) /\ Pending(s, v - 1)
  BY DEF Before
<1>2. /\ s.name \in [Version -> Name \cup {NoName}] /\ NoName \notin Name
      /\ \A o, t \in Version : s.name[o] = s.name[t] /\ IsEntry(s, o) => o = t
      /\ \A o \in Version : IsEntry(s, o) => o <= v - 1
      /\ v \in Nat /\ v - 1 \in Nat
  <2>1. SoFar(s, v, named, target)
    BY BeforeSoFar
  <2> QED BY <2>1 DEF SoFar
<1>3. meant = [named EXCEPT ![c.old] = NoTable]
  BY DEF Meant
<1>4. IsDropped(s, q, p)
  BY <1>1, DropFields
<1> HIDE DEF q, meant
<1>5. q \in Schemas /\ q.created = s.created /\ q.name = [s.name EXCEPT ![p] = NoName]
  BY <1>4 DEF IsDropped
<1>6. IsMeant(q, meant)
  <2> SUFFICES ASSUME NEW m \in Name, NEW o \in Version
               PROVE  q.name[o] = m <=> meant[m] = o
    BY DEF IsMeant
  <2>1. s.name[o] = m <=> named[m] = o
    BY <1>1 DEF IsMeant
  <2>2. q.name[o] = IF o = p THEN NoName ELSE s.name[o]
    BY <1>2, <1>5
  <2>3. meant[m] = IF m = c.old THEN NoTable ELSE named[m]
    BY <1>1, <1>3
  <2>4. NoTable \notin Version
    BY DEF NoTable, Version
  <2>5. s.name[o] = c.old <=> o = p
    BY <1>2 DEF IsEntry
  <2> QED BY <1>2, <2>1, <2>2, <2>3, <2>4, <2>5
<1>7. Unambiguous(q) /\ Follow(q, target)
  BY <1>1, <1>2, <1>4, DropTraces
<1>8. Pending(q, v) /\ \A db : Told(s, db) => Told(q, db)
  <2>1. p <= v - 1
    BY <1>2 DEF IsEntry
  <2>2. Pending(q, v - 1) /\ \A db : Told(s, db) => Told(q, db)
    BY <1>1, <1>4, <2>1, DropPends
  <2>3. \A o \in Range(q.unsynced) : o \in Int
    BY <1>5, Fields DEF Version
  <2> QED BY <1>2, <2>2, <2>3 DEF Pending
<1>9. After(s, q, v, meant, target)
  BY <1>5, <1>6, <1>7, <1>8 DEF After
<1> QED BY <1>9 DEF q, meant

LEMMA RenameIncluded ==
    ASSUME NEW s, NEW v \in Version, NEW c \in Change, NEW named, NEW target,
           Before(s, v, named, target),
           c.do = "rename", c.old \in Name, c.name \in Name, c.old # c.name,
           named[c.name] = NoTable, NEW p \in Version, s.name[p] = c.old
    PROVE  After(s, Rename(s, p, c.name), v, Meant(named, v, c), target)
<1> DEFINE n == c.name
           q == Rename(s, p, n)
           meant == Meant(named, v, c)
<1>1. /\ s \in Schemas /\ IsMeant(s, named) /\ named \in [Name -> 0 .. MaxVersion]
      /\ Unambiguous(s) /\ Follow(s, target) /\ Pending(s, v - 1)
  BY DEF Before
<1>2. /\ s.name \in [Version -> Name \cup {NoName}] /\ NoName \notin Name
      /\ \A o, t \in Version : s.name[o] = s.name[t] /\ IsEntry(s, o) => o = t
      /\ \A o \in Version : IsEntry(s, o) => o <= v - 1
      /\ \A o \in Version : s.name[o] # n
      /\ v \in Nat /\ v - 1 \in Nat
  <2>1. SoFar(s, v, named, target)
    BY BeforeSoFar
  <2> QED BY <2>1 DEF SoFar
<1>3. named[c.old] = p /\ NoTable \notin Version
  BY <1>1 DEF IsMeant, NoTable, Version
<1>4. meant = [named EXCEPT ![n] = p, ![c.old] = NoTable]
  BY <1>3 DEF Meant
<1>5. IsRenamed(s, ReuseName(s, n), q, p, n)
  BY <1>1, RenameFields
<1>6. Unambiguous(q) /\ Follow(q, target)
  BY <1>1, <1>2, RenameTraces
<1> HIDE DEF q, meant
<1>7. q \in Schemas /\ q.created = s.created /\ q.name = [s.name EXCEPT ![p] = n]
  BY <1>5 DEF IsRenamed
<1>8. IsMeant(q, meant)
  <2> SUFFICES ASSUME NEW m \in Name, NEW o \in Version
               PROVE  q.name[o] = m <=> meant[m] = o
    BY DEF IsMeant
  <2>1. s.name[o] = m <=> named[m] = o
    BY <1>1 DEF IsMeant
  <2>2. q.name[o] = IF o = p THEN n ELSE s.name[o]
    BY <1>2, <1>7
  <2>3. meant[m] = IF m = c.old THEN NoTable ELSE IF m = n THEN p ELSE named[m]
    BY <1>1, <1>4
  <2>4. s.name[o] = c.old <=> o = p
    BY <1>2 DEF IsEntry
  <2> QED BY <1>2, <1>3, <2>1, <2>2, <2>3, <2>4
<1>9. Pending(q, v) /\ \A db : Told(s, db) => Told(q, db)
  <2>1. p <= v - 1
    BY <1>2 DEF IsEntry
  <2>2. Pending(q, v - 1) /\ \A db : Told(s, db) => Told(q, db)
    BY <1>1, <1>5, <2>1, RenamePends
  <2>3. \A o \in Range(q.unsynced) : o \in Int
    BY <1>7, Fields DEF Version
  <2> QED BY <1>2, <2>2, <2>3 DEF Pending
<1>10. After(s, q, v, meant, target)
  BY <1>6, <1>7, <1>8, <1>9 DEF After
<1> QED BY <1>10 DEF q, meant

(* A change that finds no table, or its name taken, is passed over, and    *)
(* means nothing.                                                          *)
LEMMA PassedOver ==
    ASSUME NEW s, NEW v \in Version, NEW named, NEW target, Before(s, v, named, target)
    PROVE  After(s, s, v, named, target)
<1>1. /\ s \in Schemas /\ IsMeant(s, named)
      /\ Unambiguous(s) /\ Follow(s, target) /\ Pending(s, v - 1)
  BY DEF Before
<1>2. /\ v \in Nat /\ v - 1 \in Nat
  <2>1. SoFar(s, v, named, target)
    BY BeforeSoFar
  <2> QED BY <2>1 DEF SoFar
<1>3. Pending(s, v)
  <2>1. \A o \in Range(s.unsynced) : o \in Int
    BY <1>1, Fields DEF Version
  <2> QED BY <1>1, <1>2, <2>1 DEF Pending
<1> QED BY <1>1, <1>3 DEF After

LEMMA Applied ==
    ASSUME NEW s, NEW v \in Version, NEW c \in Change, NEW named, NEW target,
           Before(s, v, named, target), Legal(named, c),
           target[v] = IF c.foreign = NoName THEN NoTable ELSE Meant(named, v, c)[c.foreign]
    PROVE  After(s, Apply(s, v, c), v, Meant(named, v, c), target)
<1>1. /\ s \in Schemas /\ IsMeant(s, named) /\ named \in [Name -> 0 .. MaxVersion]
  BY DEF Before
<1>2. /\ s.name \in [Version -> Name \cup {NoName}] /\ NoName \notin Name
      /\ \A o, t \in Version : s.name[o] = s.name[t] /\ IsEntry(s, o) => o = t
      /\ \A n \in Name : named[n] = NoTable <=> \A o \in Version : s.name[o] # n
  <2>1. SoFar(s, v, named, target)
    BY BeforeSoFar
  <2> QED BY <2>1 DEF SoFar
<1>3. CASE c.do = "add"
  <2>1. Apply(s, v, c) = Add(s, v, c) /\ c.name \in Name
    BY <1>3 DEF Apply, Legal
  <2>2. CASE named[c.name] = NoTable
    <3>1. After(s, Add(s, v, c), v, Meant(named, v, c), target)
      BY <1>3, <2>1, <2>2, AddIncluded
    <3> QED BY <2>1, <3>1
  <2>3. CASE named[c.name] # NoTable
    <3>1. Add(s, v, c) = s
      BY <1>2, <2>1, <2>3 DEF Add
    <3>2. Meant(named, v, c) = named
      BY <1>3, <2>3 DEF Meant
    <3> QED BY <2>1, <3>1, <3>2, PassedOver
  <2> QED BY <2>2, <2>3
<1>4. CASE c.do \in {"drop", "rename"}
  <2>1. c.old \in Name
    BY <1>4 DEF Legal
  <2>2. CASE \A o \in Version : s.name[o] # c.old
    <3>1. Apply(s, v, c) = s
      BY <1>4, <2>2 DEF Apply
    <3>2. named[c.old] = NoTable
      BY <1>2, <2>1, <2>2
    <3>3. Meant(named, v, c) = named
      BY <1>1, <1>4, <2>1, <3>2 DEF Meant
    <3> QED BY <3>1, <3>3, PassedOver
  <2>3. CASE \E o \in Version : s.name[o] = c.old
    <3> DEFINE p == CHOOSE o \in Version : s.name[o] = c.old
    <3>1. p \in Version /\ s.name[p] = c.old
      BY <2>3
    <3>2. CASE c.do = "drop"
      <4>1. Apply(s, v, c) = Drop(s, p)
        BY <2>3, <3>2 DEF Apply
      <4> HIDE DEF p
      <4>2. After(s, Drop(s, p), v, Meant(named, v, c), target)
        BY <2>1, <3>1, <3>2, DropIncluded
      <4> QED BY <4>1, <4>2
    <3>3. CASE c.do = "rename"
      <4>1. Apply(s, v, c) = Rename(s, p, c.name)
        BY <2>3, <3>3 DEF Apply
      <4> HIDE DEF p
      <4>2. c.name \in Name /\ c.old # c.name /\ named[c.name] = NoTable
        BY <3>3 DEF Legal
      <4>3. After(s, Rename(s, p, c.name), v, Meant(named, v, c), target)
        BY <2>1, <3>1, <3>3, <4>2, RenameIncluded
      <4> QED BY <4>1, <4>3
    <3> QED BY <1>4, <3>2, <3>3
  <2> QED BY <2>2, <2>3
<1>5. c.do \in {"add", "drop", "rename"}
  BY DEF Legal
<1> QED BY <1>3, <1>4, <1>5

(* The version is written last.                                            *)
LEMMA IncludedAfter ==
    ASSUME NEW s, NEW v \in Version, NEW c \in Change, NEW named, NEW target,
           Before(s, v, named, target), Legal(named, c),
           target[v] = IF c.foreign = NoName THEN NoTable ELSE Meant(named, v, c)[c.foreign]
    PROVE  /\ After(s, Included(s, v, c), v, Meant(named, v, c), target)
           /\ Included(s, v, c).version = v
<1> DEFINE r == Apply(s, v, c)
           q == Included(s, v, c)
           meant == Meant(named, v, c)
<1>1. After(s, r, v, meant, target)
  BY Applied
<1>2. q = [r EXCEPT !.version = v]
  BY DEF Included
<1>3. v \in 0 .. MaxVersion
  BY VersionAssumption DEF Version
<1> HIDE DEF r, q, meant
<1>4. r \in Schemas
  BY <1>1 DEF After
<1>5. q \in Schemas
  BY <1>2, <1>3, <1>4 DEF Schemas
<1>6. /\ q.version = v /\ q.name = r.name /\ q.old = r.old /\ q.created = r.created
      /\ q.foreign = r.foreign /\ q.unsynced = r.unsynced /\ q.reentry = r.reentry
  BY <1>2, <1>4 DEF Schemas
<1>7. \A n : IsTraced(q, n) <=> IsTraced(r, n)
  BY <1>6 DEF IsTraced, Hits
<1>8. \A o : IsEntry(q, o) <=> IsEntry(r, o)
  BY <1>6 DEF IsEntry
<1>9. IsMeant(q, meant)
  BY <1>1, <1>6 DEF After, IsMeant
<1>10. Unambiguous(q)
  <2>1. Unambiguous(r)
    BY <1>1 DEF After
  <2> QED BY <1>6, <1>7, <1>8, <2>1 DEF Unambiguous
<1>11. Follow(q, target)
  <2>1. Follow(r, target)
    BY <1>1 DEF After
  <2>2. \A f, t : Leads(q, f, t) <=> Leads(r, f, t)
    BY <1>6, <1>7 DEF Leads
  <2> QED BY <1>6, <1>8, <2>1, <2>2 DEF Follow
<1>12. Pending(q, v)
  <2>1. Pending(r, v)
    BY <1>1 DEF After
  <2> QED BY <1>6, <1>8, <2>1 DEF Pending
<1>13. \A db : Told(q, db) <=> Told(r, db)
  BY <1>6 DEF Told
<1>14. After(s, q, v, meant, target)
  BY <1>1, <1>5, <1>6, <1>9, <1>10, <1>11, <1>12, <1>13 DEF After
<1> QED BY <1>6, <1>14 DEF q, meant

-----------------------------------------------------------------------------
(* Tracing and erasing at the synchronization.                             *)

(* Once all is traced and erased, the database knows what is meant and     *)
(* nothing is on record.                                                   *)
IsErased(s, q, named, target) ==
    /\ q \in Schemas /\ q.version = s.version
    /\ IsMeant(q, named) /\ Unambiguous(q) /\ Follow(q, target)
    /\ \A v : Pending(q, v)
    /\ Told(q, named)

LEMMA ErasedAfter ==
    ASSUME NEW s \in Schemas, NEW named, NEW target,
           IsMeant(s, named), Unambiguous(s), Follow(s, target)
    PROVE  IsErased(s, EraseRecords(TraceName(s)), named, target)
<1> DEFINE r == TraceName(s)
           q == EraseRecords(r)
<1>1. /\ r \in Schemas /\ r.version = s.version /\ r.name = s.name
      /\ \A o, t \in Version :
            IsEntry(s, o) /\ IsEntry(s, t) /\ target[o] = t => r.foreign[o] = s.name[t]
  BY TraceNameKeeps
<1> HIDE DEF r
<1>2. q = [r EXCEPT !.reentry = <<>>, !.unsynced = <<>>, !.old = NoNames, !.created = Entries(r)]
  BY DEF EraseRecords
<1>3. /\ <<>> \in Seq(Records) /\ <<>> \in Seq(Version) /\ Entries(r) \subseteq Version
      /\ NoNames \in [Version -> Name \cup {NoName}]
  BY DEF Entries, NoNames
<1> HIDE DEF q
<1>4. q \in Schemas
  BY <1>1, <1>2, <1>3 DEF Schemas
<1>5. /\ q.version = r.version /\ q.name = r.name /\ q.old = NoNames
      /\ q.created = Entries(r) /\ q.foreign = r.foreign
      /\ q.unsynced = <<>> /\ q.reentry = <<>>
  BY <1>1, <1>2 DEF Schemas
<1>6. \A n : ~IsTraced(q, n)
  BY <1>5 DEF IsTraced, Hits
<1>7. Range(q.unsynced) = {}
  BY <1>5 DEF Range
<1>8. \A o \in Version : q.old[o] = NoName /\ (o \in q.created <=> IsEntry(s, o))
  BY <1>1, <1>5 DEF NoNames, Entries, IsEntry
<1>9. IsMeant(q, named)
  BY <1>1, <1>5 DEF IsMeant
<1>10. Unambiguous(q)
  BY <1>5, <1>6 DEF Unambiguous
<1>11. Follow(q, target)
  BY <1>1, <1>5, <1>6 DEF Follow, Leads, IsEntry
<1>12. ASSUME NEW v PROVE Pending(q, v)
  BY <1>1, <1>5, <1>7, <1>8 DEF Pending, IsEntry
<1>13. Told(q, named)
  <2>1. s.name \in [Version -> Name \cup {NoName}] /\ NoName \notin Name
    BY Fields, NameAssumption
  <2>2. \A o \in Version : o \in q.created <=> \E n \in Name : named[n] = o
    BY <1>8, <2>1 DEF IsMeant, IsEntry
  <2>3. \A n \in Name, o \in Version : named[n] = o => q.name[o] = n
    BY <1>9 DEF IsMeant
  <2> QED BY <1>7, <1>8, <2>2, <2>3 DEF Told
<1>14. IsErased(s, q, named, target)
  BY <1>1, <1>4, <1>5, <1>9, <1>10, <1>11, <1>12, <1>13 DEF IsErased
<1> QED BY <1>14 DEF q, r

(* A program that starts has nothing on record.                            *)
LEMMA EmptyAtStart ==
    ASSUME NEW named, \A n \in Name : named[n] = NoTable, NEW target
    PROVE  /\ EmptySchema.version = 0 /\ EmptySchema.created = {}
           /\ IsErased(EmptySchema, EmptySchema, named, target)
<1>1. EmptySchema \in Schemas
  <2>1. NoNames \in [Version -> Name \cup {NoName}] /\ 0 \in 0 .. MaxVersion
        /\ <<>> \in Seq(Version) /\ <<>> \in Seq(Records)
    BY VersionAssumption DEF NoNames
  <2> QED BY <2>1 DEF EmptySchema, Schemas
<1>2. /\ EmptySchema.version = 0 /\ EmptySchema.created = {}
      /\ EmptySchema.name = NoNames /\ EmptySchema.old = NoNames
      /\ EmptySchema.unsynced = <<>> /\ EmptySchema.reentry = <<>>
  BY DEF EmptySchema
<1>3. /\ \A o \in Version : ~IsEntry(EmptySchema, o)
      /\ \A o \in Version : EmptySchema.old[o] = NoName
      /\ \A n \in Name, o \in Version : EmptySchema.name[o] # n
  BY <1>2, NameAssumption DEF NoNames, IsEntry
<1>4. /\ Range(EmptySchema.unsynced) = {}
      /\ DOMAIN EmptySchema.unsynced = {} /\ DOMAIN EmptySchema.reentry = {}
  BY <1>2 DEF Range
<1>5. \A n \in Name, o \in Version : named[n] # o
  BY DEF NoTable, Version
<1>6. IsMeant(EmptySchema, named)
  BY <1>3, <1>5 DEF IsMeant
<1>7. Unambiguous(EmptySchema) /\ Follow(EmptySchema, target)
  BY <1>3, <1>4 DEF Unambiguous, Follow
<1>8. ASSUME NEW v PROVE Pending(EmptySchema, v)
  BY <1>3, <1>4 DEF Pending
<1>9. Told(EmptySchema, named)
  BY <1>2, <1>3, <1>5 DEF Told
<1> QED BY <1>1, <1>2, <1>6, <1>7, <1>8, <1>9 DEF IsErased

-----------------------------------------------------------------------------
(* The invariant is inductive.                                             *)

LEMMA MeantType ==
    ASSUME NEW named \in [Name -> 0 .. MaxVersion], NEW v \in Version, NEW c \in Change,
           \A n \in Name : named[n] <= v - 1, Legal(named, c)
    PROVE  /\ Meant(named, v, c) \in [Name -> 0 .. MaxVersion]
           /\ \A n \in Name : Meant(named, v, c)[n] <= v
<1>1. v \in 0 .. MaxVersion /\ NoTable \in 0 .. MaxVersion /\ v \in Nat
      /\ \A n \in Name : named[n] \in Nat /\ named[n] <= v /\ NoTable <= v
  BY VersionAssumption DEF Version, NoTable
<1>2. CASE c.do = "add" /\ named[c.name] = NoTable
  <2>1. Meant(named, v, c) = [named EXCEPT ![c.name] = v]
    BY <1>2 DEF Meant
  <2>2. [named EXCEPT ![c.name] = v] \in [Name -> 0 .. MaxVersion]
    BY <1>1
  <2>3. \A n \in Name : [named EXCEPT ![c.name] = v][n] <= v
    BY <1>1
  <2> QED BY <2>1, <2>2, <2>3
<1>3. CASE c.do = "drop"
  <2>1. Meant(named, v, c) = [named EXCEPT ![c.old] = NoTable]
    BY <1>3 DEF Meant
  <2>2. [named EXCEPT ![c.old] = NoTable] \in [Name -> 0 .. MaxVersion]
    BY <1>1
  <2>3. \A n \in Name : [named EXCEPT ![c.old] = NoTable][n] <= v
    BY <1>1
  <2> QED BY <2>1, <2>2, <2>3
<1>4. CASE c.do = "rename" /\ named[c.old] # NoTable
  <2>1. Meant(named, v, c) = [named EXCEPT ![c.name] = named[c.old], ![c.old] = NoTable]
    BY <1>4 DEF Meant
  <2>2. c.old \in Name /\ c.name \in Name
    BY <1>4 DEF Legal
  <2>3. named[c.old] \in 0 .. MaxVersion /\ named[c.old] <= v
    BY <1>1, <2>2
  <2> QED BY <1>1, <2>1, <2>3
<1>5. CASE /\ ~(c.do = "add" /\ named[c.name] = NoTable)
           /\ c.do # "drop"
           /\ ~(c.do = "rename" /\ named[c.old] # NoTable)
  <2>1. Meant(named, v, c) = named
    BY <1>5 DEF Meant
  <2> QED BY <1>1, <2>1
<1> QED BY <1>2, <1>3, <1>4, <1>5

(* What the releases say, before and up to version v.                      *)
LEMMA ReleasesSay ==
    ASSUME TypeOK, ReleasesInv
    PROVE  /\ \A o \in Version : Targets[o] \in Int /\ Targets[o] <= o
           /\ \A n \in Name : ideal[0][n] = NoTable
<1>1. /\ history \in [Version -> Change] /\ ideal \in [0 .. MaxVersion -> [Name -> 0 .. MaxVersion]]
      /\ \A v \in 0 .. MaxVersion : \A n \in Name : ideal[v][n] <= v
  BY DEF TypeOK, ReleasesInv
<1>2. ASSUME NEW o \in Version PROVE Targets[o] \in Int /\ Targets[o] <= o
  <2>1. o \in 0 .. MaxVersion /\ o \in Nat /\ NoTable <= o /\ NoTable \in Int
    BY VersionAssumption DEF Version, NoTable
  <2>2. history[o].foreign \in Name \cup {NoName}
    BY <1>1 DEF Change
  <2>3. Targets[o] = IF history[o].foreign = NoName THEN NoTable ELSE ideal[o][history[o].foreign]
    BY DEF Targets, Target
  <2>4. CASE history[o].foreign = NoName
    BY <2>1, <2>3, <2>4
  <2>5. CASE history[o].foreign # NoName
    <3>1. history[o].foreign \in Name
      BY <2>2, <2>5
    <3>2. ideal[o][history[o].foreign] \in 0 .. MaxVersion
      BY <1>1, <2>1, <3>1
    <3> QED BY <1>1, <2>1, <2>3, <2>5, <3>1, <3>2
  <2> QED BY <2>4, <2>5
<1>3. ASSUME NEW n \in Name PROVE ideal[0][n] = NoTable
  <2>1. 0 \in 0 .. MaxVersion
    BY VersionAssumption
  <2>2. ideal[0][n] \in 0 .. MaxVersion /\ ideal[0][n] <= 0
    BY <1>1, <2>1
  <2> QED BY <2>2 DEF NoTable
<1> QED BY <1>2, <1>3

LEMMA InitIInv == Init => IInv
<1> SUFFICES ASSUME Init PROVE IInv
  OBVIOUS
<1>1. /\ latest = 0 /\ dbversion = 0 /\ schema = EmptySchema
      /\ history = [v \in Version |-> NoChange]
      /\ ideal = [v \in 0 .. MaxVersion |-> [n \in Name |-> NoTable]]
  BY DEF Init
<1>2. 0 \in 0 .. MaxVersion
  BY VersionAssumption
<1>3. \A v \in 0 .. MaxVersion : \A n \in Name : ideal[v][n] = 0
  BY <1>1 DEF NoTable
<1>4. /\ schema.version = 0 /\ schema.created = {}
      /\ IsErased(schema, schema, ideal[0], Targets)
  BY <1>1, <1>2, <1>3, EmptyAtStart DEF NoTable
<1>5. TypeOK
  <2>1. history \in [Version -> Change]
    BY <1>1 DEF NoChange, Change
  <2>2. ideal \in [0 .. MaxVersion -> [Name -> 0 .. MaxVersion]]
    BY <1>1, <1>2 DEF NoTable
  <2>3. schema \in Schemas
    BY <1>4 DEF IsErased
  <2> QED BY <1>1, <1>2, <2>1, <2>2, <2>3 DEF TypeOK
<1>6. ReleasesInv
  BY <1>1, <1>3, <1>4 DEF ReleasesInv
<1>7. SchemaInv
  BY <1>4 DEF SchemaInv, IsErased
<1>8. DatabaseInv
  BY <1>1, <1>4 DEF DatabaseInv, IsErased
<1> QED BY <1>5, <1>6, <1>7, <1>8 DEF IInv

(* A release is made of one legal change.                                  *)
LEMMA ReleasesLegal ==
    ASSUME Releases, TypeOK
    PROVE  \E c \in Change : Release(c) /\ Legal(ideal[latest], c)
<1>1. CASE \E n \in Name : Release(AddTable(n, NoName))
  <2>1. PICK n \in Name : Release(AddTable(n, NoName))
    BY <1>1
  <2>2. AddTable(n, NoName) \in Change /\ Legal(ideal[latest], AddTable(n, NoName))
    BY DEF AddTable, Change, Legal
  <2> QED BY <2>1, <2>2
<1>2. CASE \E n \in Name : Release(DropTable(n))
  <2>1. PICK n \in Name : Release(DropTable(n))
    BY <1>2
  <2>2. DropTable(n) \in Change /\ Legal(ideal[latest], DropTable(n))
    BY DEF DropTable, Change, Legal
  <2> QED BY <2>1, <2>2
<1>3. CASE \E n, f \in Name :
              /\ ideal[latest][n] = NoTable
              /\ f = n \/ ideal[latest][f] # NoTable
              /\ Release(AddTable(n, f))
  <2>1. PICK n \in Name, f \in Name :
              /\ ideal[latest][n] = NoTable
              /\ f = n \/ ideal[latest][f] # NoTable
              /\ Release(AddTable(n, f))
    BY <1>3
  <2>2. AddTable(n, f) \in Change /\ Legal(ideal[latest], AddTable(n, f))
    BY <2>1 DEF AddTable, Change, Legal
  <2> QED BY <2>1, <2>2
<1>4. CASE \E n, m \in Name :
              /\ ideal[latest][m] = NoTable /\ n # m
              /\ Release(RenameTable(n, m))
  <2>1. PICK n \in Name, m \in Name :
              /\ ideal[latest][m] = NoTable /\ n # m
              /\ Release(RenameTable(n, m))
    BY <1>4
  <2>2. RenameTable(n, m) \in Change /\ Legal(ideal[latest], RenameTable(n, m))
    BY <2>1 DEF RenameTable, Change, Legal
  <2> QED BY <2>1, <2>2
<1> QED BY <1>1, <1>2, <1>3, <1>4 DEF Releases

(* A release adds one version, which no table of the schema has and which  *)
(* the database has not reached.                                           *)
LEMMA ReleaseStep ==
    ASSUME IInv, NEW c \in Change, Release(c), Legal(ideal[latest], c),
           UNCHANGED <<schema, dbversion>>
    PROVE  IInv'
<1> DEFINE v == latest + 1
<1>1. /\ TypeOK /\ ReleasesInv /\ SchemaInv /\ DatabaseInv
  BY DEF IInv
<1>2. /\ latest \in 0 .. MaxVersion /\ history \in [Version -> Change]
      /\ ideal \in [0 .. MaxVersion -> [Name -> 0 .. MaxVersion]]
      /\ schema \in Schemas /\ dbversion \in 0 .. MaxVersion
  BY <1>1 DEF TypeOK
<1>3. /\ latest < MaxVersion /\ latest' = v
      /\ history' = [history EXCEPT ![v] = c]
      /\ ideal' = [ideal EXCEPT ![v] = Meant(ideal[latest], v, c)]
      /\ schema' = schema /\ dbversion' = dbversion
  BY DEF Release
<1>4. /\ v \in Version /\ v \in 0 .. MaxVersion /\ latest \in Nat /\ v - 1 = latest
      /\ MaxVersion \in Nat
  BY <1>2, <1>3, VersionAssumption DEF Version
<1>5. /\ ideal[latest] \in [Name -> 0 .. MaxVersion]
      /\ \A n \in Name : ideal[latest][n] <= v - 1
  BY <1>1, <1>2, <1>4 DEF ReleasesInv
<1>6. /\ Meant(ideal[latest], v, c) \in [Name -> 0 .. MaxVersion]
      /\ \A n \in Name : Meant(ideal[latest], v, c)[n] <= v
  BY <1>4, <1>5, MeantType
<1> HIDE DEF v
<1>7. /\ \A w \in 0 .. MaxVersion :
            ideal'[w] = IF w = v THEN Meant(ideal[latest], v, c) ELSE ideal[w]
      /\ \A w \in Version : history'[w] = IF w = v THEN c ELSE history[w]
  BY <1>2, <1>3, <1>4
<1>8. TypeOK'
  <2>1. ideal' \in [0 .. MaxVersion -> [Name -> 0 .. MaxVersion]]
    BY <1>2, <1>3, <1>6
  <2>2. history' \in [Version -> Change]
    BY <1>2, <1>3
  <2> QED BY <1>2, <1>3, <1>4, <2>1, <2>2 DEF TypeOK
<1>9. schema.version <= latest /\ dbversion <= latest /\ schema.version \in 0 .. MaxVersion
  BY <1>1, <1>2, Fields DEF ReleasesInv
<1>10. ideal'[schema.version] = ideal[schema.version] /\ ideal'[dbversion] = ideal[dbversion]
  <2>1. schema.version # v /\ dbversion # v
    BY <1>2, <1>4, <1>9
  <2> QED BY <1>2, <1>7, <1>9, <2>1
<1>11. ReleasesInv'
  <2>1. schema'.version <= latest' /\ dbversion' <= latest'
    BY <1>2, <1>3, <1>4, <1>9
  <2>2. \A w \in 0 .. MaxVersion : \A n \in Name : ideal'[w][n] <= w
    BY <1>1, <1>6, <1>7 DEF ReleasesInv
  <2>3. ASSUME NEW w \in 1 .. latest'
        PROVE  Legal(ideal'[w - 1], history'[w]) /\ ideal'[w] = Meant(ideal'[w - 1], w, history'[w])
    <3>1. w \in Version /\ w \in 0 .. MaxVersion /\ w - 1 \in 0 .. MaxVersion /\ w - 1 # v
      BY <1>2, <1>3, <1>4 DEF Version
    <3>2. ideal'[w - 1] = ideal[w - 1]
      BY <1>7, <3>1
    <3>3. CASE w = v
      <4>1. ideal'[w - 1] = ideal[latest] /\ history'[w] = c
            /\ ideal'[w] = Meant(ideal[latest], w, c)
        BY <1>4, <1>7, <3>1, <3>2, <3>3
      <4> QED BY <4>1
    <3>4. CASE w # v
      <4>1. w \in 1 .. latest
        BY <1>3, <1>4, <3>4
      <4>2. history'[w] = history[w] /\ ideal'[w] = ideal[w]
        BY <1>7, <3>1, <3>4
      <4>3. Legal(ideal[w - 1], history[w]) /\ ideal[w] = Meant(ideal[w - 1], w, history[w])
        BY <1>1, <4>1 DEF ReleasesInv
      <4> QED BY <3>2, <4>2, <4>3
    <3> QED BY <3>3, <3>4
  <2> QED BY <2>1, <2>2, <2>3 DEF ReleasesInv
<1>12. SchemaInv'
  <2>1. /\ IsMeant(schema, ideal[schema.version]) /\ Unambiguous(schema)
        /\ Follow(schema, Targets) /\ Pending(schema, schema.version)
    BY <1>1 DEF SchemaInv
  <2>2. ASSUME NEW o \in Version, IsEntry(schema, o) PROVE Targets'[o] = Targets[o]
    <3>1. schema.name[o] \in Name
      BY <1>2, <2>2, Fields DEF IsEntry
    <3>2. ideal[schema.version][schema.name[o]] = o
      BY <2>1, <3>1 DEF IsMeant
    <3>3. o <= schema.version
      BY <1>1, <1>9, <3>1, <3>2 DEF ReleasesInv
    <3>4. o # v /\ o \in 0 .. MaxVersion
      BY <1>4, <1>9, <3>3 DEF Version
    <3>5. history'[o] = history[o] /\ ideal'[o] = ideal[o]
      BY <1>7, <3>4
    <3> QED BY <3>5 DEF Targets, Target
  <2>3. Follow(schema, Targets')
    BY <2>1, <2>2 DEF Follow
  <2> QED BY <1>3, <1>10, <2>1, <2>3 DEF SchemaInv
<1>13. DatabaseInv'
  BY <1>1, <1>3, <1>10 DEF DatabaseInv
<1> QED BY <1>8, <1>11, <1>12, <1>13 DEF IInv

(* Every other step leaves the releases alone: it is enough to say what it *)
(* does to the schema and the version of the database.                     *)
LEMMA ProgramStep ==
    ASSUME IInv, UNCHANGED <<latest, history, ideal>>,
           schema' \in Schemas, schema'.version <= latest,
           dbversion' \in 0 .. MaxVersion, dbversion' <= latest,
           IsMeant(schema', ideal[schema'.version]), Unambiguous(schema'),
           Follow(schema', Targets), Pending(schema', schema'.version),
           schema'.version < dbversion' => schema'.created = {},
           schema'.version >= dbversion' => Told(schema', ideal[dbversion'])
    PROVE  IInv'
<1>1. TypeOK /\ ReleasesInv
  BY DEF IInv
<1>2. Targets' = Targets
  BY DEF Targets, Target
<1>3. TypeOK'
  BY <1>1 DEF TypeOK
<1>4. ReleasesInv'
  BY <1>1 DEF ReleasesInv
<1>5. SchemaInv'
  BY <1>2 DEF SchemaInv
<1>6. DatabaseInv'
  BY DEF DatabaseInv
<1> QED BY <1>3, <1>4, <1>5, <1>6 DEF IInv

(* The next migration finds the schema as the ones before it left it.      *)
LEMMA NextMigration ==
    ASSUME IInv, schema.version < latest, NEW v, v = schema.version + 1
    PROVE  /\ v \in Version /\ v \in 1 .. latest /\ v - 1 = schema.version
           /\ Before(schema, v, ideal[v - 1], Targets)
           /\ history[v] \in Change /\ Legal(ideal[v - 1], history[v])
           /\ ideal[v] = Meant(ideal[v - 1], v, history[v])
           /\ Targets[v] = IF history[v].foreign = NoName THEN NoTable
                          ELSE ideal[v][history[v].foreign]
<1>1. /\ TypeOK /\ ReleasesInv /\ SchemaInv
  BY DEF IInv
<1>2. /\ latest \in 0 .. MaxVersion /\ history \in [Version -> Change]
      /\ ideal \in [0 .. MaxVersion -> [Name -> 0 .. MaxVersion]]
      /\ schema \in Schemas
  BY <1>1 DEF TypeOK
<1>3. /\ v \in Version /\ v \in 1 .. latest /\ v - 1 = schema.version
      /\ v - 1 \in 0 .. MaxVersion
  <2>1. schema.version \in 0 .. MaxVersion
    BY <1>2, Fields
  <2>2. latest \in 0 .. MaxVersion /\ MaxVersion \in Nat
    BY <1>2, VersionAssumption
  <2> QED BY <2>1, <2>2 DEF Version
<1> DEFINE named == ideal[v - 1]
<1>4. history[v] \in Change /\ Legal(named, history[v]) /\ ideal[v] = Meant(named, v, history[v])
  BY <1>1, <1>2, <1>3 DEF ReleasesInv
<1>5. Targets[v] = IF history[v].foreign = NoName THEN NoTable ELSE ideal[v][history[v].foreign]
  BY <1>3 DEF Targets, Target
<1>6. Before(schema, v, named, Targets)
  <2>1. \A o \in Version : Targets[o] \in Int /\ Targets[o] <= o
    BY <1>1, ReleasesSay
  <2>2. named \in [Name -> 0 .. MaxVersion] /\ \A n \in Name : named[n] <= v - 1
    BY <1>1, <1>2, <1>3 DEF ReleasesInv
  <2>3. /\ IsMeant(schema, named) /\ Unambiguous(schema)
        /\ Follow(schema, Targets) /\ Pending(schema, v - 1)
    BY <1>1, <1>3 DEF SchemaInv
  <2> HIDE DEF named
  <2> QED BY <1>2, <1>3, <2>1, <2>2, <2>3 DEF Before
<1> QED BY <1>3, <1>4, <1>5, <1>6

LEMMA IncludeStep == ASSUME IInv, Include PROVE IInv'
<1> DEFINE v == schema.version + 1
           q == Included(schema, v, history[v])
<1>1. /\ TypeOK /\ ReleasesInv /\ SchemaInv /\ DatabaseInv
  BY DEF IInv
<1>2. /\ latest \in 0 .. MaxVersion /\ history \in [Version -> Change]
      /\ ideal \in [0 .. MaxVersion -> [Name -> 0 .. MaxVersion]]
      /\ schema \in Schemas /\ dbversion \in 0 .. MaxVersion
  BY <1>1 DEF TypeOK
<1>3. /\ schema.version < latest
      /\ schema' = IF dbversion = v THEN EraseRecords(TraceName(q)) ELSE q
      /\ UNCHANGED <<latest, history, ideal, dbversion>>
  BY DEF Include
<1> HIDE DEF v
<1> DEFINE named == ideal[v - 1]
           meant == ideal[v]
           c == history[v]
<1>5. /\ v \in Version /\ v \in 1 .. latest /\ v - 1 = schema.version
      /\ Before(schema, v, named, Targets)
      /\ c \in Change /\ Legal(named, c) /\ meant = Meant(named, v, c)
      /\ Targets[v] = IF c.foreign = NoName THEN NoTable ELSE meant[c.foreign]
  BY <1>3, NextMigration DEF v
<1>4. /\ v - 1 \in 0 .. MaxVersion /\ v \in 0 .. MaxVersion /\ MaxVersion \in Nat
      /\ v \in Version /\ v \in 1 .. latest /\ v - 1 = schema.version
  BY <1>5, VersionAssumption DEF Version
<1>8. /\ q \in Schemas /\ q.version = v /\ q.created = schema.created
      /\ IsMeant(q, meant) /\ Unambiguous(q) /\ Follow(q, Targets) /\ Pending(q, v)
      /\ \A db : Told(schema, db) /\ v \notin schema.created => Told(q, db)
  <2> HIDE DEF c, named, meant
  <2>1. Targets[v] = IF c.foreign = NoName THEN NoTable ELSE Meant(named, v, c)[c.foreign]
    BY <1>5
  <2>2. /\ After(schema, Included(schema, v, c), v, Meant(named, v, c), Targets)
        /\ Included(schema, v, c).version = v
    BY <1>5, <2>1, IncludedAfter
  <2>3. Included(schema, v, c) = q
    BY DEF c
  <2> QED BY <1>5, <2>2, <2>3 DEF After
<1> HIDE DEF q, named, c
<1>9. CASE dbversion = v
  <2>1. IsErased(q, EraseRecords(TraceName(q)), meant, Targets)
    BY <1>8, ErasedAfter
  <2>2. schema' = EraseRecords(TraceName(q))
    BY <1>3, <1>9
  <2>3. IsErased(q, schema', meant, Targets)
    BY <2>1, <2>2
  <2>4. schema' \in Schemas /\ schema'.version = v /\ dbversion' = v
    BY <1>3, <1>8, <1>9, <2>3 DEF IsErased
  <2>5. ~(v < v) /\ v <= latest
    BY <1>4
  <2> QED BY <1>2, <1>3, <1>4, <2>3, <2>4, <2>5, ProgramStep DEF IsErased
<1>10. CASE dbversion # v
  <2>1. schema' = q /\ dbversion' = dbversion
    BY <1>3, <1>10
  <2>2. v < dbversion => q.created = {}
    BY <1>1, <1>2, <1>4, <1>8 DEF DatabaseInv
  <2>3. ASSUME v >= dbversion PROVE Told(q, ideal[dbversion])
    <3>1. schema.version >= dbversion
      BY <1>2, <1>4, <1>10, <2>3
    <3>2. Told(schema, ideal[dbversion])
      BY <1>1, <3>1 DEF DatabaseInv
    <3>3. \A n \in Name : ideal[dbversion][n] <= dbversion
      BY <1>1, <1>2 DEF ReleasesInv
    <3>4. \A n \in Name : ideal[dbversion][n] # v
      BY <1>2, <1>4, <3>1, <3>3
    <3>5. v \notin schema.created
      BY <1>4, <3>2, <3>4 DEF Told
    <3> QED BY <1>8, <3>2, <3>5
  <2>4. dbversion <= latest /\ v <= latest
    BY <1>1, <1>4 DEF ReleasesInv
  <2> QED BY <1>2, <1>3, <1>8, <2>1, <2>2, <2>3, <2>4, ProgramStep
<1> QED BY <1>9, <1>10

LEMMA BeginSyncStep == ASSUME IInv, BeginSync PROVE IInv'
<1> DEFINE q == TraceName(schema)
<1>1. /\ TypeOK /\ ReleasesInv /\ SchemaInv /\ DatabaseInv
  BY DEF IInv
<1>2. schema \in Schemas /\ dbversion \in 0 .. MaxVersion
  BY <1>1 DEF TypeOK
<1>3. /\ schema' = q /\ dbversion' = dbversion /\ UNCHANGED <<latest, history, ideal>>
  BY DEF BeginSync
<1>4. /\ IsMeant(schema, ideal[schema.version]) /\ Unambiguous(schema)
      /\ Follow(schema, Targets) /\ Pending(schema, schema.version)
  BY <1>1 DEF SchemaInv
<1>5. /\ q \in Schemas /\ q.version = schema.version /\ q.name = schema.name
      /\ q.old = schema.old /\ q.created = schema.created /\ q.unsynced = schema.unsynced
  BY <1>2, <1>4, TraceNameKeeps
<1>6. Unambiguous(q) /\ Follow(q, Targets)
  BY <1>2, <1>4, TraceNameFollows
<1> HIDE DEF q
<1>7. IsMeant(q, ideal[q.version])
  BY <1>4, <1>5 DEF IsMeant
<1>8. Pending(q, q.version)
  BY <1>4, <1>5 DEF Pending, IsEntry
<1>9. /\ q.version < dbversion => q.created = {}
      /\ q.version >= dbversion => Told(q, ideal[dbversion])
  BY <1>1, <1>5 DEF DatabaseInv, Told
<1>10. q.version <= latest /\ dbversion <= latest
  BY <1>1, <1>5 DEF ReleasesInv
<1> QED BY <1>2, <1>3, <1>5, <1>6, <1>7, <1>8, <1>9, <1>10, ProgramStep

LEMMA EndSyncStep == ASSUME IInv, EndSync PROVE IInv'
<1>1. /\ TypeOK /\ ReleasesInv /\ SchemaInv /\ DatabaseInv
  BY DEF IInv
<1>2. schema \in Schemas
  BY <1>1 DEF TypeOK
<1>3. /\ schema' = EraseRecords(TraceName(schema)) /\ dbversion' = schema.version
      /\ UNCHANGED <<latest, history, ideal>>
  BY DEF EndSync
<1>4. /\ IsMeant(schema, ideal[schema.version]) /\ Unambiguous(schema)
      /\ Follow(schema, Targets)
  BY <1>1 DEF SchemaInv
<1>5. IsErased(schema, schema', ideal[schema.version], Targets)
  BY <1>2, <1>3, <1>4, ErasedAfter
<1>6. schema' \in Schemas /\ schema'.version = schema.version
  BY <1>5 DEF IsErased
<1>7. /\ schema.version \in 0 .. MaxVersion /\ schema.version <= latest
      /\ ~(schema.version < schema.version)
  BY <1>1, <1>2, Fields DEF ReleasesInv
<1> QED BY <1>3, <1>5, <1>6, <1>7, ProgramStep DEF IsErased

LEMMA RestartStep == ASSUME IInv, Restart PROVE IInv'
<1>1. /\ TypeOK /\ ReleasesInv
  BY DEF IInv
<1>2. /\ schema' = EmptySchema /\ dbversion' \in 0 .. dbversion
      /\ UNCHANGED <<latest, history, ideal>>
  BY DEF Restart
<1>3. dbversion' \in 0 .. MaxVersion /\ dbversion' <= latest /\ 0 <= latest
      /\ (0 >= dbversion' => dbversion' = 0)
  BY <1>1, <1>2, VersionAssumption DEF TypeOK, ReleasesInv
<1>4. /\ EmptySchema.version = 0 /\ EmptySchema.created = {}
      /\ IsErased(EmptySchema, EmptySchema, ideal[0], Targets)
  BY <1>1, ReleasesSay, EmptyAtStart
<1>5. /\ schema'.version = 0 /\ schema'.created = {}
      /\ IsErased(schema', schema', ideal[0], Targets)
  BY <1>2, <1>4
<1> QED BY <1>2, <1>3, <1>5, ProgramStep DEF IsErased

LEMMA StepKeeps == ASSUME IInv, [Next]_vars PROVE IInv'
<1>1. CASE Releases /\ UNCHANGED <<schema, dbversion>>
  <2>1. PICK c \in Change : Release(c) /\ Legal(ideal[latest], c)
    BY <1>1, ReleasesLegal DEF IInv
  <2> QED BY <1>1, <2>1, ReleaseStep
<1>2. CASE Include
  BY <1>2, IncludeStep
<1>3. CASE BeginSync
  BY <1>3, BeginSyncStep
<1>4. CASE EndSync
  BY <1>4, EndSyncStep
<1>5. CASE Restart
  BY <1>5, RestartStep
<1>6. CASE UNCHANGED vars
  BY <1>6 DEF vars, IInv, TypeOK, ReleasesInv, SchemaInv, DatabaseInv, Targets, Target
<1> QED BY <1>1, <1>2, <1>3, <1>4, <1>5, <1>6 DEF Next

(* The inductive invariant holds: it says more than the properties do      *)
(* below, that each name a foreign key was declared with still leads, by   *)
(* a record of its own, to the table it was declared against.              *)
THEOREM Invariance == Spec => []IInv
<1>1. Init => IInv
  BY InitIInv
<1>2. IInv /\ [Next]_vars => IInv'
  BY StepKeeps
<1> QED BY <1>1, <1>2, PTL DEF Spec

(* What sq_schema_include() and the synchronization make of a schema is a  *)
(* schema, with its records.                                               *)
THEOREM TypeCorrect == Spec => []TypeOK
<1>1. IInv => TypeOK
  BY DEF IInv
<1> QED BY <1>1, Invariance, PTL

(* Whatever migrations are included, and whenever the database is brought  *)
(* up to date on the way, the schema in memory is the one they mean.       *)
THEOREM SchemaCorrect == Spec => []SchemaIsMeant
<1>1. IInv => SchemaIsMeant
  BY DEF IInv, SchemaInv, IsMeant, SchemaIsMeant
<1> QED BY <1>1, Invariance, PTL

(* A name in use is never traced, and a lost one to one record only: this  *)
(* is what sq_schema_include() traces and erases for when a name comes     *)
(* back into use.                                                          *)
THEOREM TracingUnambiguous == Spec => []TraceIsUnambiguous
<1>1. IInv => TraceIsUnambiguous
  BY DEF IInv, SchemaInv, Unambiguous, TraceIsUnambiguous, Entries
<1> QED BY <1>1, Invariance, PTL

(* Tracing a foreign key finds the table that it was declared against, by  *)
(* the name this table has now.                                            *)
THEOREM ReferencesCorrect == Spec => []ReferencesFollow
<1>1. ASSUME IInv PROVE ReferencesFollow
  <2>1. schema \in Schemas /\ Unambiguous(schema) /\ Follow(schema, Targets)
    BY <1>1 DEF IInv, TypeOK, SchemaInv
  <2>2. ASSUME NEW o \in Entries(schema), NEW t \in Entries(schema), Target(o) = t
        PROVE  Resolve(schema, schema.foreign[o]) = schema.name[t]
    <3>1. /\ o \in Version /\ IsEntry(schema, o) /\ t \in Version /\ IsEntry(schema, t)
          /\ Targets[o] = t
      BY <2>2 DEF Entries, Targets
    <3>2. Leads(schema, schema.foreign[o], t)
      BY <2>1, <3>1 DEF Follow
    <3> QED BY <2>1, <3>1, <3>2, ResolveLeads
  <2> QED BY <2>2 DEF ReferencesFollow
<1> QED BY <1>1, Invariance, PTL

(* The records of a schema say, without loss and without repetition, what  *)
(* the database does not know yet, and by which name it knows a table.     *)
THEOREM PendingCorrect == Spec => []PendingIsRecorded
<1>1. ASSUME IInv PROVE PendingIsRecorded
  <2>1. Pending(schema, schema.version)
    BY <1>1 DEF IInv, SchemaInv
  <2>2. schema.version >= dbversion => Told(schema, ideal[dbversion])
    BY <1>1 DEF IInv, DatabaseInv
  <2>3. \A o \in Entries(schema) \ schema.created :
           o \in Range(schema.unsynced) /\ schema.old[o] = NoName
    BY <2>1 DEF Pending, Entries
  <2>4. ASSUME schema.version >= dbversion
        PROVE  /\ \A o \in Version : o \in schema.created <=> InDatabase(o)
               /\ \A n \in Name, o \in Version :
                     ideal[dbversion][n] = o =>
                        \/ o \in Range(schema.unsynced) /\ schema.old[o] = n
                        \/ /\ o \notin Range(schema.unsynced)
                           /\ schema.old[o] = NoName /\ schema.name[o] = n
    BY <2>2, <2>4 DEF Told, InDatabase
  <2> QED BY <2>1, <2>3, <2>4 DEF Pending, PendingIsRecorded
<1> QED BY <1>1, Invariance, PTL

-----------------------------------------------------------------------------
(* The inductive invariant of SqliteMigration, in layers.                  *)

(* The last renaming on record of a table tells the name it has, or the    *)
(* name that it had when it was dropped.  So a name that was traced is not *)
(* traced any further.                                                     *)
IsRenaming(s, i, o) == s.reentry[i].kind = "renamed" /\ s.reentry[i].table = o

IsLastRenaming(s, i, o) ==
    /\ IsRenaming(s, i, o)
    /\ \A j \in DOMAIN s.reentry : IsRenaming(s, j, o) => i <= j

KeepsNames(s) ==
    /\ \A i \in DOMAIN s.reentry :
          /\ s.reentry[i].table <= s.version
          /\ s.reentry[i].kind = "dropped" => ~IsEntry(s, s.reentry[i].table)
    /\ \A o \in Version : \A i \in DOMAIN s.reentry :
          IsLastRenaming(s, i, o) =>
              /\ IsEntry(s, o) => s.reentry[i].name = s.name[o]
              /\ \A k \in DOMAIN s.reentry :
                    s.reentry[k].kind = "dropped" /\ s.reentry[k].table = o =>
                        s.reentry[k].old = s.reentry[i].name

InStatements == pc \in {"unsynced", "create"}

(* Where the program is, and how far memory and database have come.        *)
PlaceInv ==
    /\ userversion <= dbversion
    /\ pc = "down" => schema = EmptySchema /\ dbversion = userversion
    /\ InStatements => dbversion < schema.version /\ TraceName(schema) = schema
    /\ pc = "version" => dbversion = schema.version /\ userversion < dbversion

(* The first layer: no assumption is needed for it.                        *)
BaseInv == IInv /\ KeepsNames(schema) /\ PlaceInv /\ SqliteTypeOK

(* A table has one name, and does not come back once it is gone.           *)
IsNamed(v, o) == \E n \in Name : ideal[v][n] = o

NamesInv ==
    /\ \A v \in 0 .. MaxVersion : \A n, m \in Name :
          ideal[v][n] = ideal[v][m] /\ ideal[v][n] # NoTable => n = m
    /\ \A u, w \in 0 .. latest : \A o \in Version :
          o <= u /\ u <= w /\ IsNamed(w, o) => IsNamed(u, o)

(* The second layer, when names are never reused: a name has one owner     *)
(* ever, and the database knows names by their owners.                     *)
Owns(o, n) == \E v \in 0 .. latest : ideal[v][n] = o

OwnersInv ==
    /\ \A o, p \in Version : \A n \in Name : Owns(o, n) /\ Owns(p, n) => o = p
    /\ \A o \in Version : \A n \in Name :
          Owns(o, n) => \E v \in 1 .. latest : history[v].name = n

IsOwned(d) == \A n \in Name : d.table[n] # NoTable => Owns(d.table[n], n)

Holds(d, o) == \E n \in Name : d.table[n] = o

OwnedInv ==
    /\ \A o \in Version : schema.old[o] # NoName => Owns(o, schema.old[o])
    /\ IsOwned(disk) /\ IsOwned(work)
    /\ ~InStatements => work = disk
    /\ \A o \in Version : IsEntry(schema, o) /\ Holds(disk, o) => Holds(work, o)

(* The third layer, when moreover whole releases are synchronized and an   *)
(* interrupted synchronization is run again.                               *)
InterruptedInv ==
    /\ interrupted => userversion < latest
    /\ (InStatements \/ pc = "version") => interrupted /\ schema.version = latest
    /\ userversion < dbversion =>
          /\ interrupted /\ dbversion = latest /\ schema.version = latest
          /\ pc = "idle" => TheVersion \in refused
    /\ code = "OK" => pc = "idle" /\ dbversion = latest

(* The tables that no refused statement was about are those of version v.  *)
InVersion(d, v) ==
    \A o \in Version \ refused : \A n \in Name : d.table[n] = o <=> ideal[v][n] = o

(* The foreign keys in database d are the names its tables have there.     *)
RefersTo(d) ==
    \A o, t \in Version \ refused : \A n \in Name :
        Holds(d, o) /\ Target(o) = t /\ d.table[n] = t => d.foreign[o] = n

DiskInv ==
    /\ \/ InVersion(disk, userversion)
       \/ interrupted /\ InVersion(disk, latest)
    /\ userversion < dbversion => InVersion(disk, dbversion)
    /\ RefersTo(disk)

(* The statements have come as far as node and tried say, or find nothing  *)
(* to do.                                                                  *)
Rest == {schema.unsynced[i] : i \in node .. Len(schema.unsynced)}

AllDone ==
    \A o \in Version \ refused : \A n \in Name : work.table[n] = o <=> schema.name[o] = n

UnsyncedDone ==
    \A o \in Version \ refused : \A n \in Name :
        work.table[n] = o <=>
            \/ o \in Rest /\ ideal[dbversion][n] = o
            \/ o \notin Rest /\ o \in schema.created /\ schema.name[o] = n

CreateDone ==
    \A o \in Version \ refused : \A n \in Name :
        work.table[n] = o <=> o \in schema.created \cup tried /\ schema.name[o] = n

(* Once all renaming is done, a foreign key has the name of its table,     *)
(* also when this has yet to be created.                                   *)
RefersToMeant ==
    \A o, t \in Version \ refused :
        Holds(work, o) /\ Target(o) = t /\ IsEntry(schema, t) =>
            work.foreign[o] = schema.name[t]

WorkInv ==
    /\ pc = "unsynced" =>
          /\ tried = {}
          /\ UnsyncedDone \/ AllDone
          /\ RefersTo(work)
    /\ pc = "create" =>
          /\ CreateDone \/ AllDone
          /\ RefersToMeant

ContentInv == InterruptedInv /\ DiskInv /\ WorkInv

-----------------------------------------------------------------------------
(* What is traced once is not traced further.                              *)

LEMMA ResolveAgain ==
    ASSUME NEW s \in Schemas, NEW n, Unambiguous(s), KeepsNames(s)
    PROVE  Resolve(s, Resolve(s, n)) = Resolve(s, n)
<1> DEFINE k == FirstOf(Hits(s, n))
           hit == s.reentry[k]
           renamings == {i \in DOMAIN s.reentry :
                           s.reentry[i].kind = "renamed" /\ s.reentry[i].table = hit.table}
<1>1. SUFFICES ASSUME IsTraced(s, n), TracedName(s, n) # NoName, TracedName(s, n) # n
               PROVE  ~IsTraced(s, TracedName(s, n))
  BY DEF Resolve
<1>2. DOMAIN s.reentry \subseteq Nat /\ \A i \in DOMAIN s.reentry : s.reentry[i] \in Records
  BY Fields
<1>3. k \in DOMAIN s.reentry /\ hit.old = n
  <2>1. Hits(s, n) # {} /\ Hits(s, n) \subseteq DOMAIN s.reentry /\ Hits(s, n) \subseteq Nat
    BY <1>1, <1>2 DEF IsTraced, Hits
  <2>2. FirstOf(Hits(s, n)) \in Hits(s, n)
    BY <2>1, FirstOfIndices
  <2> QED BY <2>2 DEF Hits
<1>4. hit.table \in Version /\ hit.kind \in {"renamed", "dropped"}
  BY <1>2, <1>3 DEF Records
<1>5. CASE hit.kind = "renamed"
  <2>1. TracedName(s, n) = s.name[hit.table]
    BY <1>5 DEF TracedName
  <2>2. IsEntry(s, hit.table)
    BY <1>1, <2>1 DEF IsEntry
  <2> QED BY <1>4, <2>1, <2>2 DEF Unambiguous
<1>6. CASE hit.kind = "dropped" /\ renamings = {}
  <2>1. TracedName(s, n) = NoName
    BY <1>6 DEF TracedName
  <2> QED BY <1>1, <2>1
<1>7. CASE hit.kind = "dropped" /\ renamings # {}
  <2> DEFINE i == FirstOf(renamings)
  <2>1. TracedName(s, n) = s.reentry[i].name
    BY <1>7 DEF TracedName
  <2>2. renamings \subseteq Nat /\ renamings \subseteq DOMAIN s.reentry
    BY <1>2
  <2>3. i \in renamings /\ \A j \in renamings : i <= j
    BY <1>7, <2>2, FirstOfIsLeast
  <2>4. i \in DOMAIN s.reentry /\ IsLastRenaming(s, i, hit.table)
    BY <2>3 DEF IsLastRenaming, IsRenaming
  <2>5. hit.old = s.reentry[i].name
    BY <1>3, <1>4, <1>7, <2>4 DEF KeepsNames
  <2> QED BY <1>1, <1>3, <2>1, <2>5
<1> QED BY <1>4, <1>5, <1>6, <1>7

(* The names and records of a schema are all that tracing looks at.        *)
LEMMA SameTracing ==
    ASSUME NEW s, NEW q, q.name = s.name, q.reentry = s.reentry
    PROVE  /\ \A n : Resolve(q, n) = Resolve(s, n)
           /\ \A o : IsEntry(q, o) <=> IsEntry(s, o)
  BY DEF Resolve, IsTraced, TracedName, Hits, IsEntry

LEMMA TraceAgain ==
    ASSUME NEW s \in Schemas, NEW target, Unambiguous(s), Follow(s, target), KeepsNames(s)
    PROVE  TraceName(TraceName(s)) = TraceName(s)
<1> DEFINE r == TraceName(s)
           again == [o \in Version |->
                IF IsEntry(r, o) THEN Resolve(r, r.foreign[o]) ELSE r.foreign[o]]
<1>1. r \in Schemas /\ r.name = s.name /\ r.reentry = s.reentry
  BY TraceNameKeeps
<1>2. \A o \in Version :
         r.foreign[o] = IF IsEntry(s, o) THEN Resolve(s, s.foreign[o]) ELSE s.foreign[o]
  BY DEF TraceName, Schemas
<1>3. TraceName(r) = [r EXCEPT !.foreign = again]
  BY DEF TraceName
<1> HIDE DEF r
<1>4. \A o \in Version : again[o] = r.foreign[o]
  BY <1>1, <1>2, SameTracing, ResolveAgain
<1>5. r.foreign \in [Version -> Name \cup {NoName}]
  BY <1>1, Fields
<1>6. again = r.foreign
  BY <1>4, <1>5
<1> HIDE DEF again
<1>7. [r EXCEPT !.foreign = r.foreign] = r
  BY <1>1 DEF Schemas
<1> QED BY <1>3, <1>6, <1>7 DEF r

(* Nothing on record: nothing to keep.                                     *)
LEMMA EmptyKeeps ==
    ASSUME NEW s, s.reentry = <<>>
    PROVE  KeepsNames(s)
  BY DEF KeepsNames

(* The same records and names, at the same version or later.               *)
LEMMA SameKeeps ==
    ASSUME NEW s \in Schemas, NEW q \in Schemas, KeepsNames(s),
           q.name = s.name, q.reentry = s.reentry, q.version >= s.version
    PROVE  KeepsNames(q)
<1>1. \A i \in DOMAIN s.reentry : s.reentry[i].table \in Int
  BY Fields DEF Records, Version
<1>2. q.version \in Int /\ s.version \in Int
  BY Fields
<1>3. \A i \in DOMAIN q.reentry : q.reentry[i].table <= q.version
  BY <1>1, <1>2 DEF KeepsNames
<1> QED BY <1>3 DEF KeepsNames, IsLastRenaming, IsRenaming, IsEntry

(* One more record, of a table of the schema.                              *)
LEMMA RecordKeeps ==
    ASSUME NEW s \in Schemas, NEW q \in Schemas, NEW x \in Records, KeepsNames(s),
           q.reentry = <<x>> \o s.reentry, q.version = s.version,
           x.table <= s.version, IsEntry(s, x.table),
           \A o \in Version : o # x.table => q.name[o] = s.name[o],
           x.kind = "renamed" => q.name[x.table] = x.name,
           x.kind = "dropped" => q.name[x.table] = NoName /\ x.old = s.name[x.table]
    PROVE  KeepsNames(q)
<1>1. /\ s.reentry \in Seq(Records) /\ Len(s.reentry) \in Nat
      /\ DOMAIN s.reentry = 1 .. Len(s.reentry)
  BY Fields
<1>2. /\ DOMAIN q.reentry = 1 .. Len(s.reentry) + 1
      /\ q.reentry[1] = x
      /\ \A i \in 1 .. Len(s.reentry) : q.reentry[i + 1] = s.reentry[i]
      /\ \A i \in 2 .. Len(s.reentry) + 1 :
            q.reentry[i] = s.reentry[i - 1] /\ i - 1 \in 1 .. Len(s.reentry)
  BY <1>1, Prepended
<1>3. ASSUME NEW j \in DOMAIN q.reentry
      PROVE  \/ j = 1 /\ q.reentry[j] = x
             \/ j - 1 \in DOMAIN s.reentry /\ q.reentry[j] = s.reentry[j - 1]
  <2>1. CASE j = 1
    BY <1>2, <2>1
  <2>2. CASE j # 1
    <3>1. j \in 2 .. Len(s.reentry) + 1
      BY <1>1, <1>2, <2>2
    <3> QED BY <1>1, <1>2, <3>1
  <2> QED BY <2>1, <2>2
<1>4. \A i \in DOMAIN s.reentry : i + 1 \in DOMAIN q.reentry /\ q.reentry[i + 1] = s.reentry[i]
  BY <1>1, <1>2
<1>5. 1 \in DOMAIN q.reentry /\ DOMAIN q.reentry \subseteq Int /\ DOMAIN s.reentry \subseteq Int
      /\ \A i \in DOMAIN s.reentry : i >= 1
  BY <1>1, <1>2
<1>6. x.table \in Version /\ x.kind \in {"renamed", "dropped"}
      /\ \A i \in DOMAIN s.reentry : s.reentry[i].table \in Version
  BY Fields DEF Records
<1>7. \A i \in DOMAIN s.reentry :
         s.reentry[i].kind = "dropped" => s.reentry[i].table # x.table
  BY DEF KeepsNames
<1>8. ASSUME NEW j \in DOMAIN q.reentry
      PROVE  /\ q.reentry[j].table <= q.version
             /\ q.reentry[j].kind = "dropped" => ~IsEntry(q, q.reentry[j].table)
  <2>1. CASE j = 1 /\ q.reentry[j] = x
    BY <2>1 DEF IsEntry
  <2>2. CASE j - 1 \in DOMAIN s.reentry /\ q.reentry[j] = s.reentry[j - 1]
    <3>1. q.reentry[j].table <= q.version
      BY <2>2 DEF KeepsNames
    <3>2. ASSUME q.reentry[j].kind = "dropped" PROVE ~IsEntry(q, q.reentry[j].table)
      BY <1>6, <1>7, <2>2, <3>2 DEF KeepsNames, IsEntry
    <3> QED BY <3>1, <3>2
  <2> QED BY <1>3, <2>1, <2>2
<1>9. ASSUME NEW o \in Version, NEW j \in DOMAIN q.reentry, IsLastRenaming(q, j, o)
      PROVE  /\ IsEntry(q, o) => q.reentry[j].name = q.name[o]
             /\ \A k \in DOMAIN q.reentry :
                   q.reentry[k].kind = "dropped" /\ q.reentry[k].table = o =>
                       q.reentry[k].old = q.reentry[j].name
  <2>1. CASE j = 1 /\ q.reentry[j] = x
    <3>1. x.kind = "renamed" /\ x.table = o
      BY <1>9, <2>1 DEF IsLastRenaming, IsRenaming
    <3>2. ASSUME NEW k \in DOMAIN q.reentry,
                 q.reentry[k].kind = "dropped", q.reentry[k].table = o
          PROVE  FALSE
      BY <1>3, <1>7, <3>1, <3>2
    <3> QED BY <2>1, <3>1, <3>2
  <2>2. CASE j - 1 \in DOMAIN s.reentry /\ q.reentry[j] = s.reentry[j - 1]
    <3>1. IsLastRenaming(s, j - 1, o)
      <4>1. IsRenaming(s, j - 1, o)
        BY <1>9, <2>2 DEF IsLastRenaming, IsRenaming
      <4>2. ASSUME NEW i \in DOMAIN s.reentry, IsRenaming(s, i, o) PROVE j - 1 <= i
        <5>1. i + 1 \in DOMAIN q.reentry /\ IsRenaming(q, i + 1, o)
          BY <1>4, <4>2 DEF IsRenaming
        <5>2. j <= i + 1
          BY <1>9, <5>1 DEF IsLastRenaming
        <5>3. i \in Int /\ j \in Int
          BY <1>5
        <5> QED BY <5>2, <5>3
      <4> QED BY <4>1, <4>2 DEF IsLastRenaming
    <3>2. ~(x.kind = "renamed" /\ x.table = o)
      <4>1. ASSUME x.kind = "renamed" /\ x.table = o PROVE FALSE
        <5>1. IsRenaming(q, 1, o)
          BY <1>2, <4>1 DEF IsRenaming
        <5>2. j <= 1
          BY <1>5, <1>9, <5>1 DEF IsLastRenaming
        <5> QED BY <1>5, <2>2, <5>2
      <4> QED BY <4>1
    <3>3. /\ IsEntry(s, o) => s.reentry[j - 1].name = s.name[o]
          /\ \A k \in DOMAIN s.reentry :
                s.reentry[k].kind = "dropped" /\ s.reentry[k].table = o =>
                    s.reentry[k].old = s.reentry[j - 1].name
      BY <2>2, <3>1 DEF KeepsNames
    <3>4. ASSUME IsEntry(q, o) PROVE q.reentry[j].name = q.name[o]
      <4>1. o # x.table
        BY <1>6, <3>2, <3>4 DEF IsEntry
      <4> QED BY <2>2, <3>3, <3>4, <4>1 DEF IsEntry
    <3>5. ASSUME NEW k \in DOMAIN q.reentry,
                 q.reentry[k].kind = "dropped", q.reentry[k].table = o
          PROVE  q.reentry[k].old = q.reentry[j].name
      <4>1. CASE k = 1 /\ q.reentry[k] = x
        BY <2>2, <3>3, <3>5, <4>1
      <4>2. CASE k - 1 \in DOMAIN s.reentry /\ q.reentry[k] = s.reentry[k - 1]
        BY <2>2, <3>3, <3>5, <4>2
      <4> QED BY <1>3, <4>1, <4>2
    <3> QED BY <3>4, <3>5
  <2> QED BY <1>3, <2>1, <2>2
<1> QED BY <1>8, <1>9 DEF KeepsNames

(* The next migration leaves the records in order.                         *)
LEMMA ReuseNameRecords ==
    ASSUME NEW s \in Schemas, NEW target, NEW n,
           Unambiguous(s), Follow(s, target), KeepsNames(s)
    PROVE  KeepsNames(ReuseName(s, n))
<1>1. /\ ReuseName(s, n) \in Schemas /\ ReuseName(s, n).name = s.name
      /\ ReuseName(s, n).version = s.version
  BY ReuseNameKeeps
<1>2. CASE ~IsTraced(s, n)
  BY <1>2 DEF ReuseName
<1>3. CASE IsTraced(s, n)
  <2>1. TraceName(s) \in Schemas
    BY TraceNameKeeps
  <2>2. ReuseName(s, n).reentry = <<>>
    BY <1>3, <2>1 DEF ReuseName, EraseReentry, Schemas
  <2> QED BY <2>2, EmptyKeeps
<1> QED BY <1>2, <1>3

LEMMA AddRecords ==
    ASSUME NEW s \in Schemas, NEW q, NEW r \in Schemas, NEW p \in Version, NEW n, NEW f,
           IsAdded(s, r, q, p, n, f), r.name = s.name, r.version = s.version,
           KeepsNames(r), s.version < p
    PROVE  KeepsNames(q)
<1>1. /\ q.reentry = r.reentry /\ q.version = r.version
      /\ r.name \in [Version -> Name \cup {NoName}]
      /\ q.name = [r.name EXCEPT ![p] = n]
  BY Fields DEF IsAdded
<1>2. \A i \in DOMAIN r.reentry : r.reentry[i].table \in Version /\ r.reentry[i].table <= r.version
  BY Fields DEF KeepsNames, Records
<1>3. r.version \in Int /\ Version \subseteq Int
  BY Fields DEF Version
<1>4. \A i \in DOMAIN r.reentry : r.reentry[i].table # p
  BY <1>2, <1>3
<1>5. \A o \in Version : o # p => q.name[o] = r.name[o]
  BY <1>1
<1>6. ASSUME NEW i \in DOMAIN q.reentry
      PROVE  /\ q.reentry[i].table <= q.version
             /\ q.reentry[i].kind = "dropped" => ~IsEntry(q, q.reentry[i].table)
  BY <1>1, <1>2, <1>4, <1>5 DEF KeepsNames, IsEntry
<1>7. ASSUME NEW o \in Version, NEW i \in DOMAIN q.reentry, IsLastRenaming(q, i, o)
      PROVE  /\ IsEntry(q, o) => q.reentry[i].name = q.name[o]
             /\ \A k \in DOMAIN q.reentry :
                   q.reentry[k].kind = "dropped" /\ q.reentry[k].table = o =>
                       q.reentry[k].old = q.reentry[i].name
  <2>1. IsLastRenaming(r, i, o) /\ o # p
    BY <1>1, <1>4, <1>7 DEF IsLastRenaming, IsRenaming
  <2> QED BY <1>1, <1>5, <2>1 DEF KeepsNames, IsEntry
<1> QED BY <1>6, <1>7 DEF KeepsNames

LEMMA IncludedRecords ==
    ASSUME NEW s, NEW v \in Version, NEW c \in Change, NEW named, NEW target,
           Before(s, v, named, target), Legal(named, c), KeepsNames(s),
           target[v] = IF c.foreign = NoName THEN NoTable ELSE Meant(named, v, c)[c.foreign]
    PROVE  KeepsNames(Included(s, v, c))
<1> DEFINE r == Apply(s, v, c)
           q == Included(s, v, c)
<1>1. s \in Schemas /\ s.version = v - 1 /\ Unambiguous(s) /\ Follow(s, target)
  BY DEF Before
<1>2. /\ s.name \in [Version -> Name \cup {NoName}] /\ NoName \notin Name
      /\ \A o \in Version : IsEntry(s, o) => o <= v - 1
      /\ v \in Nat
  <2>1. SoFar(s, v, named, target)
    BY BeforeSoFar
  <2> QED BY <2>1 DEF SoFar
<1>3. After(s, r, v, Meant(named, v, c), target)
  BY Applied
<1>4. r \in Schemas
  BY <1>3 DEF After
<1>5. KeepsNames(r) /\ r.version = s.version
  <2>1. CASE c.do = "add" /\ \E o \in Version : s.name[o] = c.name
    <3>1. r = s
      BY <2>1 DEF Apply, Add
    <3> QED BY <3>1
  <2>2. CASE c.do = "add" /\ \A o \in Version : s.name[o] # c.name
    <3>1. r = Add(s, v, c) /\ c.name \in Name
      BY <2>2 DEF Apply, Legal
    <3>2. IsAdded(s, ReuseName(s, c.name), Add(s, v, c), v, c.name, c.foreign)
      BY <1>1, <2>2, <3>1, AddFields
    <3>3. /\ ReuseName(s, c.name) \in Schemas /\ ReuseName(s, c.name).name = s.name
          /\ ReuseName(s, c.name).version = s.version
      BY <1>1, ReuseNameKeeps
    <3>4. s.version < v
      BY <1>1, <1>2
    <3>5. KeepsNames(ReuseName(s, c.name))
      BY <1>1, ReuseNameRecords
    <3>6. KeepsNames(Add(s, v, c))
      BY <1>1, <3>2, <3>3, <3>4, <3>5, AddRecords
    <3>7. Add(s, v, c).version = s.version
      BY <3>2 DEF IsAdded
    <3> QED BY <3>1, <3>6, <3>7
  <2>3. CASE c.do # "add" /\ \A o \in Version : s.name[o] # c.old
    <3>1. r = s
      BY <2>3 DEF Apply
    <3> QED BY <3>1
  <2>4. CASE c.do # "add" /\ \E o \in Version : s.name[o] = c.old
    <3> DEFINE p == CHOOSE o \in Version : s.name[o] = c.old
    <3>1. p \in Version /\ s.name[p] = c.old
      BY <2>4
    <3>2. c.old \in Name /\ c.do \in {"drop", "rename"}
      BY <2>4 DEF Legal
    <3>3. r = IF c.do = "drop" THEN Drop(s, p) ELSE Rename(s, p, c.name)
      BY <2>4 DEF Apply
    <3> HIDE DEF p, r
    <3>4. s.name[p] \in Name /\ IsEntry(s, p) /\ p <= s.version
      BY <1>1, <1>2, <3>1, <3>2 DEF IsEntry
    <3>5. CASE c.do = "drop"
      <4> DEFINE x == Record("dropped", p, s.name[p], NoName)
      <4>1. IsDropped(s, r, p)
        BY <1>1, <3>1, <3>3, <3>4, <3>5, DropFields
      <4>2. /\ r.name = [s.name EXCEPT ![p] = NoName] /\ r.version = s.version
            /\ r.reentry = IF s.old[p] = NoName THEN <<x>> \o s.reentry ELSE s.reentry
        BY <4>1 DEF IsDropped
      <4>3. CASE s.old[p] = NoName
        <5>1. x \in Records /\ x.table = p /\ x.kind = "dropped" /\ x.old = s.name[p]
          BY <3>1, <3>4 DEF Record, Records
        <5>2. r.reentry = <<x>> \o s.reentry
          BY <4>2, <4>3
        <5>3. r.name[p] = NoName /\ \A o \in Version : o # p => r.name[o] = s.name[o]
          BY <1>2, <3>1, <4>2
        <5> HIDE DEF x
        <5>4. KeepsNames(r)
          <6>1. /\ x.table <= s.version /\ IsEntry(s, x.table)
                /\ \A o \in Version : o # x.table => r.name[o] = s.name[o]
                /\ x.kind # "renamed"
                /\ r.name[x.table] = NoName /\ x.old = s.name[x.table]
            BY <3>4, <5>1, <5>3
          <6> QED BY <1>1, <1>4, <4>2, <5>1, <5>2, <6>1, RecordKeeps
        <5> QED BY <4>2, <5>4
      <4>4. CASE s.old[p] # NoName
        <5>1. r.reentry = s.reentry
          BY <4>2, <4>4
        <5>2. r.name[p] = NoName /\ \A o \in Version : o # p => r.name[o] = s.name[o]
          BY <1>2, <3>1, <4>2
        <5>3. \A o \in Version : IsEntry(r, o) => IsEntry(s, o) /\ r.name[o] = s.name[o]
          BY <5>2 DEF IsEntry
        <5>4. \A i \in DOMAIN s.reentry : s.reentry[i].table \in Version
          BY <1>1, Fields DEF Records
        <5>5. \A i, o : IsLastRenaming(r, i, o) <=> IsLastRenaming(s, i, o)
          BY <5>1 DEF IsLastRenaming, IsRenaming
        <5>6. \A i \in DOMAIN r.reentry :
                 /\ r.reentry[i].table <= r.version
                 /\ r.reentry[i].kind = "dropped" => ~IsEntry(r, r.reentry[i].table)
          <6>1. \A i \in DOMAIN s.reentry :
                   /\ s.reentry[i].table <= s.version
                   /\ s.reentry[i].kind = "dropped" => ~IsEntry(s, s.reentry[i].table)
            BY <1>1 DEF KeepsNames
          <6>2. r.version = s.version
            BY <4>2
          <6> HIDE DEF x, r, q
          <6> QED BY <5>1, <5>3, <5>4, <6>1, <6>2, Zenon
        <5>7. KeepsNames(r)
          BY <5>1, <5>3, <5>5, <5>6 DEF KeepsNames
        <5> QED BY <4>2, <5>7
      <4> QED BY <4>3, <4>4
    <3>6. CASE c.do = "rename"
      <4> DEFINE u == ReuseName(s, c.name)
                 x == Record("renamed", p, s.name[p], c.name)
      <4>1. c.name \in Name
        BY <3>6 DEF Legal
      <4>2. IsRenamed(s, u, r, p, c.name)
        BY <1>1, <3>1, <3>3, <3>4, <3>6, <4>1, RenameFields
      <4>3. /\ u \in Schemas /\ u.name = s.name /\ u.version = s.version /\ KeepsNames(u)
        BY <1>1, ReuseNameKeeps, ReuseNameRecords
      <4> HIDE DEF u
      <4>4. /\ r.name = [s.name EXCEPT ![p] = c.name] /\ r.version = s.version
            /\ r.reentry = <<x>> \o u.reentry
        BY <4>2 DEF IsRenamed
      <4>5. /\ x \in Records /\ x.table = p /\ x.kind = "renamed" /\ x.name = c.name
        BY <3>1, <3>4, <4>1 DEF Record, Records
      <4>6. r.name[p] = c.name /\ \A o \in Version : o # p => r.name[o] = u.name[o]
        BY <1>2, <3>1, <4>3, <4>4
      <4>7. IsEntry(u, p) /\ p <= u.version /\ r.version = u.version
        BY <3>4, <4>3, <4>4 DEF IsEntry
      <4> HIDE DEF x
      <4>8. KeepsNames(r)
        <5>1. /\ x.table <= u.version /\ IsEntry(u, x.table)
              /\ \A o \in Version : o # x.table => r.name[o] = u.name[o]
              /\ x.kind # "dropped"
              /\ r.name[x.table] = x.name
          BY <4>5, <4>6, <4>7
        <5> QED BY <1>4, <4>3, <4>4, <4>5, <4>7, <5>1, RecordKeeps
      <4> QED BY <4>4, <4>8
    <3> QED BY <3>2, <3>5, <3>6
  <2> QED BY <2>1, <2>2, <2>3, <2>4
<1>6. /\ q \in Schemas /\ q.version = v /\ q.name = r.name /\ q.reentry = r.reentry
  <2>1. q = [r EXCEPT !.version = v]
    BY DEF Included
  <2>2. v \in 0 .. MaxVersion
    BY VersionAssumption DEF Version
  <2> HIDE DEF q, r
  <2> QED BY <1>4, <2>1, <2>2 DEF Schemas
<1>7. q.version >= r.version
  BY <1>1, <1>2, <1>5, <1>6
<1> HIDE DEF q, r
<1>8. KeepsNames(q)
  BY <1>4, <1>5, <1>6, <1>7, SameKeeps
<1> QED BY <1>8 DEF q

LEMMA RecordsStep == ASSUME IInv, KeepsNames(schema), [Next]_vars PROVE KeepsNames(schema')
<1>1. schema \in Schemas /\ Unambiguous(schema) /\ Follow(schema, Targets)
  BY DEF IInv, TypeOK, SchemaInv
<1>2. IInv'
  BY StepKeeps
<1>3. schema' \in Schemas
  BY <1>2 DEF IInv, TypeOK
<1>4. CASE UNCHANGED schema
  BY <1>4
<1>5. CASE Include
  <2> DEFINE v == schema.version + 1
             q == Included(schema, v, history[v])
  <2>1. /\ v \in Version /\ Before(schema, v, ideal[v - 1], Targets)
        /\ history[v] \in Change /\ Legal(ideal[v - 1], history[v])
        /\ Targets[v] = IF history[v].foreign = NoName THEN NoTable
                        ELSE Meant(ideal[v - 1], v, history[v])[history[v].foreign]
    BY <1>5, NextMigration DEF Include
  <2>2. KeepsNames(q)
    BY <2>1, IncludedRecords
  <2>3. schema' = q \/ schema' = EraseRecords(TraceName(q))
    BY <1>5 DEF Include
  <2>4. CASE schema' = EraseRecords(TraceName(q))
    <3>1. After(schema, q, v, Meant(ideal[v - 1], v, history[v]), Targets)
      BY <2>1, IncludedAfter
    <3>2. TraceName(q) \in Schemas
      BY <3>1, TraceNameKeeps DEF After
    <3> HIDE DEF q
    <3>3. schema'.reentry = <<>>
      BY <2>4, <3>2 DEF EraseRecords, Schemas
    <3> QED BY <3>3, EmptyKeeps
  <2> QED BY <2>2, <2>3, <2>4
<1>6. CASE BeginSync
  <2>1. schema' = TraceName(schema)
    BY <1>6 DEF BeginSync
  <2>2. /\ schema'.name = schema.name /\ schema'.reentry = schema.reentry
        /\ schema'.version = schema.version
    BY <1>1, <2>1, TraceNameKeeps
  <2>3. schema'.version >= schema.version
    BY <1>1, <2>2, Fields
  <2> QED BY <1>1, <1>3, <2>2, <2>3, SameKeeps
<1>7. CASE EndSync
  <2>1. TraceName(schema) \in Schemas
    BY <1>1, TraceNameKeeps
  <2>2. schema'.reentry = <<>>
    BY <1>7, <2>1 DEF EndSync, EraseRecords, Schemas
  <2> QED BY <2>2, EmptyKeeps
<1>8. CASE Restart
  <2>1. schema'.reentry = <<>>
    BY <1>8 DEF Restart, EmptySchema
  <2> QED BY <2>1, EmptyKeeps
<1> QED BY <1>4, <1>5, <1>6, <1>7, <1>8 DEF Next, vars

-----------------------------------------------------------------------------
(* Every step of the program with its database is a step of the schema, or *)
(* leaves it alone.                                                        *)

LEMMA BaseFacts ==
    ASSUME BaseInv
    PROVE  /\ schema \in Schemas /\ Unambiguous(schema) /\ Follow(schema, Targets)
           /\ KeepsNames(schema) /\ IsMeant(schema, ideal[schema.version])
           /\ userversion \in Nat /\ dbversion \in Nat /\ schema.version \in Nat
           /\ latest \in Nat /\ schema.version \in 0 .. MaxVersion
           /\ userversion <= dbversion /\ dbversion <= latest /\ schema.version <= latest
           /\ userversion \in 0 .. MaxVersion /\ dbversion \in 0 .. MaxVersion
           /\ latest \in 0 .. MaxVersion /\ MaxVersion \in Nat
<1>1. schema \in Schemas /\ latest \in 0 .. MaxVersion /\ dbversion \in 0 .. MaxVersion
  BY DEF BaseInv, IInv, TypeOK
<1>2. schema.version \in 0 .. MaxVersion /\ userversion \in 0 .. MaxVersion
  BY <1>1, Fields DEF BaseInv, SqliteTypeOK
<1>3. MaxVersion \in Nat
  BY VersionAssumption
<1>4. userversion <= dbversion /\ dbversion <= latest /\ schema.version <= latest
  BY DEF BaseInv, PlaceInv, IInv, ReleasesInv
<1>5. /\ Unambiguous(schema) /\ Follow(schema, Targets) /\ KeepsNames(schema)
      /\ IsMeant(schema, ideal[schema.version])
  BY DEF BaseInv, IInv, SchemaInv
<1> QED BY <1>1, <1>2, <1>3, <1>4, <1>5

LEMMA CommitEnds ==
    ASSUME BaseInv, Commit
    PROVE  /\ EndSync
           /\ userversion < schema.version /\ dbversion < schema.version
           /\ schema' = EraseRecords(schema)
           /\ schema'.version = schema.version /\ schema'.name = schema.name
           /\ schema'.old = NoNames /\ schema'.unsynced = <<>>
<1>1. InStatements
  BY DEF Commit, CreatePhase, InStatements
<1>2. dbversion < schema.version /\ TraceName(schema) = schema
  BY <1>1 DEF BaseInv, PlaceInv
<1>3. schema' = EraseRecords(schema) /\ dbversion' = schema.version
      /\ UNCHANGED <<latest, history, ideal>>
  BY DEF Commit, program
<1>4. /\ schema'.version = schema.version /\ schema'.name = schema.name
      /\ schema'.old = NoNames /\ schema'.unsynced = <<>>
  BY <1>3, BaseFacts DEF EraseRecords, Schemas
<1>5. userversion < schema.version
  BY <1>2, BaseFacts
<1> QED BY <1>2, <1>3, <1>4, <1>5 DEF EndSync

LEMMA DownRestarts == ASSUME BaseInv, Down PROVE Restart
<1>1. userversion \in 0 .. dbversion
  BY BaseFacts
<1> QED BY <1>1 DEF Down, Restart, program

LEMMA StatementKeepsSchema ==
    ASSUME ExecDrop \/ ExecRename \/ SkipCreate \/ ExecCreate \/ SetUserVersion
    PROVE  UNCHANGED vars
  BY DEF ExecDrop, ExecRename, SkipCreate, ExecCreate, SetUserVersion, InUnsynced

LEMMA StepMaps == ASSUME BaseInv, [SqliteNext]_dbvars PROVE [Next]_vars
<1>1. CASE Install
  BY <1>1 DEF Install, Next
<1>2. CASE Open
  BY <1>2 DEF Open, program, vars, BaseInv, PlaceInv
<1>3. CASE Migrate
  BY <1>3 DEF Migrate, Next
<1>4. CASE SyncRefused \/ SyncNotNeeded
  BY <1>4 DEF SyncRefused, SyncNotNeeded
<1>5. CASE SyncBegin
  BY <1>5 DEF SyncBegin, Next
<1>6. CASE ExecDrop \/ ExecRename \/ SkipCreate \/ ExecCreate \/ SetUserVersion
  BY <1>6, StatementKeepsSchema
<1>7. CASE Commit
  BY <1>7, CommitEnds DEF Next
<1>8. CASE Crash \/ Exit
  BY <1>8, DownRestarts DEF Crash, Exit, Next
<1>9. CASE UNCHANGED dbvars
  BY <1>9 DEF dbvars
<1> QED BY <1>1, <1>2, <1>3, <1>4, <1>5, <1>6, <1>7, <1>8, <1>9 DEF SqliteNext, Statement

LEMMA PlaceStep == ASSUME BaseInv, [SqliteNext]_dbvars PROVE PlaceInv'
<1> USE DEF PlaceInv, InStatements
<1>0. PlaceInv
  BY DEF BaseInv
<1>1. CASE Install
  BY <1>0, <1>1 DEF Install
<1>2. CASE Open
  BY <1>2, BaseFacts DEF Open
<1>3. CASE Migrate
  BY <1>0, <1>3 DEF Migrate, Include
<1>4. CASE SyncRefused \/ SyncNotNeeded
  BY <1>0, <1>4 DEF SyncRefused, SyncNotNeeded, vars
<1>5. CASE SyncBegin
  <2>1. /\ pc' = "unsynced" /\ UNCHANGED <<dbversion, userversion>>
        /\ schema' = TraceName(schema) /\ dbversion < schema.version
    BY <1>5 DEF SyncBegin, BeginSync
  <2>2. TraceName(schema') = schema' /\ schema'.version = schema.version
    BY <2>1, BaseFacts, TraceAgain, TraceNameKeeps
  <2> QED BY <1>0, <2>1, <2>2
<1>6. CASE ExecDrop \/ ExecRename \/ SkipCreate \/ ExecCreate
  <2>1. UNCHANGED vars
    BY <1>6, StatementKeepsSchema
  <2>2. UNCHANGED userversion /\ pc \in {"unsynced", "create"} /\ pc' \in {"unsynced", "create"}
    BY <1>6 DEF ExecDrop, ExecRename, SkipCreate, ExecCreate, InUnsynced, CreatePhase
  <2> QED BY <1>0, <2>1, <2>2 DEF vars
<1>7. CASE Commit
  <2>1. /\ pc' = "version" /\ dbversion' = schema.version /\ UNCHANGED userversion
        /\ schema'.version = schema.version /\ userversion < schema.version
    BY <1>7, CommitEnds DEF Commit
  <2> QED BY <2>1, BaseFacts
<1>8. CASE SetUserVersion
  <2>1. /\ pc' = "idle" /\ UNCHANGED <<schema, dbversion>>
        /\ userversion' = dbversion \/ userversion' = userversion
    BY <1>8 DEF SetUserVersion, vars
  <2> QED BY <1>0, <2>1, BaseFacts
<1>9. CASE Crash \/ Exit
  BY <1>9, BaseFacts DEF Crash, Exit, Down
<1>10. CASE UNCHANGED dbvars
  BY <1>0, <1>10 DEF dbvars, vars
<1> QED BY <1>1, <1>2, <1>3, <1>4, <1>5, <1>6, <1>7, <1>8, <1>9, <1>10 DEF SqliteNext, Statement

-----------------------------------------------------------------------------
(* What the statements do to a database.                                   *)

Databases == [table : [Name -> 0 .. MaxVersion], foreign : [Version -> Name \cup {NoName}]]

LEMMA DropIs ==
    ASSUME NEW d \in Databases, NEW n, NEW q, q = DropTableIfExists(d, n).db
    PROVE  /\ q \in Databases
           /\ \A m \in Name : q.table[m] = IF m = n THEN NoTable ELSE d.table[m]
           /\ q.foreign = d.foreign
<1> DEFINE table == [d.table EXCEPT ![n] = NoTable]
<1>1. q = [d EXCEPT !.table = table]
  BY DEF DropTableIfExists, Succeeds, Databases
<1>2. d.table \in [Name -> 0 .. MaxVersion]
  BY DEF Databases
<1>3. NoTable \in 0 .. MaxVersion
  BY VersionAssumption DEF NoTable
<1>4. /\ table \in [Name -> 0 .. MaxVersion]
      /\ \A m \in Name : table[m] = IF m = n THEN NoTable ELSE d.table[m]
  BY <1>2, <1>3
<1> HIDE DEF table
<1>5. q.table = table /\ q.foreign = d.foreign /\ q \in Databases
  BY <1>1, <1>4 DEF Databases
<1> QED BY <1>4, <1>5

Renamed(d, q, n, m) ==
    /\ d.table[n] # NoTable /\ d.table[m] = NoTable
    /\ \A k \in Name : q.table[k] = IF k = m THEN d.table[n]
                                    ELSE IF k = n THEN NoTable ELSE d.table[k]
    /\ \A o \in Version :
          q.foreign[o] = IF d.foreign[o] = n THEN m ELSE d.foreign[o]

LEMMA RenameIs ==
    ASSUME NEW d \in Databases, NEW n \in Name, NEW m \in Name, NEW q,
           q = AlterTableRename(d, n, m).db
    PROVE  /\ q \in Databases
           /\ \/ q = d /\ (d.table[n] = NoTable \/ d.table[m] # NoTable)
              \/ Renamed(d, q, n, m)
<1>1. CASE d.table[n] = NoTable \/ d.table[m] # NoTable
  BY <1>1 DEF AlterTableRename, Fails
<1>2. CASE d.table[n] # NoTable /\ d.table[m] = NoTable
  <2> DEFINE table == [d.table EXCEPT ![m] = d.table[n], ![n] = NoTable]
             foreign == [o \in Version |-> IF d.foreign[o] = n THEN m ELSE d.foreign[o]]
  <2>1. q = [table |-> table, foreign |-> foreign]
    BY <1>2 DEF AlterTableRename, Succeeds
  <2>2. /\ d.table \in [Name -> 0 .. MaxVersion] /\ d.foreign \in [Version -> Name \cup {NoName}]
        /\ NoTable \in 0 .. MaxVersion /\ n # m
    BY <1>2, VersionAssumption DEF Databases, NoTable
  <2>3. /\ table \in [Name -> 0 .. MaxVersion]
        /\ \A k \in Name : table[k] = IF k = m THEN d.table[n]
                                      ELSE IF k = n THEN NoTable ELSE d.table[k]
    BY <2>2
  <2>4. foreign \in [Version -> Name \cup {NoName}]
    BY <2>2
  <2>5. \A o \in Version : foreign[o] = IF d.foreign[o] = n THEN m ELSE d.foreign[o]
    OBVIOUS
  <2> HIDE DEF table, foreign
  <2>6. q \in Databases
    BY <2>1, <2>3, <2>4 DEF Databases
  <2>7. q.table = table /\ q.foreign = foreign
    BY <2>1
  <2> QED BY <1>2, <2>3, <2>5, <2>6, <2>7 DEF Renamed
<1> QED BY <1>1, <1>2

Created(d, q, o, n, f) ==
    /\ d.table[n] = NoTable
    /\ \A m \in Name : q.table[m] = IF m = n THEN o ELSE d.table[m]
    /\ \A p \in Version : q.foreign[p] = IF p = o THEN f ELSE d.foreign[p]

LEMMA CreateIs ==
    ASSUME NEW d \in Databases, NEW o \in Version, NEW n \in Name, NEW f \in Name \cup {NoName},
           NEW q, q = CreateTable(d, o, n, f).db
    PROVE  /\ q \in Databases
           /\ \/ q = d /\ d.table[n] # NoTable
              \/ Created(d, q, o, n, f)
<1>1. CASE d.table[n] # NoTable
  BY <1>1 DEF CreateTable, Fails
<1>2. CASE d.table[n] = NoTable
  <2> DEFINE table == [d.table EXCEPT ![n] = o]
             foreign == [d.foreign EXCEPT ![o] = f]
  <2>1. q = [d EXCEPT !.table = table, !.foreign = foreign]
    BY <1>2 DEF CreateTable, Succeeds, Databases
  <2>2. /\ d.table \in [Name -> 0 .. MaxVersion] /\ d.foreign \in [Version -> Name \cup {NoName}]
        /\ o \in 0 .. MaxVersion
    BY VersionAssumption DEF Databases, Version
  <2>3. /\ table \in [Name -> 0 .. MaxVersion]
        /\ \A m \in Name : table[m] = IF m = n THEN o ELSE d.table[m]
    BY <2>2
  <2>4. /\ foreign \in [Version -> Name \cup {NoName}]
        /\ \A p \in Version : foreign[p] = IF p = o THEN f ELSE d.foreign[p]
    BY <2>2
  <2> HIDE DEF table, foreign
  <2>5. q \in Databases /\ q.table = table /\ q.foreign = foreign
    BY <2>1, <2>3, <2>4 DEF Databases
  <2> QED BY <1>2, <2>3, <2>4, <2>5 DEF Created
<1> QED BY <1>1, <1>2

(* A statement is executed, with success or without, or is refused.        *)
LEMMA ExecIs ==
    ASSUME NEW result, NEW o, Exec(result, o)
    PROVE  \/ work' = result.db /\ UNCHANGED <<faults, refused>> /\ has_error' = ~result.ok
           \/ work' = work /\ Refuse(o) /\ has_error' = TRUE
  BY DEF Exec

LEMMA DatabasesTyped ==
    ASSUME BaseInv
    PROVE  /\ disk \in Databases /\ work \in Databases
           /\ disk.table \in [Name -> 0 .. MaxVersion] /\ work.table \in [Name -> 0 .. MaxVersion]
           /\ Version = 1 .. MaxVersion /\ MaxVersion \in Nat
<1>1. disk \in Databases /\ work \in Databases
  BY DEF BaseInv, SqliteTypeOK, Databases
<1> QED BY <1>1, VersionAssumption DEF Databases, Version

(* One unsynced table.                                                     *)
LEMMA UnsyncedIs ==
    ASSUME BaseInv, ExecDrop \/ ExecRename \/ SkipCreate,
           NEW o, o = schema.unsynced[node]
    PROVE  /\ pc = "unsynced" /\ node \in 1 .. Len(schema.unsynced) /\ node' = node + 1
           /\ o \in Version
           /\ UNCHANGED <<vars, disk, userversion, pc, tried, code, interrupted>>
           /\ work' \in Databases /\ has_error' \in BOOLEAN
           /\ \/ /\ work' = work /\ UNCHANGED <<faults, refused>>
                 /\ IsEntry(schema, o) /\ schema.old[o] = NoName
              \/ work' = work /\ Refuse(o)
              \/ /\ work' = DropTableIfExists(work, schema.old[o]).db
                 /\ UNCHANGED <<faults, refused>> /\ ~IsEntry(schema, o)
              \/ /\ IsEntry(schema, o) /\ schema.old[o] \in Name /\ schema.name[o] \in Name
                 /\ UNCHANGED <<faults, refused>>
                 /\ \/ /\ work' = work
                       /\ \/ work.table[schema.old[o]] = NoTable
                          \/ work.table[schema.name[o]] # NoTable
                    \/ Renamed(work, work', schema.old[o], schema.name[o])
<1>1. InUnsynced
  BY DEF ExecDrop, ExecRename, SkipCreate
<1>2. node \in 1 .. Len(schema.unsynced) + 1
  BY <1>1 DEF InUnsynced, BaseInv, SqliteTypeOK
<1>3. schema \in Schemas /\ work \in Databases /\ has_error \in BOOLEAN
  BY DEF BaseInv, IInv, TypeOK, SqliteTypeOK, Databases
<1>4. /\ Len(schema.unsynced) \in Nat /\ schema.unsynced \in Seq(Version)
      /\ schema.name \in [Version -> Name \cup {NoName}]
      /\ schema.old \in [Version -> Name \cup {NoName}]
  BY <1>3, Fields
<1>5. node \in 1 .. Len(schema.unsynced) /\ pc = "unsynced" /\ node' = node + 1
      /\ UNCHANGED <<vars, disk, userversion, pc, tried, code, interrupted>>
  BY <1>1, <1>2, <1>4 DEF InUnsynced
<1>6. o \in Version
  BY <1>4, <1>5
<1>7. CASE SkipCreate
  BY <1>3, <1>5, <1>6, <1>7 DEF SkipCreate, IsEntry
<1>8. CASE ExecDrop
  <2> DEFINE result == DropTableIfExists(work, schema.old[o])
  <2>1. Exec(result, o) /\ ~IsEntry(schema, o)
    BY <1>8 DEF ExecDrop, IsEntry
  <2>2. result.ok = TRUE /\ result.db \in Databases
    BY <1>3, DropIs DEF DropTableIfExists, Succeeds
  <2> QED BY <1>3, <1>5, <1>6, <2>1, <2>2, ExecIs
<1>9. CASE ExecRename
  <2> DEFINE result == AlterTableRename(work, schema.old[o], schema.name[o])
  <2>1. Exec(result, o) /\ schema.name[o] # NoName /\ schema.old[o] # NoName
    BY <1>9 DEF ExecRename
  <2>2. schema.name[o] \in Name /\ schema.old[o] \in Name /\ IsEntry(schema, o)
    BY <1>4, <1>6, <2>1 DEF IsEntry
  <2>3. result.ok \in BOOLEAN
    BY DEF AlterTableRename, Succeeds, Fails
  <2>4. /\ result.db \in Databases
        /\ \/ /\ result.db = work
              /\ \/ work.table[schema.old[o]] = NoTable
                 \/ work.table[schema.name[o]] # NoTable
           \/ Renamed(work, result.db, schema.old[o], schema.name[o])
    BY <1>3, <2>2, RenameIs
  <2> HIDE DEF result
  <2>5. \/ work' = result.db /\ UNCHANGED <<faults, refused>> /\ has_error' = ~result.ok
        \/ work' = work /\ Refuse(o) /\ has_error' = TRUE
    BY <2>1, ExecIs
  <2> QED BY <1>3, <1>5, <1>6, <2>2, <2>3, <2>4, <2>5
<1> QED BY <1>7, <1>8, <1>9

(* One table that is to be created.                                        *)
LEMMA CreateIsOne ==
    ASSUME BaseInv, ExecCreate
    PROVE  /\ CreatePhase /\ pc' = "create"
           /\ UNCHANGED <<vars, disk, userversion, node, code, interrupted>>
           /\ work' \in Databases /\ has_error' \in BOOLEAN
           /\ \E o \in Missing :
                 /\ o \in Version /\ IsEntry(schema, o) /\ o \notin schema.created
                 /\ o \notin tried /\ tried' = tried \cup {o}
                 /\ schema.name[o] \in Name
                 /\ \/ work' = work /\ Refuse(o)
                    \/ /\ UNCHANGED <<faults, refused>>
                       /\ \/ work' = work /\ work.table[schema.name[o]] # NoTable
                          \/ Created(work, work', o, schema.name[o], schema.foreign[o])
<1>1. PICK o \in Missing :
         /\ Exec(CreateTable(work, o, schema.name[o], schema.foreign[o]), o)
         /\ tried' = tried \cup {o}
  BY DEF ExecCreate
<1>2. /\ CreatePhase /\ pc' = "create"
      /\ UNCHANGED <<vars, disk, userversion, node, code, interrupted>>
  BY DEF ExecCreate
<1>3. schema \in Schemas /\ work \in Databases /\ has_error \in BOOLEAN
  BY DEF BaseInv, IInv, TypeOK, SqliteTypeOK, Databases
<1>4. /\ o \in Version /\ IsEntry(schema, o) /\ o \notin schema.created /\ o \notin tried
  BY DEF Missing, Entries
<1>5. schema.name[o] \in Name /\ schema.foreign[o] \in Name \cup {NoName}
  BY <1>3, <1>4, Fields DEF IsEntry
<1> DEFINE result == CreateTable(work, o, schema.name[o], schema.foreign[o])
<1>6. result.ok \in BOOLEAN
  BY DEF CreateTable, Succeeds, Fails
<1>7. /\ result.db \in Databases
      /\ \/ result.db = work /\ work.table[schema.name[o]] # NoTable
         \/ Created(work, result.db, o, schema.name[o], schema.foreign[o])
  BY <1>3, <1>4, <1>5, CreateIs
<1> HIDE DEF result
<1>8. \/ work' = result.db /\ UNCHANGED <<faults, refused>> /\ has_error' = ~result.ok
      \/ work' = work /\ Refuse(o) /\ has_error' = TRUE
  BY <1>1, ExecIs DEF result
<1> QED BY <1>1, <1>2, <1>3, <1>4, <1>5, <1>6, <1>7, <1>8

LEMMA RefuseTyped ==
    ASSUME NEW o \in Version \cup {TheVersion}, Refuse(o),
           faults \in 0 .. MaxFaults, refused \subseteq Version \cup {TheVersion}
    PROVE  faults' \in 0 .. MaxFaults /\ refused' \subseteq Version \cup {TheVersion}
<1>1. MaxFaults \in Nat
  BY BoundAssumption
<1> QED BY <1>1 DEF Refuse

LEMMA TypeStep == ASSUME BaseInv, [SqliteNext]_dbvars PROVE SqliteTypeOK'
<1>0. SqliteTypeOK
  BY DEF BaseInv
<1>1. TypeOK'
  <2>1. IInv'
    BY StepMaps, StepKeeps DEF BaseInv
  <2> QED BY <2>1 DEF IInv
<1>2. CASE Install
  <2>1. UNCHANGED <<schema, disk, work, userversion, pc, loops, has_error, code, bounds>>
    BY <1>2 DEF Install
  <2> QED BY <1>0, <1>1, <2>1 DEF SqliteTypeOK, loops, bounds
<1>3. CASE Open
  <2>1. /\ UNCHANGED <<schema, disk, work, userversion, loops, has_error, code, bounds>>
        /\ pc' = "idle"
    BY <1>3 DEF Open
  <2> QED BY <1>0, <1>1, <2>1 DEF SqliteTypeOK, loops, bounds
<1>4. CASE Migrate
  <2>1. /\ UNCHANGED <<disk, work, userversion, pc, loops, has_error, code, bounds>>
        /\ pc = "idle"
    BY <1>4 DEF Migrate
  <2> QED BY <1>0, <1>1, <2>1 DEF SqliteTypeOK, loops, bounds
<1>5. CASE SyncRefused \/ SyncNotNeeded
  <2>1. /\ UNCHANGED <<schema, disk, work, userversion, pc, loops, has_error, bounds>>
        /\ code' \in {"CAN_NOT_SYNC", "OK"}
    BY <1>5 DEF SyncRefused, SyncNotNeeded, vars
  <2> QED BY <1>0, <1>1, <2>1 DEF SqliteTypeOK, loops, bounds
<1>6. CASE SyncBegin
  <2>1. /\ UNCHANGED <<disk, userversion, faults, refused>>
        /\ work' = disk /\ has_error' = FALSE /\ code' = "NONE" /\ interrupted' = TRUE
        /\ pc' = "unsynced" /\ node' = 1 /\ tried' = {}
    BY <1>6 DEF SyncBegin
  <2>2. Len(schema'.unsynced) \in Nat
    BY <1>1, Fields DEF TypeOK
  <2>3. node' \in 1 .. Len(schema'.unsynced) + 1
    BY <2>1, <2>2
  <2> QED BY <1>0, <1>1, <2>1, <2>3 DEF SqliteTypeOK
<1>7. CASE ExecDrop \/ ExecRename \/ SkipCreate
  <2> DEFINE o == schema.unsynced[node]
  <2>1. /\ node \in 1 .. Len(schema.unsynced) /\ node' = node + 1 /\ o \in Version
        /\ UNCHANGED <<vars, disk, userversion, pc, tried, code, interrupted>>
        /\ work' \in Databases /\ has_error' \in BOOLEAN
        /\ UNCHANGED <<faults, refused>> \/ Refuse(o)
    BY <1>7, UnsyncedIs
  <2>2. faults' \in 0 .. MaxFaults /\ refused' \subseteq Version \cup {TheVersion}
    BY <1>0, <2>1, RefuseTyped DEF SqliteTypeOK
  <2>3. Len(schema.unsynced) \in Nat
    BY <1>0, Fields DEF SqliteTypeOK, TypeOK
  <2>4. node' \in 1 .. Len(schema'.unsynced) + 1
    BY <2>1, <2>3 DEF vars
  <2> QED BY <1>0, <1>1, <2>1, <2>2, <2>4 DEF SqliteTypeOK, Databases
<1>8. CASE ExecCreate
  <2>1. /\ CreatePhase /\ pc' = "create"
        /\ UNCHANGED <<vars, disk, userversion, node, code, interrupted>>
        /\ work' \in Databases /\ has_error' \in BOOLEAN
        /\ \E o \in Version :
              /\ tried' = tried \cup {o}
              /\ UNCHANGED <<faults, refused>> \/ Refuse(o)
    BY <1>8, CreateIsOne
  <2>2. PICK o \in Version :
           /\ tried' = tried \cup {o}
           /\ UNCHANGED <<faults, refused>> \/ Refuse(o)
    BY <2>1
  <2>3. faults' \in 0 .. MaxFaults /\ refused' \subseteq Version \cup {TheVersion}
    BY <1>0, <2>2, RefuseTyped DEF SqliteTypeOK
  <2>4. node' \in 1 .. Len(schema'.unsynced) + 1
    BY <1>0, <2>1 DEF vars, CreatePhase, SqliteTypeOK
  <2> QED BY <1>0, <1>1, <2>1, <2>2, <2>3, <2>4 DEF SqliteTypeOK, Databases
<1>9. CASE Commit
  <2>1. /\ UNCHANGED <<work, userversion, loops, code, bounds>>
        /\ disk' = work /\ has_error' = FALSE /\ pc' = "version"
    BY <1>9 DEF Commit
  <2> QED BY <1>0, <1>1, <2>1 DEF SqliteTypeOK, loops, bounds
<1>10. CASE SetUserVersion
  <2>1. /\ UNCHANGED <<vars, disk, work, loops>> /\ pc' = "idle"
        /\ code' \in {"EXEC_ERROR", "OK"} /\ has_error' \in BOOLEAN
        /\ interrupted' \in {FALSE, interrupted} /\ userversion' \in {dbversion, userversion}
        /\ UNCHANGED <<faults, refused>> \/ Refuse(TheVersion)
    BY <1>10 DEF SetUserVersion
  <2>2. faults' \in 0 .. MaxFaults /\ refused' \subseteq Version \cup {TheVersion}
    BY <1>0, <2>1, RefuseTyped DEF SqliteTypeOK
  <2>3. dbversion \in 0 .. MaxVersion
    BY BaseFacts
  <2> QED BY <1>0, <1>1, <2>1, <2>2, <2>3 DEF SqliteTypeOK, loops
<1>11. CASE Crash \/ Exit
  <2>1. /\ UNCHANGED <<disk, userversion, interrupted, refused>>
        /\ work' = disk /\ pc' = "down" /\ tried' = {} /\ has_error' = FALSE /\ code' = "NONE"
    BY <1>11 DEF Crash, Exit, Down
  <2>2. faults' \in 0 .. MaxFaults
    <3>1. MaxFaults \in Nat /\ faults \in 0 .. MaxFaults
      BY <1>0, BoundAssumption DEF SqliteTypeOK
    <3> QED BY <1>11, <3>1 DEF Crash, Exit
  <2> QED BY <1>0, <1>1, <2>1, <2>2 DEF SqliteTypeOK
<1>12. CASE UNCHANGED dbvars
  BY <1>0, <1>1, <1>12 DEF dbvars, vars, loops, bounds, SqliteTypeOK
<1> QED BY <1>2, <1>3, <1>4, <1>5, <1>6, <1>7, <1>8, <1>9, <1>10, <1>11, <1>12
        DEF SqliteNext, Statement

LEMMA BaseStep == ASSUME BaseInv, [SqliteNext]_dbvars PROVE BaseInv'
<1>1. [Next]_vars
  BY StepMaps
<1>2. IInv' /\ KeepsNames(schema')
  BY <1>1, StepKeeps, RecordsStep DEF BaseInv
<1> QED BY <1>2, PlaceStep, TypeStep DEF BaseInv

LEMMA SqliteInitBase == SqliteInit => BaseInv
<1> SUFFICES ASSUME SqliteInit PROVE BaseInv
  OBVIOUS
<1>1. IInv
  BY InitIInv DEF SqliteInit
<1>2. schema = EmptySchema /\ dbversion = 0
  BY DEF SqliteInit, Init
<1>3. KeepsNames(schema)
  BY <1>2, EmptyKeeps DEF EmptySchema
<1>4. PlaceInv
  BY <1>2 DEF SqliteInit, PlaceInv, InStatements
<1>5. SqliteTypeOK
  <2>1. EmptyDatabase \in Databases
    BY VersionAssumption DEF EmptyDatabase, Databases, NoTable, NoNames
  <2>2. 0 \in 0 .. MaxVersion /\ 0 \in 0 .. MaxFaults
    BY VersionAssumption, BoundAssumption
  <2> QED BY <1>1, <2>1, <2>2 DEF SqliteInit, SqliteTypeOK, IInv, Databases
<1> QED BY <1>1, <1>3, <1>4, <1>5 DEF BaseInv

(* The first layer of the invariant: at every step of the program the      *)
(* schema and its records fit each other, and the program is where memory  *)
(* and database allow it to be (sqdb_sqlite_migrate()).                    *)
THEOREM BaseInvariance == SqliteSpec => []BaseInv
<1>1. SqliteInit => BaseInv
  BY SqliteInitBase
<1>2. BaseInv /\ [SqliteNext]_dbvars => BaseInv'
  BY BaseStep
<1> QED BY <1>1, <1>2, PTL DEF SqliteSpec

(* Every variable has its type, also after a crash in the middle of a      *)
(* synchronization.                                                        *)
THEOREM SqliteTypeCorrect == SqliteSpec => []SqliteTypeOK
<1>1. BaseInv => SqliteTypeOK
  BY DEF BaseInv
<1> QED BY <1>1, BaseInvariance, PTL

(* The program with its database migrates the schema as SchemaMigration    *)
(* says: the synchronization traces before its first statement, erases     *)
(* with its COMMIT, and whatever ends the program is a restart.            *)
THEOREM Implementation == SqliteSpec => ImplementsSchemaMigration
<1>1. SqliteInit => Init
  BY DEF SqliteInit
<1>2. BaseInv /\ [SqliteNext]_dbvars => [Next]_vars
  BY StepMaps
<1> QED BY <1>1, <1>2, BaseInvariance, PTL DEF SqliteSpec, ImplementsSchemaMigration, Spec

-----------------------------------------------------------------------------
(* Who had which name.                                                     *)

LEMMA MeantNames ==
    ASSUME NEW named \in [Name -> 0 .. MaxVersion], NEW v \in Version, NEW c,
           Legal(named, c), \A n \in Name : named[n] <= v - 1,
           \A n, m \in Name : named[n] = named[m] /\ named[n] # NoTable => n = m,
           NEW meant, meant = Meant(named, v, c)
    PROVE  /\ \A n, m \in Name : meant[n] = meant[m] /\ meant[n] # NoTable => n = m
           /\ \A n \in Name : meant[n] \in {named[n], NoTable} \/ n = c.name
           /\ \A n \in Name : meant[n] = v \/ meant[n] = NoTable
                                 \/ \E m \in Name : named[m] = meant[n]
<1>0. \A n \in Name : named[n] # v
  <2>1. v \in Int /\ \A n \in Name : named[n] \in Int
    BY DEF Version
  <2> QED BY <2>1
<1>1. CASE meant = named
  BY <1>1
<1>2. CASE c.name \in Name /\ named[c.name] = NoTable /\ meant = [named EXCEPT ![c.name] = v]
  BY <1>0, <1>2
<1>3. CASE c.old \in Name /\ meant = [named EXCEPT ![c.old] = NoTable]
  BY <1>3
<1>4. CASE /\ c.name \in Name /\ named[c.name] = NoTable /\ c.old \in Name /\ c.old # c.name
           /\ meant = [named EXCEPT ![c.name] = named[c.old], ![c.old] = NoTable]
  <2>1. \A n \in Name : meant[n] = IF n = c.old THEN NoTable
                                   ELSE IF n = c.name THEN named[c.old] ELSE named[n]
    BY <1>4
  <2> QED BY <1>4, <2>1
<1>5. c.do \in {"add", "drop", "rename"}
  BY DEF Legal
<1>6. CASE c.do = "add"
  <2>1. meant = named \/ (named[c.name] = NoTable /\ meant = [named EXCEPT ![c.name] = v])
    BY <1>6 DEF Meant
  <2>2. c.name \in Name
    BY <1>6 DEF Legal
  <2> QED BY <1>1, <1>2, <2>1, <2>2
<1>7. CASE c.do = "drop"
  <2>1. meant = [named EXCEPT ![c.old] = NoTable]
    BY <1>7 DEF Meant
  <2>2. c.old \in Name
    BY <1>7 DEF Legal
  <2> QED BY <1>3, <2>1, <2>2
<1>8. CASE c.do = "rename"
  <2>1. \/ meant = named
        \/ meant = [named EXCEPT ![c.name] = named[c.old], ![c.old] = NoTable]
    BY <1>8 DEF Meant
  <2>2. c.name \in Name /\ named[c.name] = NoTable /\ c.old \in Name /\ c.old # c.name
    BY <1>8 DEF Legal
  <2> QED BY <1>1, <1>4, <2>1, <2>2
<1> QED BY <1>5, <1>6, <1>7, <1>8

(* A release adds one version to what is known.                            *)
LEMMA InstallAdds ==
    ASSUME BaseInv, Install
    PROVE  \E c \in Change :
              /\ Legal(ideal[latest], c)
              /\ latest' = latest + 1 /\ latest + 1 \in Version
              /\ history' = [history EXCEPT ![latest + 1] = c]
              /\ history'[latest + 1] = c
              /\ \A v \in 1 .. latest : history'[v] = history[v]
              /\ ideal' = [ideal EXCEPT ![latest + 1] = Meant(ideal[latest], latest + 1, c)]
              /\ ideal'[latest + 1] = Meant(ideal[latest], latest + 1, c)
              /\ \A v \in 0 .. MaxVersion : v # latest + 1 => ideal'[v] = ideal[v]
<1>1. TypeOK
  BY DEF BaseInv, IInv
<1>2. PICK c \in Change : Release(c) /\ Legal(ideal[latest], c)
  BY <1>1, ReleasesLegal DEF Install
<1>3. /\ latest' = latest + 1
      /\ history' = [history EXCEPT ![latest + 1] = c]
      /\ ideal' = [ideal EXCEPT ![latest + 1] = Meant(ideal[latest], latest + 1, c)]
  BY <1>2 DEF Release
<1>4. latest \in Nat /\ latest + 1 \in Version /\ latest + 1 \in 0 .. MaxVersion
      /\ 1 .. latest \subseteq Version
  <2>1. latest \in Nat /\ latest < MaxVersion /\ MaxVersion \in Nat
    BY <1>2, BaseFacts DEF Release
  <2> QED BY <2>1 DEF Version
<1>5. history \in [Version -> Change] /\ DOMAIN ideal = 0 .. MaxVersion
  BY <1>1 DEF TypeOK
<1>6. history'[latest + 1] = c /\ \A v \in 1 .. latest : history'[v] = history[v]
  <2>1. latest + 1 \notin 1 .. latest
    BY <1>4
  <2> QED BY <1>3, <1>4, <1>5, <2>1
<1>7. /\ ideal'[latest + 1] = Meant(ideal[latest], latest + 1, c)
      /\ \A v \in 0 .. MaxVersion : v # latest + 1 => ideal'[v] = ideal[v]
  BY <1>3, <1>4, <1>5
<1> QED BY <1>2, <1>3, <1>4, <1>6, <1>7

(* Every other step leaves the releases alone.                             *)
LEMMA OnlyInstallReleases ==
    ASSUME BaseInv, [SqliteNext]_dbvars
    PROVE  Install \/ UNCHANGED program
<1>1. CASE Migrate \/ SyncBegin \/ Commit
  BY <1>1 DEF Migrate, Include, SyncBegin, BeginSync, Commit, program
<1>2. CASE Open \/ Crash \/ Exit
  BY <1>2 DEF Open, Crash, Exit, Down
<1>3. CASE SyncRefused \/ SyncNotNeeded
  BY <1>3 DEF SyncRefused, SyncNotNeeded, vars, program
<1>4. CASE ExecDrop \/ ExecRename \/ SkipCreate \/ ExecCreate \/ SetUserVersion
  BY <1>4, StatementKeepsSchema DEF vars, program
<1>5. CASE UNCHANGED dbvars
  BY <1>5 DEF dbvars, vars, program
<1> QED BY <1>1, <1>2, <1>3, <1>4, <1>5 DEF SqliteNext, Statement

LEMMA NamesStep == ASSUME BaseInv, NamesInv, [SqliteNext]_dbvars PROVE NamesInv'
<1>1. CASE UNCHANGED program
  BY <1>1 DEF program, NamesInv, IsNamed
<1>2. CASE Install
  <2> DEFINE v == latest + 1
             meant == ideal'[v]
             named == ideal[latest]
  <2>1. PICK c \in Change :
              /\ Legal(ideal[latest], c) /\ latest' = v /\ v \in Version
              /\ meant = Meant(named, v, c)
              /\ \A w \in 0 .. MaxVersion : w # v => ideal'[w] = ideal[w]
    BY <1>2, InstallAdds
  <2>2. latest \in Nat /\ latest \in 0 .. MaxVersion /\ MaxVersion \in Nat
    BY BaseFacts
  <2>3. /\ named \in [Name -> 0 .. MaxVersion] /\ \A n \in Name : named[n] <= v - 1
    <3>1. /\ ideal \in [0 .. MaxVersion -> [Name -> 0 .. MaxVersion]]
          /\ \A n \in Name : ideal[latest][n] <= latest
      BY <2>2 DEF BaseInv, IInv, TypeOK, ReleasesInv
    <3>2. v - 1 = latest
      BY <2>2
    <3> QED BY <2>2, <3>1, <3>2
  <2>4. /\ \A n, m \in Name : meant[n] = meant[m] /\ meant[n] # NoTable => n = m
        /\ \A n \in Name : meant[n] = v \/ meant[n] = NoTable
                              \/ \E m \in Name : named[m] = meant[n]
    <3>1. \A n, m \in Name : named[n] = named[m] /\ named[n] # NoTable => n = m
      BY <2>2 DEF NamesInv
    <3> HIDE DEF v, meant, named
    <3> QED BY <2>1, <2>3, <3>1, MeantNames DEF named
  <2>5. \A w \in 0 .. MaxVersion : \A n, m \in Name :
           ideal'[w][n] = ideal'[w][m] /\ ideal'[w][n] # NoTable => n = m
    BY <2>1, <2>4 DEF NamesInv
  <2>6. ASSUME NEW u \in 0 .. latest', NEW w \in 0 .. latest', NEW o \in Version,
               o <= u, u <= w, IsNamed(w, o)'
        PROVE  IsNamed(u, o)'
    <3>1. u \in Nat /\ w \in Nat /\ o \in Nat /\ o # NoTable
      BY <2>1, <2>2 DEF Version, NoTable
    <3>2. CASE u = w
      BY <2>6, <3>2
    <3>3. CASE u # w
      <4>1. u \in 0 .. latest /\ u \in 0 .. MaxVersion /\ u # v /\ o # v /\ u <= latest
        BY <2>1, <2>2, <2>6, <3>1, <3>3
      <4>2. ideal'[u] = ideal[u]
        BY <2>1, <4>1
      <4>3. CASE w = v
        <5>1. PICK n \in Name : meant[n] = o
          BY <2>6, <4>3 DEF IsNamed
        <5>2. \E m \in Name : named[m] = o
          BY <2>4, <3>1, <4>1, <5>1
        <5>3. IsNamed(latest, o) /\ latest \in 0 .. latest
          BY <2>2, <5>2 DEF IsNamed
        <5>4. IsNamed(u, o)
          BY <2>6, <4>1, <5>3 DEF NamesInv
        <5> QED BY <4>2, <5>4 DEF IsNamed
      <4>4. CASE w # v
        <5>1. w \in 0 .. latest /\ w \in 0 .. MaxVersion
          BY <2>1, <2>2, <4>4
        <5>2. ideal'[w] = ideal[w]
          BY <2>1, <4>4, <5>1
        <5>3. IsNamed(w, o)
          BY <2>6, <5>2 DEF IsNamed
        <5>4. IsNamed(u, o)
          BY <2>6, <4>1, <5>1, <5>3 DEF NamesInv
        <5> QED BY <4>2, <5>4 DEF IsNamed
      <4> QED BY <4>3, <4>4
    <3> QED BY <3>2, <3>3
  <2> QED BY <2>5, <2>6 DEF NamesInv
<1> QED BY <1>1, <1>2, OnlyInstallReleases

LEMMA OwnersKeep ==
    ASSUME BaseInv, [SqliteNext]_dbvars, NEW o, NEW n, Owns(o, n)
    PROVE  Owns(o, n)'
<1>1. CASE UNCHANGED program
  BY <1>1 DEF program, Owns
<1>2. CASE Install
  <2>1. /\ latest' = latest + 1
        /\ \A v \in 0 .. MaxVersion : v # latest + 1 => ideal'[v] = ideal[v]
    BY <1>2, InstallAdds
  <2>2. PICK v \in 0 .. latest : ideal[v][n] = o
    BY DEF Owns
  <2>3. v \in 0 .. MaxVersion /\ v # latest + 1 /\ v \in 0 .. latest'
    BY <2>1, BaseFacts
  <2> QED BY <2>1, <2>2, <2>3 DEF Owns
<1> QED BY <1>1, <1>2, OnlyInstallReleases

LEMMA OwnersStep ==
    ASSUME FreshNames, BaseInv, NamesInv, OwnersInv, [SqliteNext]_dbvars
    PROVE  OwnersInv'
<1>1. CASE UNCHANGED program
  BY <1>1 DEF program, OwnersInv, Owns
<1>2. CASE Install
  <2> DEFINE v == latest + 1
             meant == ideal'[v]
             named == ideal[latest]
  <2>1. PICK c \in Change :
              /\ Legal(ideal[latest], c) /\ latest' = v /\ v \in Version
              /\ history'[v] = c /\ \A w \in 1 .. latest : history'[w] = history[w]
              /\ meant = Meant(named, v, c)
              /\ \A w \in 0 .. MaxVersion : w # v => ideal'[w] = ideal[w]
    BY <1>2, InstallAdds
  <2>2. latest \in Nat /\ latest \in 0 .. MaxVersion /\ MaxVersion \in Nat
    BY BaseFacts
  <2>3. \A n \in Name : meant[n] \in {named[n], NoTable} \/ n = c.name
    <3>1. /\ ideal \in [0 .. MaxVersion -> [Name -> 0 .. MaxVersion]]
          /\ \A n \in Name : ideal[latest][n] <= latest
      BY <2>2 DEF BaseInv, IInv, TypeOK, ReleasesInv
    <3>2. v - 1 = latest
      BY <2>2
    <3>3. named \in [Name -> 0 .. MaxVersion] /\ \A n \in Name : named[n] <= v - 1
      BY <2>2, <3>1, <3>2
    <3>4. \A n, m \in Name : named[n] = named[m] /\ named[n] # NoTable => n = m
      BY <2>2 DEF NamesInv
    <3> HIDE DEF v, meant, named
    <3> QED BY <2>1, <3>3, <3>4, MeantNames DEF named
  <2>4. ASSUME c.name \in Name, NEW p \in Version PROVE ~Owns(p, c.name)
    <3>1. \A w \in 1 .. latest : history[w].name # c.name
      BY <1>2, <2>1, <2>4 DEF Install, NewNames
    <3> QED BY <2>4, <3>1 DEF OwnersInv
  <2>5. ASSUME NEW p \in Version, NEW n \in Name, Owns(p, n)'
        PROVE  Owns(p, n) \/ (n = c.name /\ meant[n] = p)
    <3>1. PICK w \in 0 .. latest' : ideal'[w][n] = p
      BY <2>5 DEF Owns
    <3>2. CASE w = v
      <4>1. meant[n] = named[n] \/ n = c.name
        BY <2>3, <3>1, <3>2 DEF Version, NoTable
      <4>2. latest \in 0 .. latest
        BY <2>2
      <4> QED BY <3>1, <3>2, <4>1, <4>2 DEF Owns
    <3>3. CASE w # v
      <4>1. w \in 0 .. latest /\ w \in 0 .. MaxVersion
        BY <2>1, <2>2, <3>3
      <4> QED BY <2>1, <3>1, <3>3, <4>1 DEF Owns
    <3> QED BY <3>2, <3>3
  <2>6. \A o, p \in Version : \A n \in Name : Owns(o, n)' /\ Owns(p, n)' => o = p
    BY <2>4, <2>5 DEF OwnersInv
  <2>7. ASSUME NEW p \in Version, NEW n \in Name, Owns(p, n)'
        PROVE  \E w \in 1 .. latest' : history'[w].name = n
    <3>1. CASE Owns(p, n)
      <4>1. PICK w \in 1 .. latest : history[w].name = n
        BY <3>1 DEF OwnersInv
      <4>2. w \in 1 .. latest'
        BY <2>1, <2>2
      <4> QED BY <2>1, <4>1, <4>2
    <3>2. CASE n = c.name
      <4>1. v \in 1 .. latest'
        BY <2>1, <2>2
      <4> QED BY <2>1, <3>2, <4>1
    <3> QED BY <2>5, <2>7, <3>1, <3>2
  <2> QED BY <2>6, <2>7 DEF OwnersInv
<1> QED BY <1>1, <1>2, OnlyInstallReleases

-----------------------------------------------------------------------------
(* The database knows names by their owners.                               *)

(* An old name that the next migration notes is the name so far.           *)
LEMMA IncludedOld ==
    ASSUME NEW s, NEW v \in Version, NEW c \in Change, NEW named, NEW target,
           Before(s, v, named, target), Legal(named, c),
           target[v] = IF c.foreign = NoName THEN NoTable ELSE Meant(named, v, c)[c.foreign]
    PROVE  \A o \in Version : Included(s, v, c).old[o] \in {s.old[o], s.name[o]}
<1> DEFINE r == Apply(s, v, c)
<1>1. s \in Schemas /\ Unambiguous(s) /\ Follow(s, target)
      /\ s.old \in [Version -> Name \cup {NoName}] /\ s.name \in [Version -> Name \cup {NoName}]
  BY Fields DEF Before
<1>2. r \in Schemas
  <2>1. After(s, r, v, Meant(named, v, c), target)
    BY Applied
  <2> QED BY <2>1 DEF After
<1>3. Included(s, v, c).old = r.old
  BY <1>2 DEF Included, Schemas
<1>4. CASE c.do = "add" /\ \A o \in Version : s.name[o] # c.name
  <2>1. r = Add(s, v, c) /\ c.name \in Name
    BY <1>4 DEF Apply, Legal
  <2>2. IsAdded(s, ReuseName(s, c.name), Add(s, v, c), v, c.name, c.foreign)
    BY <1>1, <1>4, <2>1, AddFields
  <2>3. Add(s, v, c).old = s.old
    BY <2>2 DEF IsAdded
  <2> QED BY <1>3, <2>1, <2>3
<1>5. CASE c.do # "add" /\ \E o \in Version : s.name[o] = c.old
  <2> DEFINE p == CHOOSE o \in Version : s.name[o] = c.old
  <2>1. p \in Version /\ s.name[p] \in Name
    <3>1. c.old \in Name
      BY <1>5 DEF Legal
    <3> QED BY <1>5, <3>1
  <2>2. r = IF c.do = "drop" THEN Drop(s, p) ELSE Rename(s, p, c.name)
    BY <1>5 DEF Apply
  <2> HIDE DEF p, r
  <2>3. CASE c.do = "drop"
    <3>1. IsDropped(s, r, p)
      BY <1>1, <2>1, <2>2, <2>3, DropFields
    <3>2. r.old = [s.old EXCEPT ![p] = IF s.old[p] = NoName THEN s.name[p] ELSE s.old[p]]
      BY <3>1 DEF IsDropped
    <3> QED BY <1>1, <1>3, <3>2
  <2>4. CASE c.do # "drop"
    <3>1. c.name \in Name
      BY <1>5, <2>4 DEF Legal
    <3>2. IsRenamed(s, ReuseName(s, c.name), r, p, c.name)
      BY <1>1, <2>1, <2>2, <2>4, <3>1, RenameFields
    <3> DEFINE first == p \in s.created /\ p \notin Range(s.unsynced)
    <3>3. r.old = [s.old EXCEPT ![p] =
                      IF first /\ s.old[p] = NoName THEN s.name[p] ELSE s.old[p]]
      BY <3>2 DEF IsRenamed
    <3> HIDE DEF first
    <3> QED BY <1>1, <1>3, <3>3
  <2> QED BY <2>3, <2>4
<1>6. CASE r = s
  BY <1>3, <1>6
<1>7. CASE c.do = "add" /\ \E o \in Version : s.name[o] = c.name
  BY <1>6, <1>7 DEF Apply, Add
<1>8. CASE c.do # "add" /\ \A o \in Version : s.name[o] # c.old
  BY <1>6, <1>8 DEF Apply
<1> QED BY <1>4, <1>5, <1>7, <1>8

LEMMA EntryOwns ==
    ASSUME BaseInv, NEW o \in Version, IsEntry(schema, o)
    PROVE  schema.name[o] \in Name /\ Owns(o, schema.name[o])
<1>1. schema.name[o] \in Name
  BY BaseFacts, Fields DEF IsEntry
<1>2. ideal[schema.version][schema.name[o]] = o
  BY <1>1, BaseFacts DEF IsMeant
<1>3. schema.version \in 0 .. latest
  BY BaseFacts
<1> QED BY <1>1, <1>2, <1>3 DEF Owns

(* What each kind of statement leaves of a database that knows names by    *)
(* their owners.                                                           *)
LEMMA OwnedAfterDrop ==
    ASSUME BaseInv, OwnersInv, OwnedInv, NEW o \in Version, ~IsEntry(schema, o),
           NEW q, q = DropTableIfExists(work, schema.old[o]).db
    PROVE  /\ IsOwned(q)
           /\ \A p \in Version : IsEntry(schema, p) /\ Holds(work, p) => Holds(q, p)
<1>1. \A m \in Name : q.table[m] = IF m = schema.old[o] THEN NoTable ELSE work.table[m]
  BY DatabasesTyped, DropIs
<1>2. IsOwned(q)
  BY <1>1 DEF OwnedInv, IsOwned
<1>3. ASSUME NEW p \in Version, IsEntry(schema, p), NEW n \in Name, work.table[n] = p
      PROVE  q.table[n] = p
  <2>1. Owns(p, n)
    BY <1>3 DEF OwnedInv, IsOwned, NoTable, Version
  <2>2. ASSUME n = schema.old[o] PROVE FALSE
    <3>1. Owns(o, n)
      BY <2>2, NameAssumption DEF OwnedInv
    <3>2. o = p
      BY <2>1, <3>1 DEF OwnersInv
    <3> QED BY <1>3, <3>2
  <2> QED BY <1>1, <1>3, <2>2
<1> QED BY <1>2, <1>3 DEF Holds

LEMMA OwnedAfterRename ==
    ASSUME BaseInv, OwnersInv, OwnedInv, NEW o \in Version, IsEntry(schema, o),
           schema.old[o] \in Name, NEW q,
           Renamed(work, q, schema.old[o], schema.name[o])
    PROVE  /\ IsOwned(q)
           /\ work.table[schema.old[o]] = o
           /\ \A p \in Version : Holds(work, p) => Holds(q, p)
<1> DEFINE n == schema.old[o]
           m == schema.name[o]
<1>1. m \in Name /\ Owns(o, m) /\ Owns(o, n)
  BY EntryOwns, NameAssumption DEF OwnedInv
<1>2. /\ work.table[n] # NoTable /\ work.table[m] = NoTable
      /\ \A k \in Name : q.table[k] = IF k = m THEN work.table[n]
                                      ELSE IF k = n THEN NoTable ELSE work.table[k]
  BY DEF Renamed
<1>3. work.table[n] = o
  <2>1. Owns(work.table[n], n) /\ work.table[n] \in Version
    BY <1>2, DatabasesTyped DEF OwnedInv, IsOwned, NoTable
  <2> QED BY <1>1, <2>1 DEF OwnersInv
<1> HIDE DEF n, m
<1>4. IsOwned(q)
  BY <1>1, <1>2, <1>3 DEF OwnedInv, IsOwned
<1>5. ASSUME NEW p \in Version, NEW k \in Name, work.table[k] = p
      PROVE  Holds(q, p)
  <2>1. CASE k = n
    BY <1>1, <1>2, <1>5, <2>1 DEF Holds
  <2>2. CASE k # n
    <3>1. k # m
      BY <1>2, <1>5, DatabasesTyped DEF NoTable
    <3> QED BY <1>2, <1>5, <2>2, <3>1 DEF Holds
  <2> QED BY <2>1, <2>2
<1> QED BY <1>3, <1>4, <1>5 DEF Holds, n

LEMMA OwnedAfterCreate ==
    ASSUME BaseInv, OwnedInv, NEW o \in Version, IsEntry(schema, o), NEW q, NEW f,
           Created(work, q, o, schema.name[o], f)
    PROVE  /\ IsOwned(q)
           /\ \A p \in Version : Holds(work, p) => Holds(q, p)
<1>1. schema.name[o] \in Name /\ Owns(o, schema.name[o])
  BY EntryOwns
<1>2. /\ work.table[schema.name[o]] = NoTable
      /\ \A m \in Name : q.table[m] = IF m = schema.name[o] THEN o ELSE work.table[m]
  BY DEF Created
<1>3. IsOwned(q)
  BY <1>1, <1>2 DEF OwnedInv, IsOwned
<1>4. ASSUME NEW p \in Version, NEW k \in Name, work.table[k] = p
      PROVE  q.table[k] = p
  BY <1>2, <1>4, DatabasesTyped DEF NoTable
<1> QED BY <1>3, <1>4 DEF Holds

(* A table that is executed, refused or skipped: what it takes for the     *)
(* invariant to hold after it.                                             *)
LEMMA OwnedWork ==
    ASSUME BaseInv, OwnedInv, UNCHANGED vars, UNCHANGED disk, InStatements', IsOwned(work'),
           \A p \in Version : IsEntry(schema, p) /\ Holds(work, p) => Holds(work', p)
    PROVE  OwnedInv'
<1>1. \A o, n : Owns(o, n)' <=> Owns(o, n)
  BY DEF vars, Owns
<1>2. \A o \in Version : schema.old[o] # NoName => Owns(o, schema.old[o])
  BY DEF OwnedInv
<1>3. (\A o \in Version : schema.old[o] # NoName => Owns(o, schema.old[o]))'
  BY <1>1, <1>2 DEF vars
<1>4. IsOwned(disk)' /\ IsOwned(work)'
  BY <1>1 DEF IsOwned, OwnedInv
<1>5. (\A o \in Version : IsEntry(schema, o) /\ Holds(disk, o) => Holds(work, o))'
  BY DEF OwnedInv, vars, Holds, IsEntry
<1> QED BY <1>3, <1>4, <1>5 DEF OwnedInv

(* Outside the statements the transaction is over.                         *)
LEMMA OwnedIdle ==
    ASSUME BaseInv, OwnedInv, [SqliteNext]_dbvars, work' = disk', ~InStatements',
           disk' = disk \/ disk' = work,
           \A o \in Version : schema'.old[o] # NoName =>
               schema'.old[o] = schema.old[o] \/ Owns(o, schema'.old[o])
    PROVE  OwnedInv'
<1>1. (\A o \in Version : schema.old[o] # NoName => Owns(o, schema.old[o]))'
  <2>1. ASSUME NEW o \in Version, NEW n, schema'.old[o] = n, n # NoName
        PROVE  Owns(o, n)'
    <3>1. Owns(o, n)
      BY <2>1 DEF OwnedInv
    <3> QED BY <3>1, OwnersKeep
  <2> QED BY <2>1 DEF Owns
<1>2. IsOwned(disk)' /\ IsOwned(work)'
  <2>1. ASSUME NEW o, NEW n \in Name, disk'.table[n] = o, o # NoTable
        PROVE  Owns(o, n)'
    <3>1. Owns(o, n)
      BY <2>1 DEF OwnedInv, IsOwned
    <3> QED BY <3>1, OwnersKeep
  <2> QED BY <2>1 DEF Owns, IsOwned
<1> QED BY <1>1, <1>2 DEF OwnedInv

LEMMA OwnedMigrate == ASSUME BaseInv, OwnedInv, Migrate PROVE OwnedInv'
<1> DEFINE v == schema.version + 1
           q == Included(schema, v, history[v])
<1>1. /\ Include /\ pc = "idle" /\ UNCHANGED <<disk, work, pc>>
  BY DEF Migrate
<1>2. /\ v \in Version /\ Before(schema, v, ideal[v - 1], Targets)
      /\ history[v] \in Change /\ Legal(ideal[v - 1], history[v])
      /\ Targets[v] = IF history[v].foreign = NoName THEN NoTable
                      ELSE Meant(ideal[v - 1], v, history[v])[history[v].foreign]
  BY <1>1, NextMigration DEF Include, BaseInv
<1>3. \A o \in Version : q.old[o] \in {schema.old[o], schema.name[o]}
  BY <1>2, IncludedOld
<1>4. schema' = q \/ schema' = EraseRecords(TraceName(q))
  BY <1>1 DEF Include
<1>5. ASSUME NEW o \in Version, schema'.old[o] # NoName
      PROVE  schema'.old[o] = schema.old[o] \/ Owns(o, schema'.old[o])
  <2>1. CASE schema' = q
    <3>1. CASE q.old[o] = schema.name[o]
      <4>1. IsEntry(schema, o)
        BY <1>5, <2>1, <3>1 DEF IsEntry
      <4> QED BY <2>1, <3>1, <4>1, EntryOwns
    <3> QED BY <1>3, <2>1, <3>1
  <2>2. CASE schema' = EraseRecords(TraceName(q))
    <3>1. After(schema, q, v, Meant(ideal[v - 1], v, history[v]), Targets)
      BY <1>2, IncludedAfter
    <3>2. TraceName(q) \in Schemas
      BY <3>1, TraceNameKeeps DEF After
    <3> HIDE DEF q
    <3>3. schema'.old = NoNames
      BY <2>2, <3>2 DEF EraseRecords, Schemas
    <3> QED BY <1>5, <3>3 DEF NoNames
  <2> QED BY <1>4, <2>1, <2>2
<1>6. work' = disk' /\ ~InStatements' /\ disk' = disk
  BY <1>1 DEF OwnedInv, InStatements
<1>7. [SqliteNext]_dbvars
  BY DEF SqliteNext
<1> QED BY <1>5, <1>6, <1>7, OwnedIdle

LEMMA OwnedUnsynced ==
    ASSUME BaseInv, OwnersInv, OwnedInv, ExecDrop \/ ExecRename \/ SkipCreate
    PROVE  OwnedInv'
<1> DEFINE o == schema.unsynced[node]
<1>1. /\ pc = "unsynced" /\ o \in Version /\ UNCHANGED <<vars, disk, pc>>
      /\ \/ work' = work
         \/ work' = DropTableIfExists(work, schema.old[o]).db /\ ~IsEntry(schema, o)
         \/ /\ IsEntry(schema, o) /\ schema.old[o] \in Name
            /\ Renamed(work, work', schema.old[o], schema.name[o])
  BY UnsyncedIs
<1>2. /\ IsOwned(work')
      /\ \A p \in Version : IsEntry(schema, p) /\ Holds(work, p) => Holds(work', p)
  <2> HIDE DEF o
  <2> QED BY <1>1, OwnedAfterDrop, OwnedAfterRename DEF OwnedInv
<1>3. InStatements'
  BY <1>1 DEF InStatements
<1> QED BY <1>1, <1>2, <1>3, OwnedWork

LEMMA OwnedCreate ==
    ASSUME BaseInv, OwnersInv, OwnedInv, ExecCreate
    PROVE  OwnedInv'
<1>1. /\ pc' = "create" /\ UNCHANGED <<vars, disk>>
      /\ \E o \in Version :
            /\ IsEntry(schema, o)
            /\ \/ work' = work
               \/ Created(work, work', o, schema.name[o], schema.foreign[o])
  BY CreateIsOne
<1>2. PICK o \in Version :
            /\ IsEntry(schema, o)
            /\ \/ work' = work
               \/ Created(work, work', o, schema.name[o], schema.foreign[o])
  BY <1>1
<1>3. /\ IsOwned(work')
      /\ \A p \in Version : IsEntry(schema, p) /\ Holds(work, p) => Holds(work', p)
  BY <1>2, OwnedAfterCreate DEF OwnedInv
<1>4. InStatements'
  BY <1>1 DEF InStatements
<1> QED BY <1>1, <1>3, <1>4, OwnedWork

LEMMA OwnedStep ==
    ASSUME FreshNames, BaseInv, OwnersInv, OwnedInv, [SqliteNext]_dbvars
    PROVE  OwnedInv'
<1>0. ~InStatements => work = disk
  BY DEF OwnedInv
<1>1. CASE Install \/ Open
  BY <1>0, <1>1, OwnedIdle DEF Install, Open, InStatements
<1>2. CASE Migrate
  BY <1>2, OwnedMigrate
<1>3. CASE SyncRefused \/ SyncNotNeeded
  BY <1>0, <1>3, OwnedIdle DEF SyncRefused, SyncNotNeeded, InStatements, vars
<1>4. CASE SyncBegin
  <2>1. /\ UNCHANGED <<latest, history, ideal, disk>> /\ work' = disk /\ pc' = "unsynced"
        /\ schema' = TraceName(schema)
    BY <1>4 DEF SyncBegin, BeginSync
  <2>2. schema'.old = schema.old
    BY <2>1, BaseFacts, TraceNameKeeps
  <2>3. \A o, n : Owns(o, n)' <=> Owns(o, n)
    BY <2>1 DEF Owns
  <2>4. (\A o \in Version : schema.old[o] # NoName => Owns(o, schema.old[o]))'
    <3>1. \A o \in Version : \A n : schema'.old[o] = n /\ n # NoName => Owns(o, n)'
      BY <2>2, <2>3 DEF OwnedInv
    <3> QED BY <3>1 DEF Owns
  <2>5. IsOwned(disk)' /\ IsOwned(work)'
    <3>1. \A n \in Name : \A o : disk'.table[n] = o /\ o # NoTable => Owns(o, n)'
      BY <2>1, <2>3 DEF OwnedInv, IsOwned
    <3> QED BY <2>1, <3>1 DEF Owns, IsOwned
  <2>6. InStatements' /\ work' = disk'
    BY <2>1 DEF InStatements
  <2> QED BY <2>4, <2>5, <2>6 DEF OwnedInv
<1>5. CASE ExecDrop \/ ExecRename \/ SkipCreate
  BY <1>5, OwnedUnsynced
<1>6. CASE ExecCreate
  BY <1>6, OwnedCreate
<1>7. CASE Commit
  <2>1. /\ disk' = work /\ work' = work /\ pc' = "version" /\ schema'.old = NoNames
    BY <1>7, CommitEnds DEF Commit
  <2> QED BY <2>1, OwnedIdle DEF InStatements, NoNames
<1>8. CASE SetUserVersion
  BY <1>0, <1>8, OwnedIdle DEF SetUserVersion, InStatements, vars
<1>9. CASE Crash \/ Exit
  <2>1. disk' = disk /\ work' = disk /\ pc' = "down" /\ schema' = EmptySchema
    BY <1>9 DEF Crash, Exit, Down
  <2> QED BY <2>1, OwnedIdle DEF InStatements, EmptySchema, NoNames
<1>10. CASE UNCHANGED dbvars
  BY <1>10 DEF dbvars, vars, OwnedInv, IsOwned, Owns, InStatements, IsEntry, Holds
<1> QED BY <1>1, <1>2, <1>3, <1>4, <1>5, <1>6, <1>7, <1>8, <1>9, <1>10
        DEF SqliteNext, Statement

RowsInv == NamesInv /\ OwnersInv /\ OwnedInv

LEMMA SqliteInitRows == SqliteInit => RowsInv
<1> SUFFICES ASSUME SqliteInit PROVE RowsInv
  OBVIOUS
<1>1. /\ latest = 0 /\ schema = EmptySchema /\ disk = EmptyDatabase /\ work = EmptyDatabase
      /\ \A v \in 0 .. MaxVersion : \A n \in Name : ideal[v][n] = NoTable
  BY DEF SqliteInit, Init
<1>2. 0 \in 0 .. MaxVersion /\ \A o \in Version : o # NoTable
  BY VersionAssumption DEF Version, NoTable
<1>3. \A o \in Version : \A n \in Name : ~Owns(o, n)
  BY <1>1, <1>2 DEF Owns
<1>4. NamesInv
  BY <1>1, <1>2 DEF NamesInv, IsNamed
<1>5. OwnersInv
  BY <1>3 DEF OwnersInv
<1>6. OwnedInv
  BY <1>1 DEF OwnedInv, IsOwned, EmptySchema, NoNames, EmptyDatabase, Holds, IsEntry
<1> QED BY <1>4, <1>5, <1>6 DEF RowsInv

(* The second layer, when names are never reused: the database knows a     *)
(* name by the one table that ever had it, and a transaction holds every   *)
(* table that is still in the schema.                                      *)
THEOREM RowsInvariance == ASSUME FreshNames PROVE SqliteSpec => []RowsInv
<1>1. SqliteInit => RowsInv
  BY SqliteInitRows
<1>2. BaseInv /\ RowsInv /\ [SqliteNext]_dbvars => RowsInv'
  BY NamesStep, OwnersStep, OwnedStep DEF RowsInv
<1> QED BY <1>1, <1>2, BaseInvariance, PTL DEF SqliteSpec

(* Only COMMIT changes the database, and it takes a table away only when   *)
(* this is no longer in the schema.                                        *)
LEMMA CommitKeepsRows ==
    ASSUME BaseInv, OwnedInv, Commit, NEW o \in Version, Holds(disk, o), ~Holds(work, o)
    PROVE  \A n \in Name : ideal[schema.version][n] # o
<1>1. ~IsEntry(schema, o)
  BY DEF OwnedInv
<1> QED BY <1>1, BaseFacts, NameAssumption DEF IsMeant, IsEntry

(* When names are never reused, a table leaves the database only after a   *)
(* migration that was run dropped it: neither a crash nor a refused        *)
(* statement nor the rerun of a synchronization takes another table, or    *)
(* one that has the name by now.                                           *)
THEOREM RowsKept == ASSUME FreshNames PROVE SqliteSpec => NoRowsLost
<1>1. ASSUME BaseInv, RowsInv, [SqliteNext]_dbvars, NEW o \in Version,
             IsStored(o), ~IsStored(o)'
      PROVE  \A n \in Name : ideal[schema.version][n] # o
  <2>1. Holds(disk, o) /\ disk' # disk
    BY <1>1 DEF IsStored, Holds
  <2>2. Commit
    BY <1>1, <2>1 DEF SqliteNext, Statement, Install, Open, Migrate, SyncRefused,
       SyncNotNeeded, SyncBegin, ExecDrop, ExecRename, SkipCreate, InUnsynced, ExecCreate,
       SetUserVersion, Crash, Exit, Down, dbvars
  <2>3. ~Holds(work, o)
    BY <1>1, <2>2 DEF IsStored, Holds, Commit
  <2> QED BY <1>1, <2>1, <2>2, <2>3, CommitKeepsRows DEF RowsInv
<1>2. BaseInv /\ RowsInv /\ [SqliteNext]_dbvars =>
         [\A o \in Version : IsStored(o) /\ ~IsStored(o)' =>
             \A n \in Name : ideal[schema.version][n] # o]_dbvars
  BY <1>1
<1> QED BY <1>2, BaseInvariance, RowsInvariance, PTL DEF SqliteSpec, NoRowsLost

-----------------------------------------------------------------------------
(* What of a synchronization reaches the database.                         *)

(* How the program is to be used for the database to follow it.            *)
WithinLimits == FreshNames /\ WholeRelease /\ RerunFirst

LEMMA InterruptedStep ==
    ASSUME WithinLimits, BaseInv, InterruptedInv, [SqliteNext]_dbvars
    PROVE  InterruptedInv'
<1> USE DEF InterruptedInv, InStatements
<1>0. /\ latest \in Nat /\ userversion \in Nat /\ dbversion \in Nat /\ schema.version \in Nat
      /\ userversion <= dbversion
      /\ pc = "down" => dbversion = userversion
      /\ pc = "version" => dbversion = schema.version /\ userversion < dbversion
  BY BaseFacts DEF BaseInv, PlaceInv
<1>1. CASE Install
  <2>1. ~interrupted /\ pc = "down"
    BY <1>1 DEF Install, WithinLimits
  <2>2. UNCHANGED <<schema, dbversion, userversion, pc, code, interrupted>>
    BY <1>1 DEF Install, bounds
  <2> QED BY <1>0, <2>1, <2>2
<1>2. CASE Open
  BY <1>0, <1>2 DEF Open, program, bounds
<1>3. CASE Migrate
  <2>1. /\ schema.version < latest /\ pc = "idle"
        /\ UNCHANGED <<latest, dbversion, userversion, pc, code, interrupted>>
    BY <1>3 DEF Migrate, Include, bounds
  <2> QED BY <1>0, <2>1
<1>4. CASE SyncRefused \/ SyncNotNeeded
  <2>1. UNCHANGED <<latest, schema, dbversion, userversion, pc, interrupted, refused>>
    BY <1>4 DEF SyncRefused, SyncNotNeeded, vars, bounds
  <2>2. code' = "OK" => pc = "idle" /\ dbversion = latest
    BY <1>4 DEF SyncRefused, SyncNotNeeded, Completed, WithinLimits
  <2> QED BY <2>1, <2>2
<1>5. CASE SyncBegin
  <2>1. /\ schema' = TraceName(schema) /\ dbversion < schema.version
        /\ UNCHANGED <<latest, dbversion, userversion>>
        /\ interrupted' = TRUE /\ pc' = "unsynced" /\ code' = "NONE"
        /\ schema.version = latest
    BY <1>5 DEF SyncBegin, BeginSync, Completed, WithinLimits
  <2>2. schema'.version = schema.version
    BY <2>1, BaseFacts, TraceNameKeeps
  <2> QED BY <1>0, <2>1, <2>2
<1>6. CASE ExecDrop \/ ExecRename \/ SkipCreate \/ ExecCreate
  <2>1. UNCHANGED vars
    BY <1>6, StatementKeepsSchema
  <2>2. /\ UNCHANGED <<userversion, code, interrupted>>
        /\ pc \in {"unsynced", "create"} /\ pc' \in {"unsynced", "create"}
    BY <1>6 DEF ExecDrop, ExecRename, SkipCreate, ExecCreate, InUnsynced, CreatePhase
  <2> QED BY <1>0, <2>1, <2>2, BaseFacts DEF vars, BaseInv, PlaceInv
<1>7. CASE Commit
  <2>1. /\ pc \in {"unsynced", "create"} /\ pc' = "version"
        /\ UNCHANGED <<latest, userversion, code, interrupted>>
        /\ dbversion' = schema.version
    BY <1>7 DEF Commit, CreatePhase, program, bounds
  <2>2. schema'.version = schema.version /\ userversion < schema.version
    BY <1>7, CommitEnds
  <2> QED BY <1>0, <2>1, <2>2
<1>8. CASE SetUserVersion
  <2>1. /\ pc = "version" /\ pc' = "idle" /\ UNCHANGED <<latest, schema, dbversion>>
        /\ \/ userversion' = dbversion /\ interrupted' = FALSE
           \/ UNCHANGED <<userversion, interrupted>> /\ TheVersion \in refused'
    BY <1>8 DEF SetUserVersion, vars, Refuse
  <2>2. dbversion = latest /\ schema.version = latest /\ interrupted
    BY <1>0, <2>1
  <2>3. CASE userversion' = dbversion /\ interrupted' = FALSE
    <3>1. ~(userversion' < dbversion') /\ ~interrupted'
      BY <1>0, <2>1, <2>3
    <3> QED BY <2>1, <2>2, <3>1, Zenon
  <2>4. CASE UNCHANGED <<userversion, interrupted>> /\ TheVersion \in refused'
    BY <2>1, <2>2, <2>4
  <2> QED BY <2>1, <2>3, <2>4
<1>9. CASE Crash \/ Exit
  <2>1. /\ dbversion' = userversion /\ pc' = "down" /\ code' = "NONE"
        /\ UNCHANGED <<latest, userversion, interrupted>>
    BY <1>9 DEF Crash, Exit, Down, program
  <2> QED BY <1>0, <2>1
<1>10. CASE UNCHANGED dbvars
  BY <1>10 DEF dbvars, vars, bounds
<1> QED BY <1>1, <1>2, <1>3, <1>4, <1>5, <1>6, <1>7, <1>8, <1>9, <1>10
        DEF SqliteNext, Statement

(* What is known at a statement.                                           *)
LEMMA StatementFacts ==
    ASSUME BaseInv, NamesInv, InStatements
    PROVE  /\ schema.name \in [Version -> Name \cup {NoName}]
           /\ schema.old \in [Version -> Name \cup {NoName}]
           /\ NoName \notin Name /\ NoTable \notin Version
           /\ \A n \in Name, o \in Version :
                 schema.name[o] = n <=> ideal[schema.version][n] = o
           /\ \A i, j \in DOMAIN schema.unsynced :
                 schema.unsynced[i] = schema.unsynced[j] => i = j
           /\ \A o \in Version : IsEntry(schema, o) /\ o \notin schema.created =>
                 o \in Range(schema.unsynced) /\ schema.old[o] = NoName
           /\ \A o \in Version : o \in schema.created <=> IsNamed(dbversion, o)
           /\ \A n \in Name, o \in Version : ideal[dbversion][n] = o =>
                 \/ o \in Range(schema.unsynced) /\ schema.old[o] = n
                 \/ /\ o \notin Range(schema.unsynced)
                    /\ schema.old[o] = NoName /\ schema.name[o] = n
           /\ \A o, t \in Version :
                 IsEntry(schema, o) /\ IsEntry(schema, t) /\ Target(o) = t =>
                    schema.foreign[o] = schema.name[t]
           /\ \A o, t \in Version : o \in schema.created /\ Target(o) = t /\ IsEntry(schema, t)
                 => t \in schema.created
<1>1. dbversion < schema.version /\ TraceName(schema) = schema
  BY DEF BaseInv, PlaceInv
<1>2. /\ schema.name \in [Version -> Name \cup {NoName}]
      /\ schema.old \in [Version -> Name \cup {NoName}]
  BY BaseFacts, Fields
<1>3. NoName \notin Name /\ NoTable \notin Version
  BY NameAssumption DEF NoTable, Version
<1>4. \A n \in Name, o \in Version : schema.name[o] = n <=> ideal[schema.version][n] = o
  BY BaseFacts DEF IsMeant
<1>5. /\ \A i, j \in DOMAIN schema.unsynced :
            schema.unsynced[i] = schema.unsynced[j] => i = j
      /\ \A o \in Version : IsEntry(schema, o) /\ o \notin schema.created =>
            o \in Range(schema.unsynced) /\ schema.old[o] = NoName
  BY DEF BaseInv, IInv, SchemaInv, Pending
<1>6. Told(schema, ideal[dbversion])
  BY <1>1, BaseFacts DEF BaseInv, IInv, DatabaseInv
<1>7. /\ \A o \in Version : o \in schema.created <=> IsNamed(dbversion, o)
      /\ \A n \in Name, o \in Version : ideal[dbversion][n] = o =>
            \/ o \in Range(schema.unsynced) /\ schema.old[o] = n
            \/ /\ o \notin Range(schema.unsynced)
               /\ schema.old[o] = NoName /\ schema.name[o] = n
  BY <1>6 DEF Told, IsNamed
<1>8. ASSUME NEW o \in Version, NEW t \in Version,
             IsEntry(schema, o), IsEntry(schema, t), Target(o) = t
      PROVE  schema.foreign[o] = schema.name[t]
  <2>1. Targets[o] = t
    BY <1>8 DEF Targets
  <2>2. TraceName(schema).foreign[o] = schema.name[t]
    BY <1>8, <2>1, BaseFacts, TraceNameKeeps
  <2> QED BY <1>1, <2>2
<1>9. ASSUME NEW o \in Version, NEW t \in Version,
             o \in schema.created, Target(o) = t, IsEntry(schema, t)
      PROVE  t \in schema.created
  <2>1. PICK n \in Name : ideal[dbversion][n] = o
    BY <1>7, <1>9 DEF IsNamed
  <2>2. o <= dbversion
    BY <2>1, BaseFacts DEF BaseInv, IInv, ReleasesInv
  <2>3. t <= o
    <3>1. Targets[o] <= o
      BY ReleasesSay DEF BaseInv, IInv
    <3> QED BY <1>9, <3>1 DEF Targets
  <2>4. t <= dbversion
    BY <2>2, <2>3, BaseFacts DEF Version
  <2>5. IsNamed(schema.version, t)
    BY <1>2, <1>4, <1>9 DEF IsNamed, IsEntry
  <2>6. dbversion \in 0 .. latest /\ schema.version \in 0 .. latest /\ dbversion <= schema.version
    BY <1>1, BaseFacts
  <2>7. IsNamed(dbversion, t)
    BY <2>4, <2>5, <2>6 DEF NamesInv
  <2> QED BY <1>7, <2>7
<1> QED BY <1>2, <1>3, <1>4, <1>5, <1>7, <1>8, <1>9

(* The synchronization begins with what is committed.                      *)
LEMMA WorkBegins ==
    ASSUME WithinLimits, BaseInv, NamesInv, InterruptedInv, DiskInv, SyncBegin, BaseInv'
    PROVE  WorkInv'
<1>1. /\ schema' = TraceName(schema) /\ dbversion < schema.version
      /\ UNCHANGED <<latest, history, ideal, dbversion, refused>>
      /\ work' = disk /\ pc' = "unsynced" /\ node' = 1 /\ tried' = {}
      /\ schema.version = latest
  BY DEF SyncBegin, BeginSync, Completed, WithinLimits
<1>2. /\ schema'.name = schema.name /\ schema'.unsynced = schema.unsynced
      /\ schema'.created = schema.created
  BY <1>1, BaseFacts, TraceNameKeeps
<1>3. Rest' = Range(schema.unsynced)
  <2>1. DOMAIN schema.unsynced = 1 .. Len(schema.unsynced)
    BY BaseFacts, Fields
  <2> QED BY <1>1, <1>2, <2>1 DEF Rest, Range
<1>4. \A o : Target(o)' = Target(o)
  BY <1>1 DEF Target
<1>5. RefersTo(work)'
  BY <1>1, <1>4 DEF DiskInv, RefersTo, Holds
<1>6. Told(schema, ideal[dbversion]) /\ IsMeant(schema, ideal[schema.version])
  BY <1>1, BaseFacts DEF BaseInv, IInv, DatabaseInv
<1>7. userversion = dbversion
  BY <1>1, BaseFacts DEF InterruptedInv
<1>8. CASE InVersion(disk, userversion)
  <2>1. ASSUME NEW o \in Version \ refused, NEW n \in Name
        PROVE  work'.table[n] = o <=>
                  \/ o \in Range(schema.unsynced) /\ ideal[dbversion][n] = o
                  \/ /\ o \notin Range(schema.unsynced)
                     /\ o \in schema.created /\ schema.name[o] = n
    <3>1. work'.table[n] = o <=> ideal[dbversion][n] = o
      BY <1>1, <1>7, <1>8 DEF InVersion
    <3>2. ASSUME o \notin Range(schema.unsynced)
          PROVE  ideal[dbversion][n] = o <=> o \in schema.created /\ schema.name[o] = n
      BY <1>6, <3>2 DEF Told
    <3> QED BY <3>1, <3>2
  <2>2. UnsyncedDone'
    BY <1>1, <1>2, <1>3, <2>1 DEF UnsyncedDone
  <2> QED BY <1>1, <1>5, <2>2 DEF WorkInv
<1>9. CASE InVersion(disk, latest)
  <2>1. AllDone'
    BY <1>1, <1>2, <1>6, <1>9 DEF AllDone, InVersion, IsMeant
  <2> QED BY <1>1, <1>5, <2>1 DEF WorkInv
<1> QED BY <1>8, <1>9 DEF DiskInv

(* One unsynced table less is left.                                        *)
LEMMA RestShrinks ==
    ASSUME BaseInv, NamesInv, InStatements, node \in 1 .. Len(schema.unsynced),
           node' = node + 1, UNCHANGED schema
    PROVE  Rest' = Rest \ {schema.unsynced[node]} /\ schema.unsynced[node] \in Rest
<1>1. /\ Len(schema.unsynced) \in Nat /\ DOMAIN schema.unsynced = 1 .. Len(schema.unsynced)
      /\ \A i, j \in 1 .. Len(schema.unsynced) :
            schema.unsynced[i] = schema.unsynced[j] => i = j
  BY BaseFacts, Fields, StatementFacts
<1>2. node \in node .. Len(schema.unsynced)
  OBVIOUS
<1>3. \A i \in node + 1 .. Len(schema.unsynced) :
         i \in node .. Len(schema.unsynced) /\ i # node
         /\ i \in 1 .. Len(schema.unsynced)
  BY <1>1
<1>4. \A i \in node .. Len(schema.unsynced) : i = node \/ i \in node + 1 .. Len(schema.unsynced)
  BY <1>1
<1>5. Rest' = {schema.unsynced[i] : i \in node + 1 .. Len(schema.unsynced)}
  BY DEF Rest
<1> QED BY <1>1, <1>2, <1>3, <1>4, <1>5 DEF Rest

(* The statement about table o leaves every other table where it is, and   *)
(* o where it is meant to be.                                              *)
OthersStay(o) ==
    \A p \in Version : \A n \in Name : p # o => (work'.table[n] = p <=> work.table[n] = p)

LEMMA OneUnsynced ==
    ASSUME BaseInv, NamesInv, InStatements, OthersStay(schema.unsynced[node]),
           node \in 1 .. Len(schema.unsynced), node' = node + 1,
           UNCHANGED <<vars, tried>>, refused \subseteq refused',
           schema.unsynced[node] \notin refused' => schema.unsynced[node] \notin refused,
           UnsyncedDone \/ AllDone,
           schema.unsynced[node] \notin refused' =>
              /\ AllDone => \A n \in Name :
                    work'.table[n] = schema.unsynced[node]
                        <=> schema.name[schema.unsynced[node]] = n
              /\ UnsyncedDone => \A n \in Name :
                    work'.table[n] = schema.unsynced[node]
                        <=> /\ schema.unsynced[node] \in schema.created
                            /\ schema.name[schema.unsynced[node]] = n
    PROVE  UnsyncedDone' \/ AllDone'
<1> DEFINE o == schema.unsynced[node]
<1>1. Rest' = Rest \ {o} /\ o \in Rest
  BY RestShrinks DEF vars
<1> HIDE DEF o
<1>2. CASE AllDone
  <2>1. ASSUME NEW p \in Version \ refused', NEW n \in Name
        PROVE  work'.table[n] = p <=> schema.name[p] = n
    <3>1. CASE p = o
      BY <1>2, <2>1, <3>1 DEF o
    <3>2. CASE p # o
      BY <1>2, <2>1, <3>2 DEF AllDone, OthersStay, o
    <3> QED BY <3>1, <3>2
  <2> QED BY <2>1 DEF AllDone, vars
<1>3. CASE UnsyncedDone
  <2>1. ASSUME NEW p \in Version \ refused', NEW n \in Name
        PROVE  work'.table[n] = p <=>
                  \/ p \in Rest' /\ ideal[dbversion][n] = p
                  \/ p \notin Rest' /\ p \in schema.created /\ schema.name[p] = n
    <3>1. CASE p = o
      BY <1>1, <1>3, <2>1, <3>1 DEF o
    <3>2. CASE p # o
      <4>1. p \in Rest' <=> p \in Rest
        BY <1>1, <3>2
      <4>2. work'.table[n] = p <=> work.table[n] = p
        BY <2>1, <3>2 DEF OthersStay, o
      <4>3. p \in Version \ refused
        BY <2>1
      <4> QED BY <1>3, <4>1, <4>2, <4>3 DEF UnsyncedDone
    <3> QED BY <3>1, <3>2
  <2> QED BY <2>1 DEF UnsyncedDone, vars
<1> QED BY <1>2, <1>3

LEMMA DropSettles ==
    ASSUME BaseInv, RowsInv, InStatements, NEW o \in Version, ~IsEntry(schema, o),
           work' = DropTableIfExists(work, schema.old[o]).db
    PROVE  /\ OthersStay(o)
           /\ work'.foreign = work.foreign
           /\ \A n \in Name : work'.table[n] = o =>
                 work.table[n] = o /\ ideal[dbversion][n] # o
<1>1. /\ \A m \in Name : work'.table[m] = IF m = schema.old[o] THEN NoTable ELSE work.table[m]
      /\ work'.foreign = work.foreign
  BY DatabasesTyped, DropIs
<1>2. OthersStay(o)
  <2>1. ASSUME NEW p \in Version, NEW n \in Name, p # o, work.table[n] = p
        PROVE  n # schema.old[o]
    <3>1. Owns(p, n)
      BY <2>1 DEF RowsInv, OwnedInv, IsOwned, NoTable, Version
    <3>2. ASSUME n = schema.old[o] PROVE FALSE
      <4>1. Owns(o, n)
        BY <3>2, NameAssumption DEF RowsInv, OwnedInv
      <4> QED BY <2>1, <3>1, <4>1 DEF RowsInv, OwnersInv
    <3> QED BY <3>2
  <2>2. NoTable \notin Version
    BY DEF NoTable, Version
  <2> QED BY <1>1, <2>1, <2>2 DEF OthersStay
<1>3. ASSUME NEW n \in Name, work'.table[n] = o
      PROVE  work.table[n] = o /\ ideal[dbversion][n] # o
  <2>1. NoTable \notin Version /\ NoName \notin Name
    BY NameAssumption DEF NoTable, Version
  <2>2. n # schema.old[o] /\ work.table[n] = o
    BY <1>1, <1>3, <2>1
  <2>3. schema.name[o] # n
    BY <2>1 DEF IsEntry
  <2> QED BY <2>2, <2>3, StatementFacts DEF RowsInv
<1> QED BY <1>1, <1>2, <1>3

(* A renaming moves its table and takes the foreign keys along.            *)
LEMMA RenameSettles ==
    ASSUME BaseInv, RowsInv, InStatements, NEW o \in Version, IsEntry(schema, o),
           schema.old[o] \in Name, Renamed(work, work', schema.old[o], schema.name[o])
    PROVE  /\ OthersStay(o)
           /\ work.table[schema.old[o]] = o /\ work.table[schema.name[o]] # o
           /\ \A n \in Name : n # schema.old[o] => (work'.table[n] = o <=>
                  work.table[n] = o \/ n = schema.name[o])
           /\ work'.table[schema.old[o]] # o
           /\ RefersTo(work) => \A p, t \in Version \ refused : \A n \in Name :
                  Holds(work', p) /\ Target(p) = t /\ work'.table[n] = t => work'.foreign[p] = n
<1> DEFINE from == schema.old[o]
           to == schema.name[o]
<1>1. /\ work.table[from] # NoTable /\ work.table[to] = NoTable
      /\ \A k \in Name : work'.table[k] = IF k = to THEN work.table[from]
                                          ELSE IF k = from THEN NoTable ELSE work.table[k]
      /\ \A p \in Version : work'.foreign[p] = IF work.foreign[p] = from THEN to
                                               ELSE work.foreign[p]
  BY DEF Renamed
<1>2. work.table[from] = o /\ to \in Name /\ from \in Name
  BY OwnedAfterRename, EntryOwns DEF RowsInv
<1>3. NoTable \notin Version
  BY DEF NoTable, Version
<1> HIDE DEF from, to
<1>4. \A p \in Version : \A n \in Name : p # o => (work'.table[n] = p <=> work.table[n] = p)
  BY <1>1, <1>2, <1>3
<1>5. \A p \in Version : Holds(work', p) => Holds(work, p)
  BY <1>1, <1>2, <1>3, <1>4 DEF Holds
<1>6. ASSUME RefersTo(work), NEW p \in Version \ refused, NEW t \in Version \ refused,
             NEW n \in Name, Holds(work', p), Target(p) = t, work'.table[n] = t
      PROVE  work'.foreign[p] = n
  <2>1. CASE t = o
    <3>1. \A m \in Name : work.table[m] = o => work.foreign[p] = m
      BY <1>5, <1>6, <2>1 DEF RefersTo
    <3>2. work.foreign[p] = from /\ n = to
      BY <1>1, <1>2, <1>3, <1>6, <2>1, <3>1
    <3> QED BY <1>1, <3>2
  <2>2. CASE t # o
    <3>1. work.table[n] = t
      BY <1>4, <1>6, <2>2
    <3>2. n # from
      BY <1>2, <2>2, <3>1
    <3>3. work.foreign[p] = n
      BY <1>5, <1>6, <3>1 DEF RefersTo
    <3> QED BY <1>1, <3>2, <3>3
  <2> QED BY <2>1, <2>2
<1> QED BY <1>1, <1>2, <1>3, <1>4, <1>6 DEF OthersStay, from, to

LEMMA TargetKeeps == ASSUME UNCHANGED program, NEW o PROVE Target(o)' = Target(o)
  BY DEF program, Target

LEMMA UnsyncedWork ==
    ASSUME BaseInv, RowsInv, WorkInv, ExecDrop \/ ExecRename \/ SkipCreate
    PROVE  WorkInv'
<1> DEFINE o == schema.unsynced[node]
<1>1. /\ pc = "unsynced" /\ node \in 1 .. Len(schema.unsynced) /\ node' = node + 1
      /\ o \in Version
      /\ UNCHANGED <<vars, disk, userversion, pc, tried, code, interrupted>>
      /\ \/ /\ work' = work /\ UNCHANGED <<faults, refused>>
            /\ IsEntry(schema, o) /\ schema.old[o] = NoName
         \/ work' = work /\ Refuse(o)
         \/ /\ work' = DropTableIfExists(work, schema.old[o]).db
            /\ UNCHANGED <<faults, refused>> /\ ~IsEntry(schema, o)
         \/ /\ IsEntry(schema, o) /\ schema.old[o] \in Name /\ schema.name[o] \in Name
            /\ UNCHANGED <<faults, refused>>
            /\ \/ /\ work' = work
                  /\ \/ work.table[schema.old[o]] = NoTable
                     \/ work.table[schema.name[o]] # NoTable
               \/ Renamed(work, work', schema.old[o], schema.name[o])
  BY UnsyncedIs
<1>2. tried = {} /\ (UnsyncedDone \/ AllDone) /\ RefersTo(work)
  BY <1>1 DEF WorkInv
<1>3. InStatements /\ NamesInv
  BY <1>1 DEF InStatements, RowsInv
<1>4. \A p : Target(p)' = Target(p)
  BY <1>1, TargetKeeps DEF vars, program
<1>5. o \in Rest
  BY <1>1, <1>3, RestShrinks DEF vars
<1>6. /\ UnsyncedDone /\ o \notin refused =>
            \A n \in Name : work.table[n] = o <=> ideal[dbversion][n] = o
      /\ AllDone /\ o \notin refused =>
            \A n \in Name : work.table[n] = o <=> schema.name[o] = n
  BY <1>1, <1>5 DEF UnsyncedDone, AllDone
<1> DEFINE Settled ==
        /\ OthersStay(o) /\ refused \subseteq refused' /\ (o \notin refused' => o \notin refused)
        /\ o \notin refused' =>
             /\ AllDone => \A n \in Name : work'.table[n] = o <=> schema.name[o] = n
             /\ UnsyncedDone => \A n \in Name :
                   work'.table[n] = o <=> o \in schema.created /\ schema.name[o] = n
        /\ RefersTo(work)'
<1>7. SUFFICES Settled
  <2>1. ASSUME Settled PROVE UnsyncedDone' \/ AllDone'
    BY <1>1, <1>2, <1>3, <2>1, OneUnsynced
  <2> QED BY <1>1, <1>2, <2>1 DEF WorkInv
<1>8. \A m \in Name, p \in Version : ideal[dbversion][m] = p =>
         \/ p \in Range(schema.unsynced) /\ schema.old[p] = m
         \/ p \notin Range(schema.unsynced) /\ schema.old[p] = NoName /\ schema.name[p] = m
  BY <1>3, StatementFacts
<1>9. NoName \notin Name /\ NoTable \notin Version /\ o \in Range(schema.unsynced)
  <2>1. DOMAIN schema.unsynced = 1 .. Len(schema.unsynced)
    BY BaseFacts, Fields
  <2> QED BY <1>1, <2>1, NameAssumption DEF NoTable, Version, Range
<1>10. /\ o \in schema.created <=> \E n \in Name : ideal[dbversion][n] = o
       /\ IsEntry(schema, o) /\ o \notin schema.created => schema.old[o] = NoName
  BY <1>1, <1>3, StatementFacts DEF IsNamed
<1> HIDE DEF o
(* nothing executed *)
<1>11. ASSUME work' = work, refused \subseteq refused', UNCHANGED program
       PROVE  OthersStay(o) /\ RefersTo(work)'
  BY <1>2, <1>4, <1>11 DEF OthersStay, RefersTo, Holds
<1>12. CASE work' = work /\ UNCHANGED refused /\ IsEntry(schema, o) /\ schema.old[o] = NoName
  <2>1. \A n \in Name : ideal[dbversion][n] # o
    BY <1>1, <1>8, <1>9, <1>12
  <2>2. o \notin schema.created
    BY <1>10, <2>1
  <2>3. OthersStay(o) /\ RefersTo(work)'
    BY <1>1, <1>11, <1>12 DEF vars, program
  <2> QED BY <1>6, <1>12, <2>1, <2>2, <2>3
<1>13. CASE work' = work /\ Refuse(o)
  <2>1. refused' = refused \cup {o}
    BY <1>13 DEF Refuse
  <2>2. OthersStay(o) /\ RefersTo(work)'
    BY <1>1, <1>11, <1>13, <2>1 DEF vars, program
  <2> QED BY <2>1, <2>2
<1>14. CASE /\ work' = DropTableIfExists(work, schema.old[o]).db
            /\ UNCHANGED refused /\ ~IsEntry(schema, o)
  <2>1. /\ OthersStay(o) /\ work'.foreign = work.foreign
        /\ \A n \in Name : work'.table[n] = o => work.table[n] = o /\ ideal[dbversion][n] # o
    BY <1>1, <1>3, <1>14, DropSettles
  <2>2. \A n \in Name : schema.name[o] # n
    BY <1>9, <1>14 DEF IsEntry
  <2>3. o \notin refused => \A n \in Name : work'.table[n] # o
    BY <1>2, <1>6, <2>1, <2>2
  <2>4. \A p \in Version : \A n \in Name : work'.table[n] = p => work.table[n] = p
    BY <2>1 DEF OthersStay
  <2>5. RefersTo(work)'
    BY <1>2, <1>4, <1>14, <2>1, <2>4 DEF RefersTo, Holds
  <2> QED BY <1>14, <2>1, <2>2, <2>3, <2>5
<1>15. CASE /\ IsEntry(schema, o) /\ schema.old[o] \in Name /\ schema.name[o] \in Name
            /\ UNCHANGED refused /\ work' = work
            /\ \/ work.table[schema.old[o]] = NoTable
               \/ work.table[schema.name[o]] # NoTable
  <2>1. OthersStay(o) /\ RefersTo(work)'
    BY <1>1, <1>11, <1>15 DEF vars, program
  <2>2. o \in schema.created
    BY <1>9, <1>10, <1>15
  <2>3. ASSUME UnsyncedDone, o \notin refused, NEW n \in Name
        PROVE  work'.table[n] = o <=> schema.name[o] = n
    <3>1. PICK m \in Name : ideal[dbversion][m] = o
      BY <1>10, <2>2
    <3>2. schema.old[o] = m /\ \A k \in Name : ideal[dbversion][k] = o => k = m
      BY <1>1, <1>8, <1>9, <3>1
    <3>3. work.table[schema.old[o]] = o
      BY <1>6, <2>3, <3>1, <3>2
    <3>4. work.table[schema.name[o]] # NoTable
      BY <1>1, <1>9, <1>15, <3>3
    <3>5. work.table[schema.name[o]] = o
      <4>1. Owns(work.table[schema.name[o]], schema.name[o])
        BY <1>15, <3>4 DEF RowsInv, OwnedInv, IsOwned
      <4>2. work.table[schema.name[o]] \in Version
        BY <1>15, <3>4, DatabasesTyped DEF NoTable
      <4>3. Owns(o, schema.name[o])
        BY <1>1, <1>15, EntryOwns
      <4> QED BY <1>1, <1>15, <4>1, <4>2, <4>3 DEF RowsInv, OwnersInv
    <3>6. schema.name[o] = m
      BY <1>6, <1>15, <2>3, <3>2, <3>5
    <3> QED BY <1>6, <1>15, <2>3, <3>1, <3>2, <3>6
  <2> QED BY <1>6, <1>15, <2>1, <2>2, <2>3
<1>16. CASE /\ IsEntry(schema, o) /\ schema.old[o] \in Name /\ schema.name[o] \in Name
            /\ UNCHANGED refused
            /\ Renamed(work, work', schema.old[o], schema.name[o])
  <2>1. /\ OthersStay(o)
        /\ work.table[schema.old[o]] = o /\ work.table[schema.name[o]] # o
        /\ \A n \in Name : n # schema.old[o] => (work'.table[n] = o <=>
               work.table[n] = o \/ n = schema.name[o])
        /\ work'.table[schema.old[o]] # o
        /\ \A p, t \in Version \ refused : \A n \in Name :
               Holds(work', p) /\ Target(p) = t /\ work'.table[n] = t => work'.foreign[p] = n
    BY <1>1, <1>2, <1>3, <1>16, RenameSettles
  <2>2. RefersTo(work)'
    BY <1>4, <1>16, <2>1 DEF RefersTo, Holds
  <2>3. o \in schema.created
    BY <1>9, <1>10, <1>16
  <2>4. o \notin refused => ~AllDone
    BY <1>6, <1>16, <2>1
  <2>5. ASSUME UnsyncedDone, o \notin refused, NEW n \in Name
        PROVE  work'.table[n] = o <=> schema.name[o] = n
    <3>1. \A k \in Name : work.table[k] = o => k = schema.old[o]
      BY <1>1, <1>6, <1>8, <1>9, <2>5
    <3> QED BY <1>16, <2>1, <3>1
  <2> QED BY <1>16, <2>1, <2>2, <2>3, <2>4, <2>5
<1> QED BY <1>1, <1>12, <1>13, <1>14, <1>15, <1>16

(* The loop over the unsynced tables is through: now tables are created.   *)
LEMMA CreateReady ==
    ASSUME BaseInv, RowsInv, WorkInv, CreatePhase
    PROVE  (CreateDone \/ AllDone) /\ RefersToMeant /\ InStatements /\ NamesInv
<1>1. InStatements /\ NamesInv
  BY DEF CreatePhase, InStatements, RowsInv
<1>2. CASE pc = "create"
  BY <1>1, <1>2 DEF WorkInv
<1>3. CASE pc = "unsynced" /\ node > Len(schema.unsynced)
  <2>1. tried = {} /\ (UnsyncedDone \/ AllDone) /\ RefersTo(work)
    BY <1>3 DEF WorkInv
  <2>2. Rest = {}
    <3>1. Len(schema.unsynced) \in Nat
      BY BaseFacts, Fields
    <3>2. node \in Nat
      BY <1>3, <3>1 DEF BaseInv, SqliteTypeOK
    <3>3. node .. Len(schema.unsynced) = {}
      BY <1>3, <3>1, <3>2
    <3> QED BY <3>3 DEF Rest
  <2>3. UnsyncedDone => CreateDone
    BY <2>1, <2>2 DEF UnsyncedDone, CreateDone
  <2>4. ASSUME NEW o \in Version \ refused, NEW t \in Version \ refused,
               Holds(work, o), Target(o) = t, IsEntry(schema, t)
        PROVE  work.foreign[o] = schema.name[t]
    <3>1. schema.name[t] \in Name
      BY <1>1, <2>4, StatementFacts DEF IsEntry
    <3>2. CASE AllDone
      BY <2>1, <2>4, <3>1, <3>2 DEF AllDone, RefersTo
    <3>3. CASE CreateDone
      <4>1. o \in schema.created
        BY <2>1, <2>4, <3>3 DEF CreateDone, Holds
      <4>2. t \in schema.created
        BY <1>1, <2>4, <4>1, StatementFacts
      <4>3. work.table[schema.name[t]] = t
        BY <2>4, <3>1, <3>3, <4>2 DEF CreateDone
      <4> QED BY <2>1, <2>4, <3>1, <4>3 DEF RefersTo
    <3> QED BY <2>1, <2>3, <3>2, <3>3
  <2> QED BY <1>1, <2>1, <2>3, <2>4 DEF RefersToMeant
<1> QED BY <1>2, <1>3 DEF CreatePhase

LEMMA CreateWork ==
    ASSUME BaseInv, RowsInv, WorkInv, ExecCreate
    PROVE  WorkInv'
<1>1. /\ CreatePhase /\ pc' = "create" /\ UNCHANGED vars
      /\ \E o \in Version :
            /\ IsEntry(schema, o) /\ o \notin schema.created
            /\ o \notin tried /\ tried' = tried \cup {o}
            /\ schema.name[o] \in Name
            /\ \/ work' = work /\ Refuse(o)
               \/ /\ UNCHANGED <<faults, refused>>
                  /\ \/ work' = work /\ work.table[schema.name[o]] # NoTable
                     \/ Created(work, work', o, schema.name[o], schema.foreign[o])
  BY CreateIsOne
<1>2. PICK o \in Version :
            /\ IsEntry(schema, o) /\ o \notin schema.created
            /\ o \notin tried /\ tried' = tried \cup {o}
            /\ schema.name[o] \in Name
            /\ \/ work' = work /\ Refuse(o)
               \/ /\ UNCHANGED <<faults, refused>>
                  /\ \/ work' = work /\ work.table[schema.name[o]] # NoTable
                     \/ Created(work, work', o, schema.name[o], schema.foreign[o])
  BY <1>1
<1>3. (CreateDone \/ AllDone) /\ RefersToMeant /\ InStatements /\ NamesInv
  BY <1>1, CreateReady
<1>4. \A p : Target(p)' = Target(p) /\ (IsEntry(schema, p))' = IsEntry(schema, p)
  BY <1>1, TargetKeeps DEF vars, program, IsEntry
<1>5. UNCHANGED schema
  BY <1>1 DEF vars
<1>6. NoTable \notin Version
  BY DEF NoTable, Version
<1>7. CASE work' = work /\ Refuse(o)
  <2>1. refused' = refused \cup {o}
    BY <1>7 DEF Refuse
  <2>2. CreateDone => CreateDone'
    BY <1>2, <1>5, <1>7, <2>1 DEF CreateDone
  <2>3. AllDone => AllDone'
    BY <1>5, <1>7, <2>1 DEF AllDone
  <2>4. RefersToMeant'
    BY <1>3, <1>4, <1>5, <1>7, <2>1 DEF RefersToMeant, Holds
  <2> QED BY <1>1, <1>3, <2>2, <2>3, <2>4 DEF WorkInv
<1>8. CASE work' = work /\ UNCHANGED refused /\ work.table[schema.name[o]] # NoTable
  <2>1. work.table[schema.name[o]] = o
    <3>1. Owns(work.table[schema.name[o]], schema.name[o])
      BY <1>2, <1>8 DEF RowsInv, OwnedInv, IsOwned
    <3>2. work.table[schema.name[o]] \in Version
      BY <1>2, <1>8, DatabasesTyped DEF NoTable
    <3>3. Owns(o, schema.name[o])
      BY <1>2, EntryOwns
    <3> QED BY <1>2, <3>1, <3>2, <3>3 DEF RowsInv, OwnersInv
  <2>2. ASSUME CreateDone PROVE CreateDone'
    <3>1. o \in refused
      BY <1>2, <2>1, <2>2 DEF CreateDone
    <3> QED BY <1>2, <1>5, <1>8, <2>2, <3>1 DEF CreateDone
  <2>3. AllDone => AllDone'
    BY <1>5, <1>8 DEF AllDone
  <2>4. RefersToMeant'
    BY <1>3, <1>4, <1>5, <1>8 DEF RefersToMeant, Holds
  <2> QED BY <1>1, <1>3, <2>2, <2>3, <2>4 DEF WorkInv
<1>9. CASE /\ UNCHANGED refused
           /\ Created(work, work', o, schema.name[o], schema.foreign[o])
  <2>1. /\ work.table[schema.name[o]] = NoTable
        /\ \A m \in Name : work'.table[m] = IF m = schema.name[o] THEN o ELSE work.table[m]
        /\ \A p \in Version : work'.foreign[p] = IF p = o THEN schema.foreign[o]
                                                 ELSE work.foreign[p]
    BY <1>9 DEF Created
  <2>2. \A p \in Version : p # o => \A n \in Name : work'.table[n] = p <=> work.table[n] = p
    BY <1>6, <2>1
  <2>3. ASSUME AllDone PROVE AllDone'
    <3>1. o \in refused
      BY <1>2, <1>6, <2>1, <2>3 DEF AllDone
    <3> QED BY <1>5, <1>9, <2>2, <2>3, <3>1 DEF AllDone
  <2>4. ASSUME CreateDone PROVE CreateDone'
    <3>1. o \notin refused => \A n \in Name : work.table[n] # o
      BY <1>2, <2>4 DEF CreateDone
    <3>2. o \notin refused => \A n \in Name : work'.table[n] = o <=> schema.name[o] = n
      BY <2>1, <3>1
    <3>3. ASSUME NEW p \in Version \ refused, NEW n \in Name
          PROVE  work'.table[n] = p <=>
                    p \in schema.created \cup tried' /\ schema.name[p] = n
      <4>1. CASE p = o
        BY <1>2, <3>2, <3>3, <4>1
      <4>2. CASE p # o
        BY <1>2, <2>2, <2>4, <3>3, <4>2 DEF CreateDone
      <4> QED BY <4>1, <4>2
    <3> QED BY <1>5, <1>9, <3>3 DEF CreateDone
  <2>5. ASSUME NEW p \in Version \ refused, NEW t \in Version \ refused,
               Holds(work', p), Target(p) = t, IsEntry(schema, t)
        PROVE  work'.foreign[p] = schema.name[t]
    <3>1. CASE p = o
      BY <1>2, <1>3, <2>1, <2>5, <3>1, StatementFacts
    <3>2. CASE p # o
      <4>1. Holds(work, p)
        BY <2>2, <2>5, <3>2 DEF Holds
      <4> QED BY <1>3, <2>1, <2>5, <3>2, <4>1 DEF RefersToMeant
    <3> QED BY <3>1, <3>2
  <2>6. RefersToMeant'
    BY <1>4, <1>5, <1>9, <2>5 DEF RefersToMeant, Holds
  <2> QED BY <1>1, <1>3, <2>3, <2>4, <2>6 DEF WorkInv
<1> QED BY <1>2, <1>7, <1>8, <1>9

(* When no table is missing any more, the transaction has the version of   *)
(* the schema.                                                             *)
LEMMA CommitReady ==
    ASSUME BaseInv, RowsInv, WorkInv, CreatePhase, Missing = {}
    PROVE  InVersion(work, schema.version) /\ RefersTo(work)
<1>1. (CreateDone \/ AllDone) /\ RefersToMeant /\ InStatements /\ NamesInv
  BY CreateReady
<1>2. /\ \A n \in Name, o \in Version : schema.name[o] = n <=> ideal[schema.version][n] = o
      /\ NoName \notin Name
  BY <1>1, StatementFacts
<1>3. \A o \in Version : IsEntry(schema, o) => o \in schema.created \cup tried
  BY DEF Missing, Entries
<1>4. AllDone
  <2>1. ASSUME CreateDone PROVE AllDone
    BY <1>2, <1>3, <2>1 DEF CreateDone, AllDone, IsEntry
  <2> QED BY <1>1, <2>1
<1>5. InVersion(work, schema.version)
  BY <1>2, <1>4 DEF AllDone, InVersion
<1>6. RefersTo(work)
  BY <1>1, <1>2, <1>4 DEF AllDone, RefersTo, RefersToMeant, IsEntry
<1> QED BY <1>5, <1>6

LEMMA WorkStep ==
    ASSUME WithinLimits, BaseInv, RowsInv, ContentInv, [SqliteNext]_dbvars, BaseInv'
    PROVE  WorkInv'
<1>1. WorkInv /\ InterruptedInv /\ DiskInv /\ NamesInv
  BY DEF ContentInv, RowsInv
<1>2. CASE Install \/ Open \/ Migrate \/ SyncRefused \/ SyncNotNeeded
  BY <1>2 DEF Install, Open, Migrate, SyncRefused, SyncNotNeeded, WorkInv
<1>3. CASE SyncBegin
  BY <1>1, <1>3, WorkBegins
<1>4. CASE ExecDrop \/ ExecRename \/ SkipCreate
  BY <1>1, <1>4, UnsyncedWork
<1>5. CASE ExecCreate
  BY <1>1, <1>5, CreateWork
<1>6. CASE Commit \/ SetUserVersion \/ Crash \/ Exit
  BY <1>6 DEF Commit, SetUserVersion, Crash, Exit, Down, WorkInv
<1>7. CASE UNCHANGED dbvars
  <2>1. UNCHANGED <<latest, history, ideal, schema, dbversion, work, pc, node, tried, refused>>
    BY <1>7 DEF dbvars, vars, loops, bounds
  <2>2. \A p : Target(p)' = Target(p)
    BY <2>1 DEF Target
  <2>3. (RefersTo(work) => RefersTo(work)') /\ (RefersToMeant => RefersToMeant')
    BY <2>1, <2>2 DEF RefersTo, RefersToMeant, Holds, IsEntry
  <2>4. (UnsyncedDone => UnsyncedDone') /\ (CreateDone => CreateDone') /\ (AllDone => AllDone')
    BY <2>1 DEF UnsyncedDone, CreateDone, AllDone, Rest
  <2> QED BY <1>1, <2>1, <2>3, <2>4 DEF WorkInv
<1> QED BY <1>2, <1>3, <1>4, <1>5, <1>6, <1>7 DEF SqliteNext, Statement

(* The next release changes nothing about the versions before it.          *)
LEMMA DiskInstall ==
    ASSUME WithinLimits, BaseInv, InterruptedInv, DiskInv, Install
    PROVE  DiskInv'
<1>1. /\ pc = "down" /\ ~interrupted
      /\ UNCHANGED <<dbversion, disk, userversion, interrupted, refused>>
  BY DEF Install, WithinLimits, bounds
<1>2. /\ latest' = latest + 1
      /\ \A v \in 1 .. latest : history'[v] = history[v]
      /\ \A v \in 0 .. MaxVersion : v # latest + 1 => ideal'[v] = ideal[v]
  BY InstallAdds
<1>3. /\ userversion \in 0 .. MaxVersion /\ userversion <= latest /\ latest \in 0 .. MaxVersion
      /\ MaxVersion \in Nat /\ userversion = dbversion
  BY <1>1, BaseFacts DEF BaseInv, PlaceInv
<1>4. ideal'[userversion] = ideal[userversion]
  <2>1. userversion # latest + 1
    BY <1>3
  <2> QED BY <1>2, <1>3, <2>1
<1>5. InVersion(disk, userversion)
  BY <1>1 DEF DiskInv
<1>6. InVersion(disk, userversion)'
  <2>1. \A o \in Version \ refused : \A n \in Name :
           disk'.table[n] = o <=> ideal'[userversion'][n] = o
    BY <1>1, <1>4, <1>5 DEF InVersion
  <2> QED BY <1>1, <2>1 DEF InVersion
<1>7. ASSUME NEW o \in Version \ refused, Holds(disk, o)
      PROVE  Target(o)' = Target(o)
  <2>1. PICK n \in Name : ideal[userversion][n] = o
    BY <1>5, <1>7 DEF InVersion, Holds
  <2>2. o <= userversion
    BY <1>3, <2>1 DEF BaseInv, IInv, ReleasesInv
  <2>3. o \in 1 .. latest /\ o \in 0 .. MaxVersion /\ o # latest + 1
    BY <1>3, <2>2 DEF Version
  <2>4. history'[o] = history[o] /\ ideal'[o] = ideal[o]
    BY <1>2, <2>3
  <2> QED BY <2>4 DEF Target
<1>8. RefersTo(disk)'
  <2>1. RefersTo(disk)
    BY DEF DiskInv
  <2> QED BY <1>1, <1>7, <2>1 DEF RefersTo, Holds
<1>9. ~(userversion' < dbversion')
  BY <1>1, <1>3
<1> QED BY <1>6, <1>8, <1>9 DEF DiskInv

(* The more was refused, the less is said about the database.              *)
LEMMA DiskStays ==
    ASSUME UNCHANGED disk, UNCHANGED program, refused \subseteq refused'
    PROVE  /\ \A v \in 0 .. MaxVersion : InVersion(disk, v) =>
                 \A o \in Version \ refused' : \A n \in Name :
                    disk'.table[n] = o <=> ideal'[v][n] = o
           /\ RefersTo(disk) => RefersTo(disk)'
<1>1. \A p : Target(p)' = Target(p)
  BY TargetKeeps
<1>2. RefersTo(disk) => RefersTo(disk)'
  BY <1>1 DEF RefersTo, Holds
<1> QED BY <1>2 DEF InVersion, program

LEMMA DiskSame ==
    ASSUME BaseInv, DiskInv, UNCHANGED disk, UNCHANGED program, refused \subseteq refused',
           \/ userversion' = userversion /\ (interrupted => interrupted')
           \/ userversion' = dbversion /\ userversion < dbversion,
           userversion' < dbversion' => dbversion' = dbversion /\ userversion' = userversion
    PROVE  DiskInv'
<1>1. /\ userversion \in 0 .. MaxVersion /\ dbversion \in 0 .. MaxVersion
      /\ latest \in 0 .. MaxVersion /\ latest' = latest
  BY BaseFacts DEF program
<1>2. /\ \A v \in 0 .. MaxVersion : InVersion(disk, v) =>
            \A o \in Version \ refused' : \A n \in Name :
               disk'.table[n] = o <=> ideal'[v][n] = o
      /\ RefersTo(disk)'
  BY DiskStays DEF DiskInv
<1>3. \/ InVersion(disk, userversion)'
      \/ interrupted' /\ InVersion(disk, latest)'
  <2>1. CASE userversion' = userversion /\ (interrupted => interrupted')
    <3>1. CASE InVersion(disk, userversion)
      BY <1>1, <1>2, <2>1, <3>1 DEF InVersion
    <3>2. CASE interrupted /\ InVersion(disk, latest)
      BY <1>1, <1>2, <2>1, <3>2 DEF InVersion
    <3> QED BY <3>1, <3>2 DEF DiskInv
  <2>2. CASE userversion' = dbversion /\ userversion < dbversion
    <3>1. InVersion(disk, dbversion)
      BY <2>2 DEF DiskInv
    <3> QED BY <1>1, <1>2, <2>2, <3>1 DEF InVersion
  <2> QED BY <2>1, <2>2
<1>4. userversion' < dbversion' => InVersion(disk, dbversion)'
  BY <1>1, <1>2 DEF DiskInv, InVersion
<1> QED BY <1>2, <1>3, <1>4 DEF DiskInv

LEMMA DiskStep ==
    ASSUME WithinLimits, BaseInv, RowsInv, ContentInv, [SqliteNext]_dbvars
    PROVE  DiskInv'
<1>1. WorkInv /\ InterruptedInv /\ DiskInv
  BY DEF ContentInv
<1>2. CASE Install
  BY <1>1, <1>2, DiskInstall
<1>3. CASE Open \/ Migrate \/ SyncRefused \/ SyncNotNeeded \/ SyncBegin
  <2>1. UNCHANGED program /\ UNCHANGED <<disk, userversion, refused>>
    BY <1>3 DEF Open, Migrate, SyncRefused, SyncNotNeeded, SyncBegin, Include, BeginSync,
                program, vars, bounds
  <2>2. interrupted' = interrupted \/ interrupted' = TRUE
    BY <1>3 DEF Open, Migrate, SyncRefused, SyncNotNeeded, SyncBegin, bounds
  <2>3. dbversion' = userversion' \/ dbversion' = dbversion
    BY <1>3 DEF Open, Migrate, SyncRefused, SyncNotNeeded, SyncBegin, Include, BeginSync, vars
  <2>4. userversion' < dbversion' => dbversion' = dbversion
    BY <2>1, <2>3, BaseFacts
  <2> QED BY <1>1, <2>1, <2>2, <2>4, DiskSame
<1>4. CASE ExecDrop \/ ExecRename \/ SkipCreate \/ ExecCreate
  <2>1. UNCHANGED vars /\ UNCHANGED <<disk, userversion, interrupted>>
    BY <1>4 DEF ExecDrop, ExecRename, SkipCreate, ExecCreate, InUnsynced
  <2>2. refused \subseteq refused'
    BY <1>4 DEF ExecDrop, ExecRename, SkipCreate, ExecCreate, Exec, Refuse
  <2>3. UNCHANGED program /\ UNCHANGED dbversion
    BY <2>1 DEF vars, program
  <2> QED BY <1>1, <2>1, <2>2, <2>3, DiskSame
<1>5. CASE Commit
  <2>1. /\ CreatePhase /\ Missing = {} /\ disk' = work /\ dbversion' = schema.version
        /\ UNCHANGED <<latest, history, ideal, userversion, interrupted, refused>>
    BY <1>5 DEF Commit, program, bounds
  <2>2. InVersion(work, schema.version) /\ RefersTo(work)
    BY <1>1, <2>1, CommitReady
  <2>3. interrupted /\ schema.version = latest
    BY <1>1, <2>1 DEF InterruptedInv, CreatePhase, InStatements
  <2>4. \A p : Target(p)' = Target(p)
    BY <2>1 DEF Target
  <2>5. InVersion(disk, latest)' /\ InVersion(disk, dbversion)'
    BY <2>1, <2>2, <2>3 DEF InVersion
  <2>6. RefersTo(disk)'
    BY <2>1, <2>2, <2>4 DEF RefersTo, Holds
  <2> QED BY <2>1, <2>3, <2>5, <2>6 DEF DiskInv
<1>6. CASE SetUserVersion
  <2>1. /\ UNCHANGED program /\ UNCHANGED <<disk, dbversion>> /\ pc = "version"
        /\ \/ userversion' = dbversion /\ UNCHANGED refused
           \/ UNCHANGED <<userversion, interrupted>> /\ Refuse(TheVersion)
    BY <1>6 DEF SetUserVersion, vars, program
  <2>2. refused \subseteq refused'
    BY <2>1 DEF Refuse
  <2>3. userversion < dbversion
    BY <2>1 DEF BaseInv, PlaceInv
  <2>4. userversion' < dbversion' => userversion' = userversion
    BY <2>1, BaseFacts
  <2> QED BY <1>1, <2>1, <2>2, <2>3, <2>4, DiskSame
<1>7. CASE Crash \/ Exit
  <2>1. /\ UNCHANGED program /\ UNCHANGED <<disk, userversion, interrupted, refused>>
        /\ dbversion' = userversion
    BY <1>7 DEF Crash, Exit, Down
  <2>2. ~(userversion' < dbversion')
    BY <2>1, BaseFacts
  <2> QED BY <1>1, <2>1, <2>2, DiskSame
<1>8. CASE UNCHANGED dbvars
  <2>1. /\ UNCHANGED program /\ UNCHANGED <<disk, userversion, interrupted, refused, dbversion>>
    BY <1>8 DEF dbvars, vars, bounds, program
  <2> QED BY <1>1, <2>1, DiskSame
<1> QED BY <1>2, <1>3, <1>4, <1>5, <1>6, <1>7, <1>8 DEF SqliteNext, Statement

LEMMA SqliteInitContent == SqliteInit => ContentInv
<1> SUFFICES ASSUME SqliteInit PROVE ContentInv
  OBVIOUS
<1>1. /\ latest = 0 /\ dbversion = 0 /\ userversion = 0 /\ pc = "down" /\ ~interrupted
      /\ code = "NONE" /\ disk = EmptyDatabase
      /\ \A n \in Name : ideal[0][n] = NoTable
  BY VersionAssumption DEF SqliteInit, Init
<1>2. \A o \in Version : o # NoTable
  BY DEF Version, NoTable
<1>3. \A n \in Name : disk.table[n] = NoTable
  BY <1>1 DEF EmptyDatabase
<1>4. InVersion(disk, userversion) /\ RefersTo(disk)
  BY <1>1, <1>2, <1>3 DEF InVersion, RefersTo
<1>5. DiskInv
  BY <1>1, <1>4 DEF DiskInv
<1>6. InterruptedInv /\ WorkInv
  BY <1>1 DEF InterruptedInv, WorkInv, InStatements
<1> QED BY <1>5, <1>6 DEF ContentInv

(* The third layer, within the limits: what is committed is a version as   *)
(* its migrations mean it, and the statements have come as far as the      *)
(* loops of sqdb_sqlite_migrate_sync() say.                                *)
THEOREM ContentInvariance == ASSUME WithinLimits PROVE SqliteSpec => []ContentInv
<1>1. SqliteInit => ContentInv
  BY SqliteInitContent
<1>2. BaseInv /\ BaseInv' /\ RowsInv /\ ContentInv /\ [SqliteNext]_dbvars => ContentInv'
  <2> SUFFICES ASSUME BaseInv, BaseInv', RowsInv, ContentInv, [SqliteNext]_dbvars
               PROVE  ContentInv'
    OBVIOUS
  <2>1. InterruptedInv'
    BY InterruptedStep DEF ContentInv
  <2> QED BY <2>1, DiskStep, WorkStep DEF ContentInv
<1>3. SqliteSpec => []RowsInv
  BY RowsInvariance DEF WithinLimits
<1> QED BY <1>1, <1>2, <1>3, BaseInvariance, PTL DEF SqliteSpec

LEMMA InVersionMatches ==
    ASSUME BaseInv, NEW d, NEW v \in 0 .. MaxVersion, InVersion(d, v), RefersTo(d)
    PROVE  MatchesBut(d, v, refused)
<1>1. ideal[v] \in [Name -> 0 .. MaxVersion]
  BY DEF BaseInv, IInv, TypeOK
<1>2. \A o \in Range(ideal[v]) \ ({NoTable} \cup refused) :
         o \in Version \ refused /\ \E m \in Name : ideal[v][m] = o
  BY <1>1, VersionAssumption DEF Range, NoTable, Version
<1>3. ASSUME NEW o \in Range(ideal[v]) \ ({NoTable} \cup refused), NEW n \in Name,
             ideal[v][n] # NoTable, ideal[v][n] = Target(o), Target(o) \notin refused
      PROVE  d.foreign[o] = n
  <2>1. o \in Version \ refused /\ Holds(d, o)
    BY <1>2 DEF InVersion, Holds
  <2>2. Target(o) \in Version \ refused
    BY <1>1, <1>3, VersionAssumption DEF NoTable, Version
  <2>3. d.table[n] = Target(o)
    BY <1>3, <2>2 DEF InVersion
  <2> QED BY <2>1, <2>2, <2>3 DEF RefersTo
<1> QED BY <1>3 DEF MatchesBut, InVersion

(* When names are never reused, whole releases are synchronized and what   *)
(* was cut short is run again before the next release, SQCODE_OK means     *)
(* that the database has the tables and the foreign keys that the version  *)
(* it tells of means, but for the tables of refused statements.            *)
THEOREM SyncFaithful == ASSUME WithinLimits PROVE SqliteSpec => []SyncIsFaithful
<1>1. BaseInv /\ ContentInv => SyncIsFaithful
  <2> SUFFICES ASSUME BaseInv, ContentInv PROVE SyncIsFaithful
    OBVIOUS
  <2>1. SqliteTypeOK /\ DiskInv /\ InterruptedInv
    BY DEF BaseInv, ContentInv
  <2>2. ASSUME code = "OK"
        PROVE  /\ MatchesBut(disk, dbversion, refused)
               /\ userversion = dbversion \/ TheVersion \in refused
    <3>1. pc = "idle" /\ dbversion = latest
      BY <2>1, <2>2 DEF InterruptedInv
    <3>2. /\ userversion \in Nat /\ dbversion \in Nat /\ userversion <= dbversion
          /\ dbversion \in 0 .. MaxVersion
      BY BaseFacts
    <3>3. CASE userversion = dbversion
      <4>1. InVersion(disk, dbversion)
        BY <2>1, <3>1, <3>3 DEF DiskInv
      <4> QED BY <2>1, <3>2, <3>3, <4>1, InVersionMatches DEF DiskInv
    <3>4. CASE userversion < dbversion
      <4>1. InVersion(disk, dbversion) /\ TheVersion \in refused
        BY <2>1, <3>1, <3>4 DEF DiskInv, InterruptedInv
      <4> QED BY <2>1, <3>2, <4>1, InVersionMatches DEF DiskInv
    <3> QED BY <3>2, <3>3, <3>4
  <2> QED BY <2>1, <2>2 DEF SyncIsFaithful
<1>2. SqliteSpec => []ContentInv
  BY ContentInvariance
<1> QED BY <1>1, <1>2, BaseInvariance, PTL

(* Under the same conditions, if nothing is refused, the database has the  *)
(* tables of some version at any time, also right after a crash.           *)
THEOREM AllOrNothingHolds == ASSUME WithinLimits PROVE SqliteSpec => []AllOrNothing
<1>1. BaseInv /\ ContentInv => AllOrNothing
  <2> SUFFICES ASSUME BaseInv, ContentInv, refused = {}
               PROVE  \E v \in 0 .. latest : Matches(disk, v)
    BY DEF AllOrNothing
  <2>1. /\ userversion \in 0 .. latest /\ latest \in 0 .. latest
        /\ userversion \in 0 .. MaxVersion /\ latest \in 0 .. MaxVersion
    BY BaseFacts
  <2>2. \E v \in {userversion, latest} : InVersion(disk, v) /\ RefersTo(disk)
    BY DEF ContentInv, DiskInv
  <2>3. PICK v \in {userversion, latest} : InVersion(disk, v) /\ RefersTo(disk)
    BY <2>2
  <2>4. MatchesBut(disk, v, refused)
    BY <2>1, <2>3, InVersionMatches
  <2> QED BY <2>1, <2>3, <2>4 DEF Matches
<1>2. SqliteSpec => []ContentInv
  BY ContentInvariance
<1> QED BY <1>1, <1>2, BaseInvariance, PTL
=============================================================================
