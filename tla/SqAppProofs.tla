----------------------------- MODULE SqAppProofs -----------------------------
(***************************************************************************)
(* Proofs about SqApp, for every number of migrations and of crashes.      *)
(*                                                                         *)
(* Rows, tables, version and schema are written one after another, so that *)
(* they agree only between commands.  The invariant says, for each place   *)
(* the program can be in, how far each of them is ahead of or behind the   *)
(* others; and what a crash leaves is such that all of them stand at a     *)
(* version from the stored one on, which the next call catches up with.    *)
(***************************************************************************)
EXTENDS SqApp, FiniteSetTheorems, WellFoundedInduction, TLAPS

USE AppAssumption DEF AppAssumption

(* What the theorems are about: only the first migrations may be deleted,  *)
(* and a rollback does not crash: nothing in the code brings the rows and  *)
(* tables together again that a crashed rollback has separated.            *)
Supported ==
    /\ CrashIn \subseteq {"migrate"}
    /\ \A D \in MaybeDeleted : \A i \in D : 1 .. i \subseteq D

-----------------------------------------------------------------------------
(* Induction over the natural numbers, for sets instead of predicates.     *)

(* A set of natural numbers that is not empty has a least element.         *)
LEMMA Least ==
    ASSUME NEW T, T \subseteq Nat, T # {}
    PROVE  \E x \in T : \A y \in T : x <= y
<1> DEFINE R == OpToRel(<, Nat)
<1>1. IsWellFoundedOn(R, Nat)
  BY NatLessThanWellFounded
<1>2. PICK x \in T : \A y \in T : ~(<<y, x>> \in R)
  <2> HIDE DEF R
  <2> QED BY <1>1, WFMin
<1>3. \A y \in T : ~(y < x)
  BY <1>2, Zenon DEF OpToRel
<1> HIDE DEF R
<1> QED BY <1>3

-----------------------------------------------------------------------------
(* The invariant, by where the program is.                                 *)

Schemas ==
    [version : 0 .. MaxVersion, tables : SUBSET Id, created : SUBSET Id, dropped : SUBSET Id]

FirstDeleted == \A i \in deleted : 1 .. i \subseteq deleted

(* Which commands there are where, and which are interrupted.              *)
Places ==
    /\ op = "none" <=> pc \in {"down", "opened", "idle"}
    /\ interrupted \in {"none", "migrate"}
    /\ op = "rollback" => interrupted = "none"

(* The schema in memory is the one that version v has, when the database   *)
(* has the tables in created.                                              *)
SchemaHas(tables, created, dropped) ==
    /\ schema.tables = tables
    /\ schema.created = created
    /\ schema.dropped = dropped

Resting ==
    op = "none" =>
        /\ dbversion = userversion
        /\ pc = "idle" /\ dbversion < n_migrations =>
              /\ SchemaHas(Live(dbversion), Live(dbversion), {})
              /\ schema.version <= dbversion
        /\ interrupted = "none" =>
              Recorded = Live(userversion) /\ stored = Live(userversion)
        /\ interrupted = "migrate" =>
              /\ userversion < n_migrations
              /\ \E k, s \in userversion .. n_migrations - 1 :
                    Recorded = Live(k) /\ stored = Live(s)

Migrating ==
    op = "migrate" /\ pc = "running" =>
        /\ dbversion = userversion /\ userversion < n_migrations
        /\ cur \in userversion + 1 .. last /\ last <= n_migrations
        /\ SchemaHas(Live(cur - 1), Live(userversion), {})
        /\ ~changed => cur = userversion + 1
        /\ \/ schema.version <= userversion /\ Live(cur - 1) = Live(userversion)
           \/ schema.version = cur - 1 /\ userversion < cur - 1 /\ cur - 1 \notin deleted
        /\ interrupted = "none" => Recorded = Live(cur - 1) /\ stored = Live(userversion)
        /\ interrupted = "migrate" =>
              /\ last = n_migrations
              /\ \E k \in cur - 1 .. n_migrations - 1, s \in userversion .. n_migrations - 1 :
                    Recorded = Live(k) /\ stored = Live(s)
        /\ batch > 0 /\ \A i \in Id : rows[i] <= batch

RollingBack ==
    op = "rollback" /\ pc = "running" =>
        /\ userversion < n_migrations /\ cur <= userversion
        /\ Recorded = Live(cur) /\ stored = Live(userversion)
        /\ SchemaHas(Live(cur), Live(cur), Live(userversion) \ Live(cur))
        /\ \/ /\ dbversion = userversion /\ schema.version <= userversion
              /\ Live(cur) = Live(userversion)
           \/ /\ changed /\ dbversion = schema.version - 1
              /\ cur <= schema.version /\ schema.version < userversion
              /\ Live(cur) = Live(schema.version)

Versioning ==
    pc = "version" =>
        /\ userversion < n_migrations
        /\ dbversion \in 0 .. n_migrations - 1 /\ schema.version = dbversion
        /\ SchemaHas(Live(dbversion), Live(dbversion), {})
        /\ Recorded = Live(dbversion) /\ stored = Live(dbversion)
        /\ op = "migrate" => userversion <= dbversion

IInv ==
    /\ TypeOK /\ FirstDeleted /\ Places
    /\ Resting /\ Migrating /\ RollingBack /\ Versioning
    /\ BatchesInOrder

-----------------------------------------------------------------------------
(* The operators of the model.                                             *)

LEMMA MaxIs ==
    ASSUME NEW S \in SUBSET Int, NEW m \in S, \A x \in S : x <= m
    PROVE  Max(S) = m
<1>1. \E x \in S : \A y \in S : x >= y
  OBVIOUS
<1>2. Max(S) \in S /\ \A y \in S : Max(S) >= y
  BY <1>1, Zenon DEF Max
<1>3. Max(S) \in Int /\ m \in Int /\ Max(S) >= m /\ Max(S) <= m
  BY <1>2
<1> QED BY <1>3

(* A set of migrations has a last one.                                     *)
LEMMA MaxOfIds ==
    ASSUME NEW S \in SUBSET Id, S # {}
    PROVE  Max(S) \in S /\ \A y \in S : y <= Max(S)
<1> DEFINE T == {MaxVersion - x : x \in S}
<1>1. T \subseteq Nat /\ T # {}
  BY DEF Id
<1>2. PICK t \in T : \A y \in T : t <= y
  <2> HIDE DEF T
  <2> QED BY <1>1, Least
<1>3. PICK m \in S : t = MaxVersion - m
  BY <1>2
<1>4. \A y \in S : y <= m
  BY <1>2, <1>3 DEF Id
<1>5. Max(S) = m
  BY <1>4, MaxIs DEF Id
<1> QED BY <1>4, <1>5

(* The rows to insert are of a batch that is later than all others.        *)
LEMMA NextBatchIsLater ==
    ASSUME TypeOK, BatchesInOrder
    PROVE  /\ NextBatch \in Nat /\ NextBatch > 0
           /\ \A i \in Id : rows[i] < NextBatch
<1>1. rows \in [Id -> Nat] /\ Recorded \in SUBSET Id
  BY DEF TypeOK, Recorded
<1>2. CASE Recorded = {}
  BY <1>1, <1>2 DEF NextBatch, LastBatch, Recorded
<1>3. CASE Recorded # {}
  <2>1. Max(Recorded) \in Recorded /\ \A y \in Recorded : y <= Max(Recorded)
    BY <1>1, <1>3, MaxOfIds
  <2>2. LastBatch = rows[Max(Recorded)]
    BY <1>3 DEF LastBatch, LastId
  <2>3. \A i \in Recorded : rows[i] <= LastBatch
    <3>1. SUFFICES ASSUME NEW i \in Recorded, i # Max(Recorded)
                   PROVE  rows[i] <= rows[Max(Recorded)]
      BY <1>1, <2>1, <2>2 DEF Recorded
    <3>2. i \in Id /\ Max(Recorded) \in Id /\ i <= Max(Recorded)
      BY <1>1, <2>1
    <3>3. i < Max(Recorded)
      BY <3>1, <3>2 DEF Id
    <3> QED BY <2>1, <3>3 DEF BatchesInOrder
  <2>4. LastBatch \in Nat
    BY <1>1, <2>1, <2>2
  <2> QED BY <1>1, <2>3, <2>4 DEF NextBatch, Recorded
<1> QED BY <1>2, <1>3

LEMMA CountIsNatural ==
    ASSUME NEW b PROVE CountBatch(b) \in Nat
<1> DEFINE S == {i \in Recorded : rows[i] = b}
<1>1. S \subseteq 1 .. MaxVersion /\ IsFiniteSet(1 .. MaxVersion)
  BY FS_Interval DEF Recorded, Id
<1>2. IsFiniteSet(S)
  BY <1>1, FS_Subset
<1> QED BY <1>2, FS_CardinalityType DEF CountBatch

(* When only the first migrations are deleted, a schema that is made has   *)
(* what the database has: it is synchronized, or there is nothing in it.   *)
LEMMA MadeIsCurrent ==
    ASSUME TypeOK, FirstDeleted, NEW v \in 0 .. MaxVersion
    PROVE  /\ Made(v) \in Schemas /\ Made(v).version <= v
           /\ Made(v).tables = Live(v) /\ Made(v).created = Live(v)
           /\ Made(v).dropped = {}
<1> DEFINE m == Max({0} \cup Live(v))
           s == [EmptySchema EXCEPT !.version = m, !.tables = Live(v)]
<1>1. Live(v) \subseteq Id /\ Live(v) \subseteq 0 .. v
  BY DEF Live, Id
<1>2. Made(v) = IF s.version = v THEN Synchronized(s) ELSE s
  BY DEF Made
<1>3. ASSUME m \in 0 .. MaxVersion
      PROVE  /\ s \in Schemas
             /\ s.version = m /\ s.tables = Live(v) /\ s.created = {} /\ s.dropped = {}
  <2> HIDE DEF m
  <2> QED BY <1>1, <1>3 DEF EmptySchema, Schemas
<1>4. CASE v \in Live(v) \/ v = 0
  <2>1. v \in {0} \cup Live(v) /\ \A x \in {0} \cup Live(v) : x <= v
    BY <1>1, <1>4
  <2>2. m = v
    BY <1>1, <2>1, MaxIs
  <2> HIDE DEF s, m
  <2>3. Made(v) = [s EXCEPT !.created = s.tables, !.dropped = {}]
    BY <1>2, <1>3, <2>2 DEF Synchronized
  <2>4. /\ s \in Schemas /\ s.version = v
        /\ s.tables = Live(v) /\ s.created = {} /\ s.dropped = {}
    BY <1>3, <2>2
  <2>5. Made(v) \in Schemas
    BY <1>1, <2>3, <2>4 DEF Schemas
  <2> QED BY <2>3, <2>4, <2>5 DEF Schemas
<1>5. CASE v \notin Live(v) /\ v # 0
  <2>1. v \in deleted
    BY <1>5 DEF Live, Id
  <2>2. Live(v) = {}
    BY <2>1 DEF FirstDeleted, Live, Id
  <2>3. m = 0
    BY <2>2, MaxIs
  <2> HIDE DEF s, m
  <2> QED BY <1>2, <1>3, <1>5, <2>2, <2>3
<1> QED BY <1>4, <1>5

-----------------------------------------------------------------------------
(* The initial states, and what happens between commands.                  *)

LEMMA Initially == ASSUME Supported, Init PROVE IInv
<1>1. Live(0) = {} /\ Recorded = {}
  BY DEF Init, Live, Recorded, Id
<1>2. TypeOK
  <2>1. EmptySchema \in Schemas
    BY DEF EmptySchema, Schemas
  <2>2. /\ userversion \in 0 .. MaxVersion /\ dbversion \in -1 .. MaxVersion
        /\ cur \in 0 .. MaxVersion + 1
    BY DEF Init
  <2>3. rows \in [Id -> Nat] /\ ran \in [Id -> Nat]
    BY DEF Init
  <2>4. deleted \subseteq Id /\ n_migrations \in 1 .. MaxVersion + 1
    BY DEF Init
  <2> QED BY <2>1, <2>2, <2>3, <2>4 DEF Init, TypeOK, Schemas
<1>4. FirstDeleted /\ BatchesInOrder
  BY <1>1 DEF Init, FirstDeleted, Supported, BatchesInOrder
<1>3. Places /\ Resting /\ Migrating /\ RollingBack /\ Versioning
  BY <1>1 DEF Init, Places, Resting, Migrating, RollingBack, Versioning
<1> QED BY <1>2, <1>3, <1>4 DEF IInv

LEMMA InstallKeeps == ASSUME IInv, Install PROVE IInv'
<1> USE DEF IInv, Install, database, memory, loop, ghosts
<1>1. TypeOK' /\ FirstDeleted' /\ Places' /\ BatchesInOrder'
  BY DEF TypeOK, FirstDeleted, Places, BatchesInOrder, Recorded
<1>2. Resting'
  BY DEF Resting, Places, Recorded, Live
<1>3. Migrating' /\ RollingBack' /\ Versioning'
  BY DEF Places, Migrating, RollingBack, Versioning
<1> QED BY <1>1, <1>2, <1>3

LEMMA OpenKeeps == ASSUME IInv, Open PROVE IInv'
<1> USE DEF IInv, Open, release, database, loop, ghosts
<1>1. TypeOK' /\ FirstDeleted' /\ Places' /\ BatchesInOrder'
  BY DEF TypeOK, FirstDeleted, Places, BatchesInOrder, Recorded
<1>2. Resting'
  BY DEF Resting, Places, Recorded, Live
<1>3. Migrating' /\ RollingBack' /\ Versioning'
  BY DEF Places, Migrating, RollingBack, Versioning
<1> QED BY <1>1, <1>2, <1>3

LEMMA MakeSchemaKeeps == ASSUME IInv, MakeSchema PROVE IInv'
<1> USE DEF IInv, MakeSchema, release, database, loop, ghosts
<1>1. op = "none" /\ dbversion = userversion /\ dbversion \in 0 .. MaxVersion
  BY DEF TypeOK, Places, Resting
<1>2. schema' \in Schemas
  BY <1>1, MadeIsCurrent DEF TypeOK, Schemas, EmptySchema
<1>3. TypeOK' /\ FirstDeleted' /\ Places' /\ BatchesInOrder'
  BY <1>2 DEF TypeOK, Schemas, FirstDeleted, Places, BatchesInOrder, Recorded
<1>4. dbversion < n_migrations =>
         /\ SchemaHas(Live(dbversion), Live(dbversion), {})'
         /\ schema'.version <= dbversion
  <2>1. CASE dbversion = 0
    <3>1. Live(0) = {} /\ schema' = EmptySchema
      BY <2>1 DEF Live, Id
    <3> QED BY <2>1, <3>1 DEF SchemaHas, EmptySchema, Live
  <2>2. CASE dbversion # 0 /\ dbversion < n_migrations
    BY <1>1, <2>2, MadeIsCurrent DEF SchemaHas, Live, TypeOK
  <2> QED BY <2>1, <2>2
<1>5. Resting'
  BY <1>1, <1>4 DEF Resting, Recorded, Live
<1>6. Migrating' /\ RollingBack' /\ Versioning'
  BY <1>1 DEF Migrating, RollingBack, Versioning
<1> QED BY <1>3, <1>5, <1>6

LEMMA WrongMigrationsKeeps == ASSUME IInv, WrongMigrations PROVE IInv'
<1> USE DEF IInv, WrongMigrations, Command, release, database, memory
<1>1. TypeOK'
  <2>1. commands' \in Nat
    BY DEF TypeOK
  <2> QED BY <2>1 DEF TypeOK
<1>2. FirstDeleted' /\ Places' /\ BatchesInOrder'
  BY DEF FirstDeleted, Places, BatchesInOrder, Recorded
<1>3. Resting'
  BY DEF Resting, Places, Recorded, Live, SchemaHas
<1>4. Migrating' /\ RollingBack' /\ Versioning'
  BY DEF Places, Migrating, RollingBack, Versioning
<1> QED BY <1>1, <1>2, <1>3, <1>4

LEMMA CloseKeeps == ASSUME IInv, Close PROVE IInv'
<1> USE DEF IInv, Close, Ended, release, database
<1>0. EmptySchema \in Schemas
  BY DEF EmptySchema, Schemas
<1>1. TypeOK'
  BY <1>0 DEF TypeOK, Schemas
<1>2. FirstDeleted' /\ Places' /\ BatchesInOrder'
  BY DEF FirstDeleted, Places, BatchesInOrder, Recorded
<1>3. Resting'
  BY DEF Resting, Places, Recorded, Live
<1>4. Migrating' /\ RollingBack' /\ Versioning'
  BY DEF Migrating, RollingBack, Versioning
<1> QED BY <1>1, <1>2, <1>3, <1>4

(* A crash leaves rows and tables of versions from the stored one on.      *)
LEMMA CrashKeeps == ASSUME Supported, IInv, Crash PROVE IInv'
<1> USE DEF IInv, Crash, Ended, release, database
<1>1. op = "migrate" /\ interrupted' = "migrate" /\ pc \in {"running", "version"}
  BY DEF Supported, Places, TypeOK
<1>2. TypeOK' /\ FirstDeleted' /\ Places' /\ BatchesInOrder'
  BY <1>1 DEF TypeOK, FirstDeleted, Places, BatchesInOrder, Recorded, EmptySchema
<1>3. /\ userversion < n_migrations
      /\ \E k, s \in userversion .. n_migrations - 1 : Recorded = Live(k) /\ stored = Live(s)
  <2>1. CASE pc = "version"
    BY <1>1, <2>1 DEF Versioning, TypeOK
  <2>2. CASE pc = "running" /\ interrupted = "none"
    <3>1. /\ cur - 1 \in userversion .. n_migrations - 1
          /\ userversion \in userversion .. n_migrations - 1
      BY <1>1, <2>2 DEF Migrating, TypeOK
    <3> QED BY <1>1, <2>2, <3>1 DEF Migrating
  <2>3. CASE pc = "running" /\ interrupted = "migrate"
    BY <1>1, <2>3 DEF Migrating, TypeOK
  <2> QED BY <1>1, <2>1, <2>2, <2>3 DEF Places
<1>4. Resting'
  BY <1>1, <1>3 DEF Resting, Recorded, Live
<1>5. Migrating' /\ RollingBack' /\ Versioning'
  BY DEF Migrating, RollingBack, Versioning
<1> QED BY <1>2, <1>4, <1>5

-----------------------------------------------------------------------------
(* sq_app_migrate()                                                        *)

LEMMA MigrateBeginKeeps ==
    ASSUME IInv, NEW step \in Step, MigrateBegin(step) PROVE IInv'
<1> USE DEF IInv, MigrateBegin, Command, release, database, memory
<1>1. /\ op = "none" /\ dbversion = userversion /\ userversion \in 0 .. MaxVersion
      /\ userversion < n_migrations /\ step \in Nat /\ n_migrations \in Nat
  BY DEF TypeOK, Places, Resting
<1>2. /\ last' \in userversion + 1 .. n_migrations
      /\ step = 0 => last' = n_migrations
  <2> DEFINE S == {dbversion + step + 1, n_migrations}
  <2>1. Min(S) \in S /\ \A x \in S : Min(S) <= x
    <3>1. \E x \in S : \A y \in S : x =< y
      BY <1>1
    <3> QED BY <3>1, Zenon DEF Min
  <2>2. Min(S) \in userversion + 1 .. n_migrations
    BY <1>1, <2>1
  <2> QED BY <1>1, <2>2
<1>3. batch' \in Nat /\ batch' > 0 /\ \A i \in Id : rows[i] <= batch'
  <2>1. rows \in [Id -> Nat]
    BY DEF TypeOK
  <2> QED BY <2>1, NextBatchIsLater
<1>4. TypeOK'
  <2>1. cur' \in 0 .. MaxVersion + 1 /\ last' \in Nat
    BY <1>1, <1>2 DEF TypeOK
  <2>2. runs' \in Nat /\ commands' \in Nat
    BY DEF TypeOK
  <2> QED BY <1>3, <2>1, <2>2 DEF TypeOK
<1>7. FirstDeleted' /\ Places' /\ BatchesInOrder'
  BY DEF FirstDeleted, Places, BatchesInOrder, Recorded
<1>5. Resting' /\ RollingBack' /\ Versioning'
  BY DEF Resting, RollingBack, Versioning
<1>6. Migrating'
  <2>1. SchemaHas(Live(cur - 1), Live(userversion), {})' /\ schema'.version <= userversion
    BY <1>1 DEF Resting, SchemaHas, Live
  <2>2. cur' = userversion + 1 /\ cur' - 1 = userversion
    BY <1>1
  <2>3. interrupted = "none" => Recorded = Live(userversion) /\ stored = Live(userversion)
    BY <1>1 DEF Resting
  <2>4. interrupted = "migrate" =>
           /\ last' = n_migrations
           /\ \E k \in userversion .. n_migrations - 1, s \in userversion .. n_migrations - 1 :
                 Recorded = Live(k) /\ stored = Live(s)
    BY <1>1, <1>2 DEF Resting
  <2> QED BY <1>1, <1>2, <1>3, <2>1, <2>2, <2>3, <2>4 DEF Migrating, Recorded, Live
<1> QED BY <1>4, <1>5, <1>6, <1>7

(* One version more: it is live, or nothing up to it is.                   *)
LEMMA NextLive ==
    ASSUME FirstDeleted, NEW v \in Id
    PROVE  /\ v \notin deleted => Live(v) = Live(v - 1) \cup {v} /\ v \notin Live(v - 1)
           /\ v \in deleted => Live(v) = {} /\ Live(v - 1) = {}
  BY DEF FirstDeleted, Live, Id

LEMMA MigrateSkipKeeps == ASSUME IInv, MigrateSkip PROVE IInv'
<1> USE DEF IInv, MigrateSkip, release, database, memory, ghosts
<1>1. /\ n_migrations \in 1 .. MaxVersion + 1 /\ userversion \in 0 .. MaxVersion
      /\ cur \in 0 .. MaxVersion + 1 /\ last \in Nat
  BY DEF TypeOK
<1>2. cur \in userversion + 1 .. last - 1 /\ cur \in Id /\ last <= n_migrations
  BY <1>1 DEF Migrating, Id
<1>3. cur' - 1 = cur
  BY <1>1
<1>4. Live(cur) = {} /\ Live(cur - 1) = {}
  BY <1>2, NextLive
<1>5. TypeOK'
  BY <1>1, <1>2 DEF TypeOK
<1>6. FirstDeleted' /\ Places' /\ BatchesInOrder'
  BY DEF FirstDeleted, Places, BatchesInOrder, Recorded
<1>7. Resting' /\ RollingBack' /\ Versioning'
  BY DEF Resting, RollingBack, Versioning
<1>8. Migrating'
  <2>1. schema.version <= userversion /\ Live(cur) = Live(userversion)
    <3>1. cur - 1 > 0 => cur - 1 \in deleted
      BY <1>2, <1>4 DEF Live, Id
    <3> QED BY <1>1, <1>2, <1>4, <3>1 DEF Migrating
  <2>2. interrupted = "migrate" =>
           \E k \in cur .. n_migrations - 1, s \in userversion .. n_migrations - 1 :
              Recorded = Live(k) /\ stored = Live(s)
    <3>1. SUFFICES ASSUME interrupted = "migrate",
                          NEW k \in cur - 1 .. n_migrations - 1,
                          NEW s \in userversion .. n_migrations - 1,
                          Recorded = Live(k), stored = Live(s)
                   PROVE  \E q \in cur .. n_migrations - 1 : Recorded = Live(q)
      BY DEF Migrating
    <3>2. CASE k = cur - 1
      <4>1. cur \in cur .. n_migrations - 1
        BY <1>1, <1>2
      <4> QED BY <1>4, <3>1, <3>2, <4>1
    <3>3. CASE k # cur - 1
      <4>1. k \in cur .. n_migrations - 1
        BY <1>1, <3>3
      <4> QED BY <3>1, <4>1
    <3> QED BY <3>2, <3>3
  <2> QED BY <1>1, <1>2, <1>3, <1>4, <2>1, <2>2 DEF Migrating, Recorded, Live, SchemaHas
<1> QED BY <1>5, <1>6, <1>7, <1>8

(* What a migration and its reverse do to a schema.                        *)
LEMMA UpAndDown ==
    ASSUME NEW s \in Schemas, NEW i \in Id
    PROVE  /\ Up(s, i) \in Schemas /\ Up(s, i).version = i
           /\ Up(s, i).tables = s.tables \cup {i}
           /\ Up(s, i).created = s.created /\ Up(s, i).dropped = s.dropped
           /\ Down(s, i) \in Schemas /\ Down(s, i).version = i - 1
           /\ Down(s, i).tables = s.tables \ {i} /\ Down(s, i).created = s.created \ {i}
           /\ Down(s, i).dropped = s.dropped \cup (s.created \cap {i})
<1>1. i \in 0 .. MaxVersion /\ i - 1 \in 0 .. MaxVersion
  BY DEF Id
<1>2. Up(s, i) \in Schemas
  BY <1>1 DEF Up, Schemas
<1>3. Down(s, i) \in Schemas
  BY <1>1 DEF Down, Schemas
<1>4. /\ Up(s, i).version = i /\ Up(s, i).tables = s.tables \cup {i}
      /\ Up(s, i).created = s.created /\ Up(s, i).dropped = s.dropped
  BY DEF Up, Schemas
<1> QED BY <1>2, <1>3, <1>4 DEF Down

(* A row that a crash left stays, and belongs to an earlier batch; all     *)
(* rows that are missing are above it.                                     *)
LEMMA MigrateOneKeeps == ASSUME IInv, MigrateOne PROVE IInv'
<1> USE DEF IInv, MigrateOne, release, database, memory, ghosts
<1>1. /\ n_migrations \in 1 .. MaxVersion + 1 /\ userversion \in 0 .. MaxVersion
      /\ cur \in 0 .. MaxVersion + 1 /\ last \in Nat /\ batch \in Nat
      /\ rows \in [Id -> Nat]
  BY DEF TypeOK
<1>2. /\ cur \in userversion + 1 .. last - 1 /\ cur \in Id /\ last <= n_migrations
      /\ batch > 0 /\ \A i \in Id : rows[i] <= batch
  BY <1>1 DEF Migrating, Id
<1>3. cur' - 1 = cur
  BY <1>1
<1>4. Live(cur) = Live(cur - 1) \cup {cur} /\ cur \notin Live(cur - 1)
  BY <1>2, NextLive
<1>5. /\ rows' \in [Id -> Nat] /\ \A i \in Id : rows'[i] <= batch
      /\ Recorded' = Recorded \cup {cur}
      /\ \A i \in Recorded : rows'[i] = rows[i]
      /\ cur \notin Recorded => rows'[cur] = batch
  BY <1>1, <1>2 DEF Inserted, Recorded
<1>6. \E k \in cur - 1 .. n_migrations - 1 : Recorded = Live(k)
  <2>1. CASE interrupted = "none"
    <3>1. cur - 1 \in cur - 1 .. n_migrations - 1
      BY <1>1, <1>2
    <3> QED BY <2>1, <3>1 DEF Migrating
  <2>2. CASE interrupted = "migrate"
    BY <2>2 DEF Migrating
  <2> QED BY <2>1, <2>2 DEF Places
<1>7. /\ cur \notin Recorded => Recorded = Live(cur - 1)
      /\ \E k \in cur .. n_migrations - 1 : Recorded' = Live(k)
  <2>1. PICK k \in cur - 1 .. n_migrations - 1 : Recorded = Live(k)
    BY <1>6
  <2>2. CASE k = cur - 1
    <3>1. cur \in cur .. n_migrations - 1
      BY <1>1, <1>2
    <3> QED BY <1>4, <1>5, <2>1, <2>2, <3>1
  <2>3. CASE k # cur - 1
    <3>1. k \in cur .. n_migrations - 1
      BY <1>1, <2>3
    <3>2. cur \in Live(k)
      BY <1>2, <3>1 DEF Live, Id
    <3> QED BY <1>5, <2>1, <3>1, <3>2
  <2> QED BY <2>2, <2>3
<1>8. TypeOK'
  <2>1. schema' \in Schemas
    BY <1>2, UpAndDown DEF TypeOK, Schemas
  <2>2. cur' \in 0 .. MaxVersion + 1
    BY <1>1, <1>2
  <2>3. ran' \in [Id -> Nat]
    BY DEF TypeOK
  <2> QED BY <1>5, <2>1, <2>2, <2>3 DEF TypeOK, Schemas
<1>9. BatchesInOrder'
  <2>1. SUFFICES ASSUME NEW i \in Recorded', NEW j \in Recorded', i < j
                 PROVE  rows'[i] <= rows'[j]
    BY DEF BatchesInOrder
  <2>2. CASE cur \in Recorded
    BY <1>5, <2>1, <2>2 DEF BatchesInOrder
  <2>3. CASE cur \notin Recorded /\ j = cur
    BY <1>5, <2>1, <2>3 DEF Recorded
  <2>4. CASE cur \notin Recorded /\ j # cur
    <3>1. j \in Live(cur - 1)
      BY <1>5, <1>7, <2>4
    <3>2. i # cur
      BY <1>1, <2>1, <3>1 DEF Live, Id
    <3> QED BY <1>5, <2>1, <2>4, <3>2 DEF BatchesInOrder
  <2> QED BY <2>2, <2>3, <2>4
<1>10. FirstDeleted' /\ Places' /\ Resting' /\ RollingBack' /\ Versioning'
  BY DEF FirstDeleted, Places, Resting, RollingBack, Versioning
<1>11. Migrating'
  <2>1. /\ schema'.tables = Live(cur) /\ schema'.created = Live(userversion)
        /\ schema'.dropped = {} /\ schema'.version = cur
    <3>1. schema \in Schemas
      BY DEF TypeOK, Schemas
    <3>2. /\ schema'.version = cur /\ schema'.tables = schema.tables \cup {cur}
          /\ schema'.created = schema.created /\ schema'.dropped = schema.dropped
      BY <1>2, <3>1, UpAndDown
    <3> QED BY <1>4, <3>2 DEF Migrating, SchemaHas
  <2>2. interrupted = "none" => Recorded' = Live(cur) /\ stored = Live(userversion)
    BY <1>4, <1>5 DEF Migrating
  <2>3. interrupted = "migrate" =>
           /\ last = n_migrations
           /\ \E k \in cur .. n_migrations - 1, s \in userversion .. n_migrations - 1 :
                 Recorded' = Live(k) /\ stored = Live(s)
    BY <1>7 DEF Migrating
  <2>4. cur' \in userversion + 1 .. last /\ userversion < cur /\ changed'
    BY <1>1, <1>2
  <2>5. (Live(cur - 1))' = Live(cur) /\ Live(userversion)' = Live(userversion)
    BY <1>3 DEF Live
  <2> QED BY <1>2, <1>3, <1>5, <2>1, <2>2, <2>3, <2>4, <2>5 DEF Migrating, SchemaHas, Live
<1> QED BY <1>8, <1>9, <1>10, <1>11

-----------------------------------------------------------------------------
(* sq_app_rollback()                                                       *)

LEMMA RollbackBeginKeeps ==
    ASSUME IInv, NEW step \in Step, RollbackBegin(step) PROVE IInv'
<1> USE DEF IInv, RollbackBegin, Command, release, database, memory
<1>1. /\ op = "none" /\ dbversion = userversion /\ userversion \in 0 .. MaxVersion
      /\ userversion < n_migrations /\ interrupted = "none"
  BY DEF TypeOK, Places, Resting
<1>2. TypeOK'
  <2>1. last' \in Nat
    BY CountIsNatural
  <2>2. cur' \in 0 .. MaxVersion + 1 /\ commands' \in Nat /\ before' \subseteq Id
    BY <1>1 DEF TypeOK
  <2> QED BY <2>1, <2>2 DEF TypeOK
<1>3. FirstDeleted' /\ Places' /\ BatchesInOrder'
  BY <1>1 DEF FirstDeleted, Places, BatchesInOrder, Recorded
<1>4. Resting' /\ Migrating' /\ Versioning'
  BY DEF Resting, Migrating, Versioning
<1>5. RollingBack'
  <2>1. /\ Recorded = Live(userversion) /\ stored = Live(userversion)
        /\ SchemaHas(Live(userversion), Live(userversion), {})
        /\ schema.version <= userversion
    BY <1>1 DEF Resting
  <2> QED BY <1>1, <2>1 DEF RollingBack, Recorded, Live, SchemaHas
<1> QED BY <1>2, <1>3, <1>4, <1>5

LEMMA RollbackSkipKeeps == ASSUME IInv, RollbackSkip PROVE IInv'
<1> USE DEF IInv, RollbackSkip, InRollback, release, memory, ghosts
<1>1. /\ cur \in 0 .. MaxVersion + 1 /\ last \in Nat /\ userversion \in 0 .. MaxVersion
      /\ cur > 0 /\ last > 0 /\ schema.version \in 0 .. MaxVersion
  BY DEF TypeOK
<1>2. cur \in Id /\ cur <= userversion
  BY <1>1 DEF RollingBack, Id
<1>3. Live(cur) = {} /\ Live(cur - 1) = {}
  BY <1>2, NextLive
<1>4. TypeOK'
  <2>1. cur' \in 0 .. MaxVersion + 1 /\ last' \in Nat
    BY <1>1
  <2> QED BY <2>1 DEF TypeOK
<1>5. FirstDeleted' /\ Places' /\ BatchesInOrder'
  BY DEF FirstDeleted, Places, BatchesInOrder, Recorded
<1>6. Resting' /\ Migrating' /\ Versioning'
  BY DEF Resting, Migrating, Versioning
<1>7. RollingBack'
  <2>1. cur' <= userversion /\ (cur <= schema.version => cur' <= schema.version)
    BY <1>1, <1>2
  <2>2. (Live(cur))' = Live(cur)
    <3>1. (Live(cur))' = Live(cur - 1)
      BY DEF Live
    <3> QED BY <1>3, <3>1
  <2>3. (Live(userversion))' = Live(userversion) /\ (Live(schema.version))' = Live(schema.version)
    BY DEF Live
  <2>4. Recorded' = Recorded
    BY DEF Recorded
  <2> QED BY <2>1, <2>2, <2>3, <2>4 DEF RollingBack, SchemaHas
<1> QED BY <1>4, <1>5, <1>6, <1>7

LEMMA RollbackOneKeeps == ASSUME IInv, RollbackOne PROVE IInv'
<1> USE DEF IInv, RollbackOne, InRollback, release, ghosts
<1>1. /\ cur \in 0 .. MaxVersion + 1 /\ last \in Nat /\ userversion \in 0 .. MaxVersion
      /\ cur > 0 /\ last > 0 /\ schema \in Schemas /\ rows \in [Id -> Nat]
  BY DEF TypeOK, Schemas
<1>2. cur \in Id /\ cur <= userversion
  BY <1>1 DEF RollingBack, Id
<1>3. Live(cur) = Live(cur - 1) \cup {cur} /\ cur \notin Live(cur - 1)
  BY <1>2, NextLive
<1>4. /\ schema' \in Schemas /\ schema'.version = cur - 1
      /\ schema'.tables = schema.tables \ {cur} /\ schema'.created = schema.created \ {cur}
      /\ schema'.dropped = schema.dropped \cup (schema.created \cap {cur})
  BY <1>1, <1>2, UpAndDown
<1>5. /\ rows' \in [Id -> Nat] /\ Recorded' = Recorded \ {i \in Id : i >= cur}
      /\ \A i \in Recorded' : rows'[i] = rows[i]
  BY <1>1 DEF Removed, Recorded
<1>6. TypeOK'
  <2>1. /\ cur' \in 0 .. MaxVersion + 1 /\ last' \in Nat
        /\ dbversion' \in -1 .. MaxVersion
    BY <1>1, <1>2 DEF Id
  <2> QED BY <1>4, <1>5, <2>1 DEF TypeOK, Schemas
<1>7. BatchesInOrder'
  BY <1>5 DEF BatchesInOrder
<1>8. FirstDeleted' /\ Places' /\ Resting' /\ Migrating' /\ Versioning'
  BY DEF FirstDeleted, Places, Resting, Migrating, Versioning
<1>9. RollingBack'
  <2>1. /\ cur' = cur - 1 /\ cur' <= userversion /\ schema'.version = cur'
        /\ dbversion' = schema'.version - 1 /\ schema'.version < userversion
        /\ cur' <= schema'.version
    BY <1>1, <1>2, <1>4
  <2>2. (Live(cur))' = Live(cur - 1) /\ (Live(userversion))' = Live(userversion)
    BY DEF Live
  <2>3. (Live(schema.version))' = Live(cur - 1)
    BY <1>4 DEF Live
  <2>4. Recorded' = Live(cur - 1)
    <3>1. Recorded = Live(cur)
      BY DEF RollingBack
    <3>2. Live(cur - 1) = Live(cur) \ {i \in Id : i >= cur}
      BY <1>1 DEF Live, Id
    <3> QED BY <1>5, <3>1, <3>2
  <2>5. /\ schema'.tables = Live(cur - 1) /\ schema'.created = Live(cur - 1)
        /\ schema'.dropped = Live(userversion) \ Live(cur - 1)
    <3>1. cur \in Live(userversion)
      BY <1>1, <1>2 DEF Live
    <3> QED BY <1>3, <1>4, <3>1 DEF RollingBack, SchemaHas
  <2> QED BY <2>1, <2>2, <2>3, <2>4, <2>5 DEF RollingBack, SchemaHas
<1> QED BY <1>6, <1>7, <1>8, <1>9

-----------------------------------------------------------------------------
(* The end of a command.                                                   *)

LEMMA NotSynchronizedKeeps == ASSUME IInv, NotSynchronized PROVE IInv'
<1> USE DEF IInv, NotSynchronized, Return, release, database, memory
<1>1. /\ pc = "running" /\ op \in {"migrate", "rollback"}
      /\ userversion \in 0 .. MaxVersion /\ schema.version \in 0 .. MaxVersion
      /\ cur \in 0 .. MaxVersion + 1 /\ n_migrations \in 1 .. MaxVersion + 1 /\ last \in Nat
  BY DEF TypeOK, Places, LoopDone
<1>2. TypeOK'
  BY DEF TypeOK
<1>3. FirstDeleted' /\ Places' /\ BatchesInOrder'
  BY DEF FirstDeleted, Places, BatchesInOrder, Recorded
<1>4. Migrating' /\ RollingBack' /\ Versioning'
  BY DEF Migrating, RollingBack, Versioning
<1>5. /\ dbversion = userversion /\ schema.version <= userversion
      /\ SchemaHas(Live(userversion), Live(userversion), {})
      /\ Recorded = Live(userversion) /\ stored = Live(userversion)
  <2>1. CASE op = "migrate"
    <3>1. /\ dbversion = userversion /\ schema.version <= userversion
          /\ Live(cur - 1) = Live(userversion)
          /\ SchemaHas(Live(cur - 1), Live(userversion), {})
      <4>1. CASE schema.version <= userversion /\ Live(cur - 1) = Live(userversion)
        BY <1>1, <2>1, <4>1 DEF Migrating
      <4>2. CASE schema.version = cur - 1 /\ userversion < cur - 1
        BY <1>1, <2>1, <4>2 DEF Migrating
      <4> QED BY <1>1, <2>1, <4>1, <4>2 DEF Migrating
    <3>2. CASE interrupted = "none"
      BY <1>1, <2>1, <3>1, <3>2 DEF Migrating, SchemaHas
    <3>3. CASE interrupted = "migrate"
      <4>1. cur - 1 = n_migrations - 1
        BY <1>1, <2>1, <3>3 DEF Migrating, LoopDone
      <4>2. PICK k \in cur - 1 .. n_migrations - 1, s \in userversion .. n_migrations - 1 :
                    Recorded = Live(k) /\ stored = Live(s)
        BY <1>1, <2>1, <3>3 DEF Migrating
      <4>3. k = cur - 1
        BY <1>1, <4>1, <4>2
      <4>4. Live(s) = Live(userversion)
        BY <1>1, <3>1, <4>1, <4>2 DEF Live, Id
      <4> QED BY <3>1, <4>2, <4>3, <4>4 DEF SchemaHas
    <3> QED BY <3>2, <3>3 DEF Places
  <2>2. CASE op = "rollback"
    BY <1>1, <2>2 DEF RollingBack, SchemaHas
  <2> QED BY <1>1, <2>1, <2>2
<1>6. Resting'
  BY <1>5 DEF Resting, Recorded, Live, SchemaHas
<1> QED BY <1>2, <1>3, <1>4, <1>6

LEMMA CommitKeeps == ASSUME IInv, Commit PROVE IInv'
<1> USE DEF IInv, Commit, release, loop, ghosts
<1>1. /\ pc = "running" /\ op \in {"migrate", "rollback"} /\ schema \in Schemas
      /\ userversion \in 0 .. MaxVersion /\ schema.version \in 0 .. MaxVersion
      /\ cur \in 0 .. MaxVersion + 1 /\ n_migrations \in 1 .. MaxVersion + 1 /\ last \in Nat
  BY DEF TypeOK, Places, LoopDone, Schemas
<1>2. /\ schema' \in Schemas /\ schema'.version = schema.version
      /\ schema'.tables = schema.tables /\ schema'.created = schema.tables
      /\ schema'.dropped = {}
  BY <1>1 DEF Synchronized, Schemas
<1>3. TypeOK'
  <2>1. stored' \subseteq Id /\ dbversion' \in -1 .. MaxVersion
    BY <1>1 DEF TypeOK, Schemas
  <2> QED BY <1>2, <2>1 DEF TypeOK, Schemas
<1>4. FirstDeleted' /\ Places' /\ BatchesInOrder'
  BY <1>1 DEF FirstDeleted, Places, BatchesInOrder, Recorded
<1>5. Resting' /\ Migrating' /\ RollingBack'
  BY <1>1 DEF Resting, Migrating, RollingBack
<1>6. /\ userversion < n_migrations /\ schema.version \in 0 .. n_migrations - 1
      /\ schema.tables = Live(schema.version) /\ Recorded = Live(schema.version)
      /\ (stored \ schema.dropped) \cup (schema.tables \ schema.created) = Live(schema.version)
      /\ op = "migrate" => userversion <= schema.version
  <2>1. CASE op = "migrate"
    <3>1. /\ userversion < n_migrations /\ last <= n_migrations /\ cur <= last
          /\ schema.version = cur - 1 /\ userversion < cur - 1
          /\ SchemaHas(Live(cur - 1), Live(userversion), {})
      BY <1>1, <2>1 DEF Migrating
    <3>2. Live(userversion) \subseteq Live(cur - 1)
      BY <1>1, <3>1 DEF Live, Id
    <3>3. CASE interrupted = "none"
      BY <1>1, <2>1, <3>1, <3>2, <3>3 DEF Migrating, SchemaHas
    <3>4. CASE interrupted = "migrate"
      <4>1. cur - 1 = n_migrations - 1
        BY <1>1, <2>1, <3>4 DEF Migrating, LoopDone
      <4>2. PICK k \in cur - 1 .. n_migrations - 1, s \in userversion .. n_migrations - 1 :
                    Recorded = Live(k) /\ stored = Live(s)
        BY <1>1, <2>1, <3>4 DEF Migrating
      <4>3. k = cur - 1
        BY <1>1, <4>1, <4>2
      <4>4. Live(userversion) \subseteq Live(s) /\ Live(s) \subseteq Live(cur - 1)
        BY <1>1, <4>1, <4>2 DEF Live, Id
      <4> QED BY <1>1, <3>1, <4>1, <4>2, <4>3, <4>4 DEF SchemaHas
    <3> QED BY <3>3, <3>4 DEF Places
  <2>2. CASE op = "rollback"
    <3>1. /\ userversion < n_migrations /\ schema.version < userversion
          /\ Live(cur) = Live(schema.version) /\ Recorded = Live(cur)
          /\ stored = Live(userversion)
          /\ SchemaHas(Live(cur), Live(cur), Live(userversion) \ Live(cur))
      BY <1>1, <2>2 DEF RollingBack
    <3>2. Live(schema.version) \subseteq Live(userversion)
      BY <1>1, <3>1 DEF Live, Id
    <3> QED BY <1>1, <2>2, <3>1, <3>2 DEF SchemaHas
  <2> QED BY <1>1, <2>1, <2>2
<1>7. Versioning'
  BY <1>1, <1>2, <1>6 DEF Versioning, Recorded, Live, SchemaHas
<1> QED BY <1>3, <1>4, <1>5, <1>7

LEMMA SetUserVersionKeeps == ASSUME IInv, SetUserVersion PROVE IInv'
<1> USE DEF IInv, SetUserVersion, Return, release, memory
<1>1. TypeOK'
  BY DEF TypeOK, Versioning
<1>2. FirstDeleted' /\ Places' /\ BatchesInOrder'
  BY DEF FirstDeleted, Places, BatchesInOrder, Recorded
<1>3. Migrating' /\ RollingBack' /\ Versioning'
  BY DEF Migrating, RollingBack, Versioning
<1>4. Resting'
  BY DEF Resting, Versioning, TypeOK, Recorded, Live, SchemaHas
<1> QED BY <1>1, <1>2, <1>3, <1>4

LEMMA StutterKeeps == ASSUME IInv, UNCHANGED vars PROVE IInv'
<1> USE DEF IInv, vars, release, database, memory, loop, ghosts
<1>1. TypeOK' /\ FirstDeleted' /\ Places' /\ BatchesInOrder'
  BY DEF TypeOK, FirstDeleted, Places, BatchesInOrder, Recorded
<1>2. Resting' /\ Migrating'
  BY DEF Resting, Migrating, Recorded, Live, SchemaHas
<1>3. RollingBack' /\ Versioning'
  BY DEF RollingBack, Versioning, Recorded, Live, SchemaHas
<1> QED BY <1>1, <1>2, <1>3

-----------------------------------------------------------------------------
(* The theorems.                                                           *)

LEMMA StepKeeps == ASSUME Supported, IInv, [Next]_vars PROVE IInv'
<1>1. CASE Install \/ Open \/ MakeSchema \/ Close \/ Crash
  BY <1>1, InstallKeeps, OpenKeeps, MakeSchemaKeeps, CloseKeeps, CrashKeeps
<1>2. CASE WrongMigrations
  BY <1>2, WrongMigrationsKeeps
<1>3. CASE \E step \in Step : MigrateBegin(step) \/ RollbackBegin(step)
  BY <1>3, MigrateBeginKeeps, RollbackBeginKeeps
<1>4. CASE MigrateSkip \/ MigrateOne
  BY <1>4, MigrateSkipKeeps, MigrateOneKeeps
<1>5. CASE RollbackSkip \/ RollbackOne
  BY <1>5, RollbackSkipKeeps, RollbackOneKeeps
<1>6. CASE NotSynchronized \/ Commit \/ SetUserVersion
  BY <1>6, NotSynchronizedKeeps, CommitKeeps, SetUserVersionKeeps
<1>7. CASE UNCHANGED vars
  BY <1>7, StutterKeeps
<1> QED BY <1>1, <1>2, <1>3, <1>4, <1>5, <1>6, <1>7 DEF Next

LEMMA Invariance == ASSUME Supported PROVE Spec => []IInv
<1>1. Init => IInv
  BY Initially
<1>2. IInv /\ [Next]_vars => IInv'
  BY StepKeeps
<1> QED BY <1>1, <1>2, PTL DEF Spec

(* Between commands the rows of the table "migrations", the version of the *)
(* database and its tables say the same, and so does the schema in memory, *)
(* however often sq_app_migrate() was cut off and called again.            *)
THEOREM DatabaseAgreesAlways == ASSUME Supported PROVE Spec => []DatabaseAgrees
<1>1. IInv => DatabaseAgrees
  BY DEF IInv, Resting, SchemaHas, DatabaseAgrees, Settled, SchemaIsCurrent
<1> QED BY <1>1, Invariance, PTL

(* A later migration is never in an earlier batch, not even when its rows  *)
(* were inserted by a call that the process did not survive: so the last   *)
(* batch is what sq_app_rollback() counts off from the top.                *)
THEOREM BatchesInOrderAlways == ASSUME Supported PROVE Spec => []BatchesInOrder
<1>1. IInv => BatchesInOrder
  BY DEF IInv
<1> QED BY <1>1, Invariance, PTL

-----------------------------------------------------------------------------
(* Batches, and the calls that ran them.  A call that follows a crash runs *)
(* migrations again whose rows are there, so that ran and rows agree only  *)
(* up to the version that the database has, and no batch goes across it.   *)

(* Up to v: later migrations were run later, those of a batch by one call, *)
(* and without crashes every call made a batch of its own.                 *)
RunInOrder(v) ==
    \A i, j \in Recorded : i < j /\ j <= v =>
        /\ ran[i] <= ran[j]
        /\ rows[i] = rows[j] => ran[i] = ran[j]
        /\ crashes = 0 /\ rows[i] # rows[j] => ran[i] # ran[j]

Ran ==
    /\ \A i \in Recorded : ran[i] <= runs
    /\ crashes = 0 => interrupted = "none"
    /\ op = "none" => RunInOrder(userversion)
    /\ op = "rollback" \/ pc = "version" => RunInOrder(MaxVersion)
    /\ op # "rollback" =>
          \A i, j \in Recorded : i <= userversion /\ userversion < j => rows[i] # rows[j]

Running ==
    op = "migrate" /\ pc = "running" =>
        /\ RunInOrder(userversion)
        /\ \A i \in Recorded :
              /\ i <= userversion => ran[i] < runs /\ rows[i] < batch
              /\ userversion < i /\ i < cur => ran[i] = runs
              /\ crashes = 0 /\ userversion < i => rows[i] = batch

(* The last batch begins at a.                                             *)
IsLastBatch(a) ==
    /\ a \in before
    /\ \A i \in before : i >= a => i \in LatestBatch(before)
    /\ crashes = 0 => \A i \in before : i < a => i \notin LatestBatch(before)

Undoing ==
    op = "rollback" /\ before # {} =>
        \E a \in Id :
            /\ IsLastBatch(a)
            /\ pc = "running" => before = Live(userversion) /\ last = cur - a + 1
            /\ pc = "version" => stored = {i \in before : i < a}

BInv == IInv /\ Ran /\ Running /\ Undoing

LEMMA BatchesInitially == ASSUME Supported, Init PROVE BInv
<1>1. Recorded = {}
  BY DEF Init, Recorded
<1> QED BY <1>1, Initially DEF BInv, Init, Ran, RunInOrder, Running, Undoing

(* Whatever leaves rows, calls and version alone, outside of the commands. *)
LEMMA BatchesRest ==
    ASSUME BInv, IInv',
           Install \/ Open \/ MakeSchema \/ Close \/ WrongMigrations
    PROVE  BInv'
<1> USE DEF BInv
<1>1. /\ op = "none" /\ op' = "none" /\ pc' # "version"
      /\ UNCHANGED <<userversion, rows, runs, ran, interrupted, crashes>>
  <2>1. op = "none" /\ op' = "none"
    BY DEF IInv, Places, Install, Open, MakeSchema, Close, Ended, WrongMigrations, Command,
           loop, ghosts
  <2>2. pc' # "version"
    BY <2>1 DEF IInv, Places
  <2> QED BY <2>1, <2>2 DEF Install, Open, MakeSchema, Close, Ended, WrongMigrations, Command,
           database, loop, ghosts
<1>2. Ran' /\ Running' /\ Undoing'
  BY <1>1 DEF Ran, Running, Undoing, RunInOrder, Recorded
<1> QED BY <1>2

LEMMA BatchesCrash == ASSUME Supported, BInv, IInv', Crash PROVE BInv'
<1> USE DEF BInv
<1>1. /\ op = "migrate" /\ op' = "none" /\ pc' = "down" /\ crashes' # 0
      /\ pc \in {"running", "version"}
      /\ UNCHANGED <<userversion, rows, runs, ran>>
  BY DEF IInv, TypeOK, Places, Supported, Crash, Ended, database
<1>2. Recorded \in SUBSET Id /\ userversion \in 0 .. MaxVersion
  BY DEF IInv, TypeOK, Recorded
<1>3. \A i, j \in Recorded : i < j /\ j <= userversion =>
         ran[i] <= ran[j] /\ (rows[i] = rows[j] => ran[i] = ran[j])
  BY <1>1, <1>2 DEF Ran, Running, RunInOrder, Id
<1>4. Ran' /\ Running' /\ Undoing'
  BY <1>1, <1>3 DEF Ran, Running, Undoing, RunInOrder, Recorded
<1> QED BY <1>4

LEMMA BatchesMigrateBegin ==
    ASSUME BInv, IInv', NEW step \in Step, MigrateBegin(step) PROVE BInv'
<1> USE DEF BInv, MigrateBegin, Command, database, memory
<1>1. /\ op = "none" /\ dbversion = userversion /\ userversion \in 0 .. MaxVersion
      /\ rows \in [Id -> Nat] /\ ran \in [Id -> Nat] /\ runs \in Nat /\ Recorded \in SUBSET Id
  BY DEF IInv, TypeOK, Places, Resting, Recorded
<1>2. batch' \in Nat /\ \A i \in Id : rows[i] < batch'
  BY NextBatchIsLater DEF IInv
<1>3. crashes = 0 => \A i \in Recorded : i <= userversion
  BY <1>1 DEF IInv, Ran, Resting, Live
<1>4. Ran'
  BY <1>1 DEF Ran, RunInOrder, Recorded
<1>5. Running'
  <2>1. RunInOrder(userversion)'
    BY <1>1 DEF Ran, RunInOrder, Recorded
  <2>2. ASSUME NEW i \in Recorded
        PROVE  /\ i <= userversion => ran[i] < runs' /\ rows[i] < batch'
               /\ ~(userversion < i /\ i < cur')
               /\ crashes = 0 => ~(userversion < i)
    BY <1>1, <1>2, <1>3 DEF Ran, Id
  <2> QED BY <2>1, <2>2 DEF Running, Recorded
<1>6. Undoing'
  BY DEF Undoing
<1> QED BY <1>4, <1>5, <1>6

LEMMA BatchesMigrateSkip == ASSUME BInv, IInv', MigrateSkip PROVE BInv'
<1> USE DEF BInv, MigrateSkip, database, memory, ghosts
<1>1. cur \notin Recorded /\ Recorded \in SUBSET Id /\ cur \in 0 .. MaxVersion + 1
  <2>1. \E k \in Int : Recorded = Live(k)
    BY DEF IInv, TypeOK, Places, Migrating
  <2> QED BY <2>1 DEF Live, Recorded, IInv, TypeOK
<1>2. Ran'
  BY DEF Ran, RunInOrder, Recorded
<1>3. Running'
  <2>1. \A i \in Recorded : i < cur' => i < cur
    BY <1>1 DEF Id
  <2> QED BY <2>1 DEF Running, RunInOrder, Recorded
<1>4. Undoing'
  BY DEF Undoing
<1> QED BY <1>2, <1>3, <1>4

LEMMA BatchesMigrateOne == ASSUME BInv, IInv', MigrateOne PROVE BInv'
<1> USE DEF BInv, MigrateOne
<1>1. /\ cur \in Id /\ userversion \in 0 .. MaxVersion /\ userversion < cur
      /\ batch \in Nat /\ batch > 0 /\ runs \in Nat
      /\ rows \in [Id -> Nat] /\ ran \in [Id -> Nat] /\ Recorded \in SUBSET Id
  <2>1. /\ userversion \in 0 .. MaxVersion /\ cur \in 0 .. MaxVersion + 1
        /\ n_migrations \in 1 .. MaxVersion + 1 /\ last \in Nat
        /\ batch \in Nat /\ runs \in Nat
        /\ rows \in [Id -> Nat] /\ ran \in [Id -> Nat] /\ Recorded \in SUBSET Id
    BY DEF IInv, TypeOK, Recorded
  <2>2. /\ cur \in userversion + 1 .. last /\ last <= n_migrations /\ batch > 0
    BY DEF IInv, Migrating
  <2> QED BY <2>1, <2>2 DEF Id
<1>2. /\ Recorded' = Recorded \cup {cur}
      /\ \A i \in Recorded : rows'[i] = rows[i]
      /\ cur \notin Recorded => rows'[cur] = batch
  BY <1>1 DEF Inserted, Recorded
<1>3. ran'[cur] = runs /\ \A i \in Recorded : i # cur => ran'[i] = ran[i]
  BY <1>1
<1>4. crashes = 0 => cur \notin Recorded
  BY <1>1 DEF IInv, Ran, Migrating, Live
<1>5. Ran'
  <2>1. \A i \in Recorded' : ran'[i] <= runs
    BY <1>1, <1>2, <1>3 DEF Ran
  <2>2. ASSUME NEW i \in Recorded', NEW j \in Recorded', i <= userversion, userversion < j
        PROVE  rows'[i] # rows'[j]
    <3>1. i \in Recorded /\ i # cur
      BY <1>1, <1>2, <2>2 DEF Id
    <3>2. CASE j \in Recorded
      BY <1>2, <2>2, <3>1, <3>2 DEF Ran
    <3>3. CASE j \notin Recorded
      <4>1. rows'[i] = rows[i] /\ rows[i] < batch /\ rows'[j] = batch
        BY <1>2, <2>2, <3>1, <3>3 DEF Running
      <4> QED BY <1>1, <4>1
    <3> QED BY <3>2, <3>3
  <2> QED BY <2>1, <2>2 DEF Ran
<1>6. Running'
  <2>1. RunInOrder(userversion)'
    BY <1>1, <1>2, <1>3 DEF Running, RunInOrder, Id
  <2>2. ASSUME NEW i \in Recorded'
        PROVE  /\ i <= userversion => ran'[i] < runs /\ rows'[i] < batch
               /\ userversion < i /\ i < cur' => ran'[i] = runs
               /\ crashes = 0 /\ userversion < i => rows'[i] = batch
    <3>1. CASE i = cur
      <4>1. ~(i <= userversion) /\ ran'[i] = runs
        BY <1>1, <1>3, <3>1 DEF Id
      <4> QED BY <1>2, <1>4, <3>1, <4>1
    <3>2. CASE i # cur
      <4>1. i \in Recorded /\ (i < cur' => i < cur) /\ rows'[i] = rows[i] /\ ran'[i] = ran[i]
        BY <1>1, <1>2, <1>3, <3>2 DEF Id
      <4> QED BY <4>1 DEF Running
    <3> QED BY <3>1, <3>2
  <2> QED BY <2>1, <2>2 DEF Running
<1>7. Undoing'
  BY DEF Undoing
<1> QED BY <1>5, <1>6, <1>7

(* The rows of the last batch are the last rows, without a gap; a call ran *)
(* them all, after all others.                                             *)
LEMMA BatchesRollbackBegin ==
    ASSUME BInv, IInv', NEW step \in Step, RollbackBegin(step) PROVE BInv'
<1> USE DEF BInv, RollbackBegin, Command, release, database, memory
<1>1. /\ op = "none" /\ dbversion = userversion /\ userversion \in 0 .. MaxVersion
      /\ interrupted = "none"
      /\ Recorded = Live(userversion) /\ stored = Live(userversion)
      /\ rows \in [Id -> Nat] /\ ran \in [Id -> Nat] /\ Recorded \in SUBSET Id
  BY DEF IInv, TypeOK, Places, Resting, Recorded
<1>2. RunInOrder(MaxVersion)
  BY <1>1 DEF Ran, RunInOrder, Live
<1>3. Ran' /\ Running'
  BY <1>2 DEF Ran, Running, RunInOrder, Recorded
<1>4. CASE before' = {}
  BY <1>3, <1>4 DEF Undoing
<1>5. CASE before' # {}
  <2>1. step = 0 /\ before' = Live(userversion) /\ Recorded # {}
    BY <1>1, <1>5
  <2> DEFINE u == userversion
             S == {i \in Recorded : rows[i] = rows[u]}
  <2>2. u \in Recorded /\ \A i \in Recorded : i <= u
    <3>1. \A i \in Recorded : i <= u
      BY <1>1 DEF Live
    <3>2. u \in Id
      BY <1>1, <2>1, <3>1 DEF Id
    <3>3. u \notin deleted
      BY <1>1, <2>1, <3>2, NextLive DEF IInv
    <3> QED BY <1>1, <3>1, <3>2, <3>3 DEF Live
  <2>3. LastBatch = rows[u]
    <3>1. Max(Recorded) = u
      <4>1. Recorded \in SUBSET Int
        BY <1>1 DEF Id
      <4> QED BY <2>2, <4>1, MaxIs
    <3> QED BY <2>1, <3>1 DEF LastBatch, LastId
  <2>4. PICK a \in S : \A i \in S : a <= i
    <3>1. S \in SUBSET Nat /\ S # {}
      BY <1>1, <2>2 DEF Id
    <3> HIDE DEF S
    <3> QED BY <3>1, Least
  <2>5. a \in Id /\ a \in Recorded /\ rows[a] = rows[u] /\ u \in Id /\ a <= u
    BY <1>1, <2>2, <2>4
  <2>6. \A i \in Recorded : i >= a <=> rows[i] = rows[u]
    <3>1. SUFFICES ASSUME NEW i \in Recorded, i > a, i < u PROVE rows[i] = rows[u]
      BY <1>1, <2>2, <2>4, <2>5 DEF Id
    <3>2. rows[a] <= rows[i] /\ rows[i] <= rows[u]
      BY <2>2, <2>5, <3>1 DEF IInv, BatchesInOrder
    <3>3. rows[i] \in Nat /\ rows[u] \in Nat
      BY <1>1, <2>2
    <3> QED BY <2>5, <3>2, <3>3
  <2>7. S = a .. u
    <3>1. \A i \in a .. u : i \in Recorded
      <4>1. SUFFICES ASSUME NEW i \in a .. u, i \in deleted PROVE FALSE
        BY <1>1, <2>5 DEF Live, Id
      <4>2. a \in 1 .. i
        BY <2>5, <4>1 DEF Id
      <4>3. a \in deleted
        BY <4>1, <4>2 DEF IInv, FirstDeleted
      <4> QED BY <1>1, <2>5, <4>3 DEF Live
    <3>2. \A i \in Recorded : i \in a .. u <=> i >= a
      BY <1>1, <2>2, <2>5 DEF Id
    <3> QED BY <2>6, <3>1, <3>2
  <2>8. last' = u - a + 1
    <3>1. last' = Cardinality(S)
      BY <2>1, <2>3 DEF CountBatch
    <3>2. Cardinality(a .. u) = u - a + 1
      <4>1. a \in Int /\ u \in Int /\ ~(a > u)
        BY <2>5 DEF Id
      <4> QED BY <4>1, FS_Interval
    <3> QED BY <2>7, <3>1, <3>2
  <2>9. IsLastBatch(a)'
    <3>1. \A i \in Recorded : ran[i] \in Nat /\ ran[i] <= ran[u]
      <4>1. SUFFICES ASSUME NEW i \in Recorded, i # u PROVE ran[i] <= ran[u]
        BY <1>1, <2>2
      <4>2. i < u /\ u <= MaxVersion
        BY <1>1, <2>2, <4>1 DEF Id
      <4> QED BY <1>2, <2>2, <4>2 DEF RunInOrder
    <3>2. \A i \in Recorded : i >= a => ran[i] = ran[u]
      <4>1. SUFFICES ASSUME NEW i \in Recorded, i >= a, i # u PROVE ran[i] = ran[u]
        OBVIOUS
      <4>2. i < u /\ u <= MaxVersion /\ rows[i] = rows[u]
        BY <1>1, <2>2, <2>6, <4>1 DEF Id
      <4> QED BY <1>2, <2>2, <4>2 DEF RunInOrder
    <3>3. crashes = 0 => \A i \in Recorded : i < a => ran[i] < ran[u]
      <4>1. SUFFICES ASSUME crashes = 0, NEW i \in Recorded, i < a PROVE ran[i] < ran[u]
        OBVIOUS
      <4>2. i < u /\ u <= MaxVersion /\ rows[i] # rows[u]
        BY <1>1, <2>2, <2>5, <2>6, <4>1 DEF Id
      <4>3. ran[i] # ran[u]
        BY <1>2, <2>2, <4>1, <4>2 DEF RunInOrder
      <4> QED BY <1>1, <2>2, <3>1, <4>3
    <3>4. before' = Recorded
      BY <1>1, <2>1
    <3> QED BY <1>1, <2>2, <2>5, <3>1, <3>2, <3>3, <3>4 DEF IsLastBatch, LatestBatch
  <2>10. (Live(userversion))' = Live(userversion)
    BY DEF Live
  <2> QED BY <1>1, <1>3, <2>1, <2>5, <2>8, <2>9, <2>10 DEF Undoing
<1> QED BY <1>4, <1>5

LEMMA BatchesRollback == ASSUME BInv, IInv', RollbackSkip \/ RollbackOne PROVE BInv'
<1> USE DEF BInv
<1>1. /\ op = "rollback" /\ op' = "rollback" /\ pc = "running" /\ pc' = "running"
      /\ UNCHANGED <<deleted, userversion, runs, ran, before, interrupted, crashes>>
      /\ cur' = cur - 1 /\ last' = last - 1 /\ cur \in Int /\ last \in Int
  BY DEF RollbackSkip, RollbackOne, InRollback, release, ghosts, IInv, TypeOK
<1>2. Recorded' \subseteq Recorded /\ \A i \in Recorded' : rows'[i] = rows[i]
  BY DEF RollbackSkip, RollbackOne, Removed, Recorded, IInv, TypeOK
<1>3. Ran' /\ Running'
  BY <1>1, <1>2 DEF Ran, Running, RunInOrder
<1>4. Undoing'
  <2>1. SUFFICES ASSUME before # {} PROVE Undoing'
    BY <1>1 DEF Undoing
  <2>2. PICK a \in Id : IsLastBatch(a) /\ before = Live(userversion) /\ last = cur - a + 1
    BY <1>1, <2>1 DEF Undoing
  <2>3. IsLastBatch(a)' /\ (Live(userversion))' = Live(userversion)
    BY <1>1, <2>2 DEF IsLastBatch, LatestBatch, Live
  <2>4. last' = cur' - a + 1
    BY <1>1, <2>2 DEF Id
  <2> QED BY <1>1, <2>2, <2>3, <2>4 DEF Undoing
<1> QED BY <1>3, <1>4

LEMMA BatchesCommit == ASSUME BInv, IInv', Commit PROVE BInv'
<1> USE DEF BInv, Commit, release, loop, ghosts
<1>1. /\ pc = "running" /\ op \in {"migrate", "rollback"}
      /\ userversion \in 0 .. MaxVersion /\ cur \in 0 .. MaxVersion + 1 /\ last \in Nat
      /\ runs \in Nat /\ batch \in Nat /\ rows \in [Id -> Nat] /\ ran \in [Id -> Nat]
      /\ Recorded \in SUBSET Id /\ Recorded' = Recorded
  BY DEF IInv, TypeOK, LoopDone, Places, Recorded
<1>2. Recorded = Live(dbversion') /\ stored' = Live(dbversion')
  BY <1>1 DEF IInv, Versioning, Live
<1>3. RunInOrder(MaxVersion)
  <2>1. CASE op = "rollback"
    BY <2>1 DEF Ran
  <2>2. CASE op = "migrate"
    <3>1. dbversion' = cur - 1
      BY <1>1, <2>2 DEF IInv, Migrating, TypeOK
    <3>2. \A i \in Recorded : i < cur /\ i \in Int
      BY <1>1, <1>2, <3>1 DEF Live, Id
    <3>3. ASSUME NEW i \in Recorded, NEW j \in Recorded, i < j
          PROVE  /\ ran[i] <= ran[j]
                 /\ rows[i] = rows[j] => ran[i] = ran[j]
                 /\ crashes = 0 /\ rows[i] # rows[j] => ran[i] # ran[j]
      <4>1. CASE j <= userversion
        BY <1>1, <2>2, <3>3, <4>1 DEF Running, RunInOrder
      <4>2. CASE i <= userversion /\ userversion < j
        <5>1. ran[i] < runs /\ ran[j] = runs /\ rows[i] # rows[j]
          BY <1>1, <2>2, <3>2, <4>2 DEF Running, Ran
        <5> QED BY <1>1, <5>1
      <4>3. CASE userversion < i /\ userversion < j
        BY <1>1, <2>2, <3>2, <4>3 DEF Running
      <4> QED BY <1>1, <3>2, <3>3, <4>1, <4>2, <4>3
    <3> QED BY <3>3 DEF RunInOrder
  <2> QED BY <1>1, <2>1, <2>2
<1>4. Ran' /\ Running'
  BY <1>1, <1>3 DEF Ran, Running, RunInOrder
<1>5. Undoing'
  <2>1. SUFFICES ASSUME op = "rollback", before # {} PROVE Undoing'
    BY DEF Undoing
  <2>2. PICK a \in Id : IsLastBatch(a) /\ before = Live(userversion) /\ last = cur - a + 1
    BY <1>1, <2>1 DEF Undoing
  <2>3. IsLastBatch(a)'
    BY <2>2 DEF IsLastBatch, LatestBatch
  <2>4. cur = a - 1
    BY <1>1, <2>1, <2>2 DEF LoopDone, Id
  <2>5. Live(dbversion') = Live(cur) /\ cur <= userversion
    BY <1>1, <1>2, <2>1 DEF IInv, RollingBack
  <2>6. stored' = {i \in before : i < a}
    BY <1>1, <1>2, <2>2, <2>4, <2>5 DEF Live, Id
  <2> QED BY <2>3, <2>6 DEF Undoing
<1> QED BY <1>4, <1>5

LEMMA BatchesReturn ==
    ASSUME BInv, IInv', NotSynchronized \/ SetUserVersion PROVE BInv'
<1> USE DEF BInv
<1>1. /\ op' = "none" /\ pc' = "idle" /\ interrupted' = "none" /\ pc \in {"running", "version"}
      /\ pc = "version" => userversion' = dbversion
      /\ pc = "running" => userversion' = userversion
      /\ UNCHANGED <<rows, runs, ran, before, crashes>>
  BY DEF NotSynchronized, SetUserVersion, Return, LoopDone, release, database, memory
<1>2. Recorded' = Recorded /\ Recorded \in SUBSET Id /\ userversion' \in 0 .. MaxVersion
  BY <1>1 DEF Recorded, IInv, TypeOK
<1>3. \A i \in Recorded : i <= userversion'
  BY <1>1, <1>2 DEF IInv, Resting, Live
<1>4. RunInOrder(userversion')
  <2>1. CASE pc = "version" \/ op = "rollback"
    BY <1>2, <2>1 DEF Ran, RunInOrder, Id
  <2>2. CASE pc = "running" /\ op = "migrate"
    BY <1>1, <2>2 DEF Running
  <2> QED BY <1>1, <2>1, <2>2 DEF IInv, Places, TypeOK
<1>5. Ran'
  BY <1>1, <1>2, <1>3, <1>4 DEF Ran, RunInOrder, Id
<1>6. Running' /\ Undoing'
  BY <1>1 DEF Running, Undoing
<1> QED BY <1>5, <1>6

LEMMA BatchesStutter == ASSUME BInv, IInv', UNCHANGED vars PROVE BInv'
<1> USE DEF BInv, vars, release, database, memory, loop, ghosts
<1>1. Ran' /\ Running'
  BY DEF Ran, Running, RunInOrder, Recorded
<1>2. Undoing'
  BY DEF Undoing, IsLastBatch, LatestBatch, Live
<1> QED BY <1>1, <1>2

LEMMA BatchInvariance == ASSUME Supported PROVE Spec => []BInv
<1>1. Init => BInv
  BY BatchesInitially
<1>2. ASSUME BInv, [Next]_vars PROVE BInv'
  <2>1. IInv'
    BY <1>2, StepKeeps DEF BInv
  <2>2. CASE Install \/ Open \/ MakeSchema \/ Close \/ WrongMigrations
    BY <1>2, <2>1, <2>2, BatchesRest
  <2>3. CASE Crash
    BY <1>2, <2>1, <2>3, BatchesCrash
  <2>4. CASE \E step \in Step : MigrateBegin(step) \/ RollbackBegin(step)
    BY <1>2, <2>1, <2>4, BatchesMigrateBegin, BatchesRollbackBegin
  <2>5. CASE MigrateSkip \/ MigrateOne
    BY <1>2, <2>1, <2>5, BatchesMigrateSkip, BatchesMigrateOne
  <2>6. CASE RollbackSkip \/ RollbackOne
    BY <1>2, <2>1, <2>6, BatchesRollback
  <2>7. CASE Commit \/ NotSynchronized \/ SetUserVersion
    BY <1>2, <2>1, <2>7, BatchesCommit, BatchesReturn
  <2>8. CASE UNCHANGED vars
    BY <1>2, <2>1, <2>8, BatchesStutter
  <2> QED BY <1>2, <2>2, <2>3, <2>4, <2>5, <2>6, <2>7, <2>8 DEF Next
<1> QED BY <1>1, <1>2, PTL DEF Spec

(* A rollback without a number of steps undoes the last batch: no other    *)
(* migration's table is dropped, and without crashes every one of these is *)
(* (sq_app_rollback(), doc/SqApp.md).                                      *)
THEOREM RollbackUndoesBatchAlways == ASSUME Supported PROVE Spec => RollbackUndoesBatch
<1> DEFINE Undone == /\ before \ stored' \subseteq LatestBatch(before)
                     /\ crashes' = 0 => before \ stored' = LatestBatch(before)
<1>1. ASSUME BInv, [Next]_vars PROVE [LastBatchRolledBack(Undone)]_vars
  <2>1. SUFFICES ASSUME Next, op = "rollback", op' = "none", before # {} PROVE Undone
    BY <1>1 DEF LastBatchRolledBack
  <2>2. PICK a \in Id :
           /\ IsLastBatch(a)
           /\ pc = "running" => before = Live(userversion) /\ last = cur - a + 1
           /\ pc = "version" => stored = {i \in before : i < a}
    BY <1>1, <2>1 DEF BInv, Undoing
  <2>3. CASE NotSynchronized
    <3>1. pc = "running" /\ before = Live(userversion) /\ last = cur - a + 1
      BY <2>2, <2>3 DEF NotSynchronized, LoopDone
    <3>2. /\ cur \in 0 .. MaxVersion + 1 /\ last \in Nat /\ userversion \in 0 .. MaxVersion
          /\ schema.version \in 0 .. MaxVersion
      BY <1>1 DEF BInv, IInv, TypeOK
    <3>3. cur = a - 1
      BY <2>1, <2>3, <3>1, <3>2 DEF NotSynchronized, LoopDone, Id
    <3>4. Live(cur) = Live(userversion)
      BY <1>1, <2>1, <2>3, <3>1, <3>2 DEF BInv, IInv, RollingBack, NotSynchronized
    <3>5. a \in Live(userversion) /\ a \notin Live(cur)
      BY <2>2, <3>1, <3>3 DEF IsLastBatch, Live, Id
    <3> QED BY <3>4, <3>5
  <2>4. CASE SetUserVersion
    <3>1. stored' = {i \in before : i < a} /\ crashes' = crashes
      BY <2>2, <2>4 DEF SetUserVersion, Return
    <3>2. \A i \in before : i \in stored' \/ i >= a
      <4>1. before \in SUBSET Id /\ a \in Int
        BY <1>1 DEF BInv, IInv, TypeOK, Id
      <4>2. \A i \in before : i < a \/ i >= a
        BY <4>1 DEF Id
      <4> QED BY <3>1, <4>2
    <3>4. crashes = 0 => \A i \in LatestBatch(before) : i \notin stored'
      BY <2>2, <3>1 DEF IsLastBatch
    <3>3. LatestBatch(before) \subseteq before
      BY DEF LatestBatch
    <3> QED BY <2>2, <3>1, <3>2, <3>3, <3>4 DEF IsLastBatch
  <2>5. ~Crash
    BY <2>1 DEF Crash, Supported
  <2>6. NotSynchronized \/ SetUserVersion
    <3>1. pc \notin {"down", "opened", "idle"}
      BY <1>1, <2>1 DEF BInv, IInv, Places
    <3>2. ~Install /\ ~Open /\ ~MakeSchema /\ ~Close /\ ~WrongMigrations
      BY <3>1 DEF Install, Open, MakeSchema, Close, WrongMigrations, Command
    <3>3. ~\E step \in Step : MigrateBegin(step) \/ RollbackBegin(step)
      BY <3>1 DEF MigrateBegin, RollbackBegin, Command
    <3>4. ~MigrateSkip /\ ~MigrateOne /\ ~RollbackSkip /\ ~RollbackOne /\ ~Commit
      BY <2>1 DEF MigrateSkip, MigrateOne, RollbackSkip, RollbackOne, InRollback, Commit, loop
    <3> QED BY <2>1, <2>5, <3>2, <3>3, <3>4 DEF Next
  <2> QED BY <2>3, <2>4, <2>6
<1>2. BInv /\ [Next]_vars => [LastBatchRolledBack(Undone)]_vars
  BY <1>1
<1> QED BY <1>2, BatchInvariance, PTL DEF RollbackUndoesBatch, Spec
=============================================================================
