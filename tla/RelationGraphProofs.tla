------------------------ MODULE RelationGraphProofs ------------------------
(***************************************************************************)
(* What RelationGraph promises holds for any number of objects and hubs    *)
(* and for lists of any length.  Every step is first described by who      *)
(* lists whom after it; the invariant then follows without sequences.      *)
(***************************************************************************)
EXTENDS RelationGraph, WellFoundedInduction, TLAPS

-----------------------------------------------------------------------------
(* Induction over the natural numbers, for sets instead of predicates.     *)

(* A set of natural numbers that is not empty has a least element.         *)
LEMMA Least ==
    ASSUME NEW T, T \subseteq Nat, T # {}
    PROVE  \E x \in T : \A y \in T : x <= y
<1> DEFINE R == OpToRel(<, Nat)
<1>1. IsWellFoundedOn(R, Nat)
  BY NatLessThanWellFounded
<1>2. PICK x \in T : \A y \in T : ~(<<y, x>> \in R)
  <2> HIDE DEF R
  <2> QED BY <1>1, WFMin
<1>3. \A y \in T : ~(y < x)
  BY <1>2, Zenon DEF OpToRel
<1> HIDE DEF R
<1> QED BY <1>3

(* A set that holds 0 and with every natural number the next holds them    *)
(* all: what a recursive function computes is proved of it step by step.   *)
LEMMA Induct ==
    ASSUME NEW T, 0 \in T, \A n \in T : n \in Nat => n + 1 \in T
    PROVE  Nat \subseteq T
<1>1. SUFFICES ASSUME Nat \ T # {} PROVE FALSE
  OBVIOUS
<1>2. PICK x \in Nat \ T : \A y \in Nat \ T : x <= y
  BY <1>1, Least
<1>3. x # 0 /\ x - 1 \in Nat /\ x - 1 < x
  BY <1>2
<1>4. x - 1 \in T
  BY <1>2, <1>3
<1>5. (x - 1) + 1 \in T
  BY <1>3, <1>4
<1>6. (x - 1) + 1 = x
  BY <1>2
<1> QED BY <1>5, <1>6

-----------------------------------------------------------------------------
(* Sequences grow at the front.                                            *)
LEMMA Prepended ==
    ASSUME NEW S, NEW q \in Seq(S), NEW x \in S
    PROVE  /\ <<x>> \o q \in Seq(S)
           /\ Len(<<x>> \o q) = Len(q) + 1
           /\ DOMAIN (<<x>> \o q) = 1 .. Len(q) + 1
           /\ (<<x>> \o q)[1] = x
           /\ \A i \in 1 .. Len(q) : (<<x>> \o q)[i + 1] = q[i]
           /\ \A i \in 2 .. Len(q) + 1 : (<<x>> \o q)[i] = q[i - 1] /\ i - 1 \in 1 .. Len(q)
  OBVIOUS

LEMMA PrependRange ==
    ASSUME NEW S, NEW q \in Seq(S), NEW x \in S
    PROVE  /\ <<x>> \o q \in Seq(S)
           /\ Range(<<x>> \o q) = Range(q) \cup {x}
<1>1. DOMAIN q = 1 .. Len(q) /\ DOMAIN (<<x>> \o q) = 1 .. Len(q) + 1
  BY Prepended
<1>2. ASSUME NEW y PROVE y \in Range(<<x>> \o q) => y \in Range(q) \cup {x}
  BY <1>1, Prepended DEF Range
<1>3. ASSUME NEW y \in Range(q) PROVE y \in Range(<<x>> \o q)
  <2>1. PICK i \in 1 .. Len(q) : y = q[i]
    BY <1>1, <1>3 DEF Range
  <2>2. i + 1 \in 1 .. Len(q) + 1 /\ (<<x>> \o q)[i + 1] = y
    BY <2>1, Prepended
  <2> QED BY <1>1, <2>2 DEF Range
<1>4. x \in Range(<<x>> \o q)
  BY <1>1, Prepended DEF Range
<1>5. <<x>> \o q \in Seq(S)
  BY Prepended
<1> QED BY <1>2, <1>3, <1>4, <1>5

-----------------------------------------------------------------------------
(* The operations on lists, by what is in the lists they return.           *)

LEMMA ConcatRange ==
    ASSUME NEW S, NEW s \in Seq(S), NEW t \in Seq(S)
    PROVE  /\ s \o t \in Seq(S)
           /\ Range(s \o t) = Range(s) \cup Range(t)
<1> DEFINE r == s \o t
<1>1. r \in Seq(S) /\ Len(r) = Len(s) + Len(t)
  OBVIOUS
<1>2. \A i \in 1 .. Len(s) : r[i] = s[i]
  OBVIOUS
<1>3. \A i \in 1 .. Len(t) : i + Len(s) \in 1 .. Len(r) /\ r[i + Len(s)] = t[i]
  OBVIOUS
<1>4. \A i \in 1 .. Len(r) :
        i \in 1 .. Len(s) \/ (i - Len(s) \in 1 .. Len(t) /\ r[i] = t[i - Len(s)])
  OBVIOUS
<1> HIDE DEF r
<1>5. /\ DOMAIN r = 1 .. Len(r) /\ DOMAIN s = 1 .. Len(s) /\ DOMAIN t = 1 .. Len(t)
      /\ 1 .. Len(s) \subseteq 1 .. Len(r)
  BY <1>1
<1>6. \A p \in Range(r) : p \in Range(s) \cup Range(t)
  BY <1>2, <1>4, <1>5 DEF Range
<1>7. \A p \in Range(s) : p \in Range(r)
  BY <1>2, <1>5 DEF Range
<1>8. \A p \in Range(t) : p \in Range(r)
  BY <1>3, <1>5 DEF Range
<1> QED BY <1>1, <1>6, <1>7, <1>8 DEF r

LEMMA RenamedRange ==
    ASSUME NEW S, NEW list \in Seq(S), NEW old, NEW new \in S
    PROVE  /\ Renamed(list, old, new) \in Seq(S)
           /\ \A p : p \in Range(Renamed(list, old, new)) <=>
                \/ p \in Range(list) /\ p # old
                \/ p = new /\ old \in Range(list)
<1>1. Renamed(list, old, new) \in Seq(S)
  BY DEF Renamed
<1> QED BY <1>1 DEF Renamed, Range

(* The recursive function in Without is what its definition says.          *)
Kept(list, gone, n, kept) ==
    kept = [i \in 0 .. n |->
              IF i = 0 THEN <<>>
              ELSE IF list[i] \in gone THEN kept[i - 1]
              ELSE Append(kept[i - 1], list[i])]

LEMMA KeptExists ==
    ASSUME NEW list, NEW gone, NEW n \in Nat
    PROVE  \E kept : Kept(list, gone, n, kept)
<1> DEFINE T == {m \in Nat : \E kept : Kept(list, gone, m, kept)}
<1>1. 0 \in T
  <2>1. Kept(list, gone, 0, [i \in 0 .. 0 |-> <<>>])
    BY DEF Kept
  <2> QED BY <2>1
<1>2. ASSUME NEW m \in T, m \in Nat PROVE m + 1 \in T
  <2>1. PICK f : Kept(list, gone, m, f)
    BY <1>2
  <2> DEFINE g == [i \in 0 .. m + 1 |->
                     IF i <= m THEN f[i]
                     ELSE IF list[i] \in gone THEN f[m] ELSE Append(f[m], list[i])]
  <2>2. \A i \in 0 .. m : g[i] = f[i]
    OBVIOUS
  <2>3. \A i \in 0 .. m + 1 : i # 0 => i - 1 \in 0 .. m /\ g[i - 1] = f[i - 1]
    BY <2>2
  <2>4. \A i \in 0 .. m :
          f[i] = IF i = 0 THEN <<>>
                 ELSE IF list[i] \in gone THEN f[i - 1] ELSE Append(f[i - 1], list[i])
    BY <2>1 DEF Kept
  <2>5. ASSUME NEW i \in 0 .. m + 1
        PROVE  g[i] = IF i = 0 THEN <<>>
                      ELSE IF list[i] \in gone THEN g[i - 1] ELSE Append(g[i - 1], list[i])
    <3>1. CASE i <= m
      BY <3>1, <2>2, <2>3, <2>4
    <3>2. CASE i = m + 1
      <4>1. i # 0 /\ i - 1 = m /\ ~(i <= m)
        BY <3>2
      <4>2. g[i - 1] = f[m]
        BY <4>1, <2>2
      <4>3. g[i] = IF list[i] \in gone THEN f[m] ELSE Append(f[m], list[i])
        BY <4>1
      <4> QED BY <4>1, <4>2, <4>3
    <3> QED BY <3>1, <3>2
  <2>6. g = [i \in 0 .. m + 1 |-> g[i]]
    OBVIOUS
  <2>7. Kept(list, gone, m + 1, g)
    <3> HIDE DEF g
    <3> QED BY <2>5, <2>6 DEF Kept
  <2> QED BY <2>7
<1> HIDE DEF T
<1>3. n \in T
  BY <1>1, <1>2, Induct
<1> QED BY <1>3 DEF T

LEMMA WithoutRange ==
    ASSUME NEW S, NEW list \in Seq(S), NEW gone
    PROVE  /\ Without(list, gone) \in Seq(S)
           /\ Range(Without(list, gone)) = Range(list) \ gone
<1> DEFINE n == Len(list)
           kept == CHOOSE k : Kept(list, gone, n, k)
           T == {m \in Nat : m <= n =>
                   /\ kept[m] \in Seq(S)
                   /\ Range(kept[m]) = {list[i] : i \in 1 .. m} \ gone}
<1>1. n \in Nat
  OBVIOUS
<1>2. Kept(list, gone, n, kept)
  BY <1>1, KeptExists
<1>3. Without(list, gone) = kept[n]
  BY DEF Without, Kept
<1> HIDE DEF kept
<1>4. \A i \in 0 .. n :
        kept[i] = IF i = 0 THEN <<>>
                  ELSE IF list[i] \in gone THEN kept[i - 1]
                  ELSE Append(kept[i - 1], list[i])
  BY <1>2 DEF Kept
<1>5. 0 \in T
  <2>1. kept[0] = <<>>
    BY <1>1, <1>4
  <2>2. <<>> \in Seq(S) /\ Range(<<>>) = {}
    BY DEF Range
  <2>3. {list[i] : i \in 1 .. 0} = {}
    OBVIOUS
  <2> QED BY <2>1, <2>2, <2>3
<1>6. ASSUME NEW m \in T, m \in Nat PROVE m + 1 \in T
  <2>1. SUFFICES ASSUME m + 1 <= n
                 PROVE  /\ kept[m + 1] \in Seq(S)
                        /\ Range(kept[m + 1]) = {list[i] : i \in 1 .. m + 1} \ gone
    OBVIOUS
  <2>2. kept[m] \in Seq(S) /\ Range(kept[m]) = {list[i] : i \in 1 .. m} \ gone
    BY <2>1, <1>1
  <2>3. list[m + 1] \in S
    BY <2>1
  <2>4. kept[m + 1] = IF list[m + 1] \in gone THEN kept[m] ELSE Append(kept[m], list[m + 1])
    <3>1. m + 1 \in 0 .. n /\ m + 1 # 0 /\ (m + 1) - 1 = m
      BY <2>1, <1>6, <1>1
    <3> HIDE DEF n
    <3> QED BY <3>1, <1>4
  <2>5. {list[i] : i \in 1 .. m + 1} = {list[i] : i \in 1 .. m} \cup {list[m + 1]}
    <3>1. 1 .. m + 1 = (1 .. m) \cup {m + 1}
      BY <1>6
    <3> QED BY <3>1
  <2>6. CASE list[m + 1] \in gone
    BY <2>2, <2>4, <2>5, <2>6
  <2>7. CASE list[m + 1] \notin gone
    <3>1. kept[m + 1] = Append(kept[m], list[m + 1])
      BY <2>4, <2>7
    <3>2. Append(kept[m], list[m + 1]) = kept[m] \o <<list[m + 1]>>
      BY <2>2, <2>3
    <3>3. <<list[m + 1]>> \in Seq(S) /\ Range(<<list[m + 1]>>) = {list[m + 1]}
      <4>1. DOMAIN <<list[m + 1]>> = {1} /\ <<list[m + 1]>>[1] = list[m + 1]
        OBVIOUS
      <4> QED BY <2>3, <4>1 DEF Range
    <3>4. /\ kept[m] \o <<list[m + 1]>> \in Seq(S)
          /\ Range(kept[m] \o <<list[m + 1]>>) = Range(kept[m]) \cup Range(<<list[m + 1]>>)
      <4> DEFINE u == kept[m]
                 v == <<list[m + 1]>>
      <4>1. u \in Seq(S) /\ v \in Seq(S)
        BY <2>2, <3>3
      <4> HIDE DEF u, v
      <4>2. u \o v \in Seq(S) /\ Range(u \o v) = Range(u) \cup Range(v)
        BY <4>1, ConcatRange
      <4> QED BY <4>2 DEF u, v
    <3>5. /\ kept[m + 1] \in Seq(S)
          /\ Range(kept[m + 1]) = Range(kept[m]) \cup {list[m + 1]}
      BY <3>1, <3>2, <3>3, <3>4
    <3> QED BY <3>5, <2>2, <2>5, <2>7
  <2> QED BY <2>6, <2>7
<1> HIDE DEF T
<1>7. n \in T
  BY <1>1, <1>5, <1>6, Induct
<1>8. Range(list) = {list[i] : i \in 1 .. n}
  BY DEF Range
<1> QED BY <1>1, <1>3, <1>7, <1>8 DEF T

-----------------------------------------------------------------------------
(* What every step leaves in the lists.                                    *)

LEMMA AddLists ==
    ASSUME GraphTypeOK, NEW a \in Object, NEW b \in Plain, Add(a, b)
    PROVE  /\ related' \in [Object -> Seq(Object)]
           /\ \A o, p \in Object :
                 Lists(o, p)' <=> Lists(o, p) \/ (o = a /\ p = b) \/ (o = b /\ p = a)
<1>1. b \in Object /\ a # b
  BY DEF Plain, Add
<1>2. related[a] \in Seq(Object) /\ related[b] \in Seq(Object)
  BY <1>1 DEF GraphTypeOK
<1>3. /\ <<b>> \o related[a] \in Seq(Object)
      /\ Range(<<b>> \o related[a]) = {b} \cup Range(related[a])
  BY <1>1, <1>2, PrependRange
<1>4. /\ <<a>> \o related[b] \in Seq(Object)
      /\ Range(<<a>> \o related[b]) = {a} \cup Range(related[b])
  BY <1>2, PrependRange
<1>5. related' = [o \in Object |-> IF o = a THEN <<b>> \o related[a]
                                   ELSE IF o = b THEN <<a>> \o related[b] ELSE related[o]]
  BY <1>1 DEF Add, GraphTypeOK
<1>6. related' \in [Object -> Seq(Object)]
  BY <1>3, <1>4, <1>5 DEF GraphTypeOK
<1>7. ASSUME NEW o \in Object
      PROVE  Range(related'[o]) = IF o = a THEN {b} \cup Range(related[a])
                                  ELSE IF o = b THEN {a} \cup Range(related[b])
                                  ELSE Range(related[o])
  BY <1>1, <1>3, <1>4, <1>5
<1> QED BY <1>1, <1>6, <1>7 DEF Lists

LEMMA EraseLists ==
    ASSUME GraphTypeOK, NEW a \in Object, NEW gone,
           related' = ErasedBothWays(a, gone)
    PROVE  /\ related' \in [Object -> Seq(Object)]
           /\ \A o, p \in Object :
                 Lists(o, p)' <=>
                    /\ Lists(o, p)
                    /\ ~(o = a /\ p \in gone)
                    /\ ~(o # a /\ o \in gone /\ p = a)
<1>1. ASSUME NEW o \in Object, NEW g
      PROVE  /\ Without(related[o], g) \in Seq(Object)
             /\ Range(Without(related[o], g)) = Range(related[o]) \ g
  <2>1. related[o] \in Seq(Object)
    BY DEF GraphTypeOK
  <2> QED BY <2>1, WithoutRange
<1>2. related' \in [Object -> Seq(Object)]
  BY <1>1 DEF ErasedBothWays, GraphTypeOK
<1>3. ASSUME NEW o \in Object
      PROVE  Range(related'[o]) = IF o = a THEN Range(related[a]) \ gone
                                  ELSE IF o \in gone THEN Range(related[o]) \ {a}
                                  ELSE Range(related[o])
  BY <1>1 DEF ErasedBothWays
<1> QED BY <1>2, <1>3 DEF Lists

LEMMA EraseRecordsLists ==
    ASSUME GraphTypeOK, NEW synced \in BOOLEAN, EraseRecords(synced)
    PROVE  /\ related' \in [Object -> Seq(Object)]
           /\ \A o, p \in Object :
                 Lists(o, p)' <=>
                    /\ Lists(o, p) /\ p \notin Records
                    /\ o \notin Records /\ o # Reentry /\ ~(synced /\ o = Unsynced)
<1> DEFINE emptied == Records \cup {Reentry} \cup (IF synced THEN {Unsynced} ELSE {})
<1>1. ASSUME NEW o \in Object
      PROVE  /\ Without(related[o], Records) \in Seq(Object)
             /\ Range(Without(related[o], Records)) = Range(related[o]) \ Records
  <2>1. related[o] \in Seq(Object)
    BY DEF GraphTypeOK
  <2> QED BY <2>1, WithoutRange
<1>2. related' = [o \in Object |-> IF o \in emptied THEN <<>> ELSE Without(related[o], Records)]
  BY DEF EraseRecords
<1>3. <<>> \in Seq(Object) /\ Range(<<>>) = {}
  BY DEF Range
<1>4. \A o : o \in emptied <=> o \in Records \/ o = Reentry \/ (synced /\ o = Unsynced)
  OBVIOUS
<1> HIDE DEF emptied
<1>5. related' \in [Object -> Seq(Object)]
  BY <1>1, <1>2, <1>3
<1>6. ASSUME NEW o \in Object
      PROVE  Range(related'[o]) = IF o \in emptied THEN {} ELSE Range(related[o]) \ Records
  BY <1>1, <1>2, <1>3
<1> QED BY <1>4, <1>5, <1>6 DEF Lists

LEMMA ReplaceLists ==
    ASSUME GraphTypeOK, NEW old \in Plain, NEW new \in Plain, Replace(old, new)
    PROVE  /\ related' \in [Object -> Seq(Object)]
           /\ \A p \in Object : Lists(new, p)' <=> Lists(old, p) \/ Lists(new, p)
           /\ \A p \in Object : ~Lists(old, p)'
           /\ \A o \in Object \ {old, new}, p \in Object :
                 Lists(o, p)' <=>
                    IF Lists(old, o) \/ Lists(new, o)
                    THEN \/ Lists(o, p) /\ p # old
                         \/ p = new /\ Lists(o, old)
                    ELSE Lists(o, p)
<1> DEFINE both == related[old] \o related[new]
<1>1. old \in Object /\ new \in Object /\ old # new
  BY DEF Plain, Replace
<1>2. both \in Seq(Object) /\ Range(both) = Range(related[old]) \cup Range(related[new])
  <2>1. related[old] \in Seq(Object) /\ related[new] \in Seq(Object)
    BY <1>1 DEF GraphTypeOK
  <2> QED BY <2>1, ConcatRange
<1>3. ASSUME NEW o \in Object
      PROVE  /\ Renamed(related[o], old, new) \in Seq(Object)
             /\ \A p : p \in Range(Renamed(related[o], old, new)) <=>
                   \/ p \in Range(related[o]) /\ p # old
                   \/ p = new /\ old \in Range(related[o])
  <2>1. related[o] \in Seq(Object)
    BY DEF GraphTypeOK
  <2> QED BY <1>1, <2>1, RenamedRange
<1>4. related' = [o \in Object |->
                    IF o = new THEN both
                    ELSE IF o = old THEN <<>>
                    ELSE IF o \in Range(both) THEN Renamed(related[o], old, new)
                    ELSE related[o]]
  BY DEF Replace, ReplacedBothWays
<1>5. <<>> \in Seq(Object) /\ Range(<<>>) = {}
  BY DEF Range
<1> HIDE DEF both
<1>6. related' \in [Object -> Seq(Object)]
  BY <1>2, <1>3, <1>4, <1>5 DEF GraphTypeOK
<1>7. \A p \in Object : Lists(new, p)' <=> Lists(old, p) \/ Lists(new, p)
  BY <1>1, <1>2, <1>4 DEF Lists
<1>8. \A p \in Object : ~Lists(old, p)'
  BY <1>1, <1>4, <1>5 DEF Lists
<1>9. ASSUME NEW o \in Object \ {old, new}, NEW p \in Object
      PROVE  Lists(o, p)' <=>
                IF Lists(old, o) \/ Lists(new, o)
                THEN \/ Lists(o, p) /\ p # old
                     \/ p = new /\ Lists(o, old)
                ELSE Lists(o, p)
  <2>1. CASE o \in Range(both)
    <3>1. related'[o] = Renamed(related[o], old, new)
      BY <1>4, <2>1
    <3> QED BY <1>2, <1>3, <2>1, <3>1 DEF Lists
  <2>2. CASE o \notin Range(both)
    <3>1. related'[o] = related[o]
      BY <1>4, <2>2
    <3> QED BY <1>2, <2>2, <3>1 DEF Lists
  <2> QED BY <2>1, <2>2
<1> QED BY <1>6, <1>7, <1>8, <1>9

LEMMA ClearLists ==
    ASSUME Clear
    PROVE  /\ related' \in [Object -> Seq(Object)]
           /\ \A o, p \in Object : ~Lists(o, p)'
<1>1. <<>> \in Seq(Object) /\ Range(<<>>) = {}
  BY DEF Range
<1> QED BY <1>1 DEF Clear, Lists

-----------------------------------------------------------------------------
(* The inductive invariant.  Hubs list only what can be freed: without it  *)
(* a record in a list of SQ_TYPE_REENTRY might be a hub itself.            *)

HubsListPlain == \A h \in Hub, o \in Object : Lists(h, o) => o \in Plain

IInv == GraphTypeOK /\ NoSelfRelation /\ HubsListPlain /\ Mutual /\ FreedIsForgotten

(* FreedIsForgotten without sequences.                                     *)
LEMMA ForgottenByLists ==
    ASSUME GraphTypeOK
    PROVE  FreedIsForgotten <=>
             \A o \in dead :
                /\ \A a \in Object : ~Lists(a, o)
                /\ \A p \in Object : Lists(o, p) => p \in Hub
<1>1. ASSUME NEW o \in dead PROVE Range(related[o]) \subseteq Object
  <2>1. related[o] \in Seq(Object)
    BY DEF GraphTypeOK, Plain
  <2> QED BY <2>1 DEF Range
<1> QED BY <1>1 DEF FreedIsForgotten, Lists

LEMMA ForgottenByListsPrime ==
    ASSUME GraphTypeOK'
    PROVE  FreedIsForgotten' <=>
             \A o \in dead' :
                /\ \A a \in Object : ~Lists(a, o)'
                /\ \A p \in Object : Lists(o, p)' => p \in Hub
<1>1. ASSUME NEW o \in dead' PROVE Range(related'[o]) \subseteq Object
  <2>1. related'[o] \in Seq(Object)
    BY DEF GraphTypeOK, Plain
  <2> QED BY <2>1 DEF Range
<1> QED BY <1>1 DEF FreedIsForgotten, Lists

LEMMA InitIInv == Init => IInv
<1> SUFFICES ASSUME Init PROVE IInv
  OBVIOUS
<1>1. GraphTypeOK
  BY DEF Init, GraphTypeOK
<1>2. \A o, p \in Object : ~Lists(o, p)
  BY DEF Init, Lists, Range
<1>3. FreedIsForgotten
  BY DEF Init, FreedIsForgotten
<1> QED BY <1>1, <1>2, <1>3, HubAssumption
     DEF IInv, NoSelfRelation, HubsListPlain, Mutual, HubAssumption, Plain

LEMMA AddIInv ==
    ASSUME IInv, NEW a \in Object, NEW b \in Plain, Add(a, b)
    PROVE  IInv'
<1>1. GraphTypeOK /\ a # b /\ dead' = dead \ {a, b}
  BY DEF IInv, Add
<1>2. /\ related' \in [Object -> Seq(Object)]
      /\ \A o, p \in Object :
            Lists(o, p)' <=> Lists(o, p) \/ (o = a /\ p = b) \/ (o = b /\ p = a)
  BY <1>1, AddLists
<1>3. GraphTypeOK'
  BY <1>1, <1>2 DEF GraphTypeOK
<1>4. NoSelfRelation'
  BY <1>1, <1>2 DEF IInv, NoSelfRelation
<1>5. HubsListPlain'
  BY <1>2, HubAssumption DEF IInv, HubsListPlain, HubAssumption, Plain
<1>6. Mutual'
  BY <1>2 DEF IInv, Mutual, Plain
<1>7. FreedIsForgotten'
  <2>1. \A o \in dead :
           /\ \A c \in Object : ~Lists(c, o)
           /\ \A p \in Object : Lists(o, p) => p \in Hub
    BY <1>1, ForgottenByLists DEF IInv
  <2>2. \A o \in dead' : o \in Object /\ o \in dead /\ o # a /\ o # b
    BY <1>1 DEF GraphTypeOK, Plain
  <2> QED BY <1>2, <1>3, <2>1, <2>2, ForgottenByListsPrime
<1> QED BY <1>3, <1>4, <1>5, <1>6, <1>7 DEF IInv

LEMMA EraseIInv ==
    ASSUME IInv, NEW a \in Object, NEW b \in Object \cup {NoObject}, Erase(a, b)
    PROVE  IInv'
<1> DEFINE gone == {o \in Range(related[a]) : o = b \/ b = NoObject}
<1>1. GraphTypeOK /\ dead' = dead /\ related' = ErasedBothWays(a, gone)
  BY DEF IInv, Erase
<1> HIDE DEF gone
<1>2. /\ related' \in [Object -> Seq(Object)]
      /\ \A o, p \in Object :
            Lists(o, p)' <=>
               /\ Lists(o, p)
               /\ ~(o = a /\ p \in gone)
               /\ ~(o # a /\ o \in gone /\ p = a)
  BY <1>1, EraseLists
<1>3. GraphTypeOK'
  BY <1>1, <1>2 DEF GraphTypeOK
<1>4. NoSelfRelation'
  BY <1>2 DEF IInv, NoSelfRelation
<1>5. HubsListPlain'
  BY <1>2, HubAssumption DEF IInv, HubsListPlain, HubAssumption
<1>6. Mutual'
  BY <1>2 DEF IInv, Mutual, NoSelfRelation, Plain
<1>7. FreedIsForgotten'
  <2>1. \A o \in dead :
           /\ \A c \in Object : ~Lists(c, o)
           /\ \A p \in Object : Lists(o, p) => p \in Hub
    BY <1>1, ForgottenByLists DEF IInv
  <2>2. \A o \in dead' : o \in Object /\ o \in dead
    BY <1>1 DEF GraphTypeOK, Plain
  <2> QED BY <1>2, <1>3, <2>1, <2>2, ForgottenByListsPrime
<1> QED BY <1>3, <1>4, <1>5, <1>6, <1>7 DEF IInv

LEMMA EraseRecordsIInv ==
    ASSUME IInv, NEW synced \in BOOLEAN, EraseRecords(synced)
    PROVE  IInv'
<1>1. GraphTypeOK
  BY DEF IInv
<1>2. /\ related' \in [Object -> Seq(Object)]
      /\ \A o, p \in Object :
            Lists(o, p)' <=>
               /\ Lists(o, p) /\ p \notin Records
               /\ o \notin Records /\ o # Reentry /\ ~(synced /\ o = Unsynced)
  BY <1>1, EraseRecordsLists
<1>3. PICK gone \in SUBSET Dropped :
         /\ ~synced => gone = {}
         /\ dead' = dead \cup Records \cup gone
  BY DEF EraseRecords
<1>4. Reentry \in Hub /\ Unsynced \in Hub /\ Hub \subseteq Object
  BY HubAssumption DEF HubAssumption
<1>5. Range(related[Reentry]) \subseteq Object /\ Range(related[Unsynced]) \subseteq Object
  <2>1. related[Reentry] \in Seq(Object) /\ related[Unsynced] \in Seq(Object)
    BY <1>1, <1>4 DEF GraphTypeOK
  <2> QED BY <2>1 DEF Range
<1>6. Records \subseteq Plain /\ \A o \in Records : Lists(Reentry, o)
  BY <1>4, <1>5 DEF IInv, HubsListPlain, Lists, Records
<1>7. gone \subseteq Plain /\ \A o \in gone : Lists(Unsynced, o)
  BY <1>3, <1>4, <1>5 DEF IInv, HubsListPlain, Lists, Dropped
<1>8. \A o \in gone, p \in Object : Lists(p, o) => p \in Records \/ p = Reentry \/ p = Unsynced
  BY <1>3 DEF Dropped
<1>9. GraphTypeOK'
  BY <1>1, <1>2, <1>3, <1>6, <1>7 DEF GraphTypeOK
<1>10. NoSelfRelation'
  BY <1>2 DEF IInv, NoSelfRelation
<1>11. HubsListPlain'
  BY <1>2, <1>4 DEF IInv, HubsListPlain
<1>12. Mutual'
  BY <1>2, <1>4 DEF IInv, Mutual, Plain
<1>13. FreedIsForgotten'
  <2>1. \A o \in dead :
           /\ \A c \in Object : ~Lists(c, o)
           /\ \A p \in Object : Lists(o, p) => p \in Hub
    BY <1>1, ForgottenByLists DEF IInv
  <2>2. ASSUME NEW o \in dead'
        PROVE  /\ \A c \in Object : ~Lists(c, o)'
               /\ \A p \in Object : Lists(o, p)' => p \in Hub
    <3>1. o \in Object
      BY <1>9 DEF GraphTypeOK, Plain
    <3>2. CASE o \in dead
      BY <1>2, <2>1, <3>1, <3>2
    <3>3. CASE o \in Records
      BY <1>2, <3>1, <3>3
    <3>4. CASE o \in gone
      <4>1. synced /\ o \in Plain
        BY <1>3, <1>7, <3>4
      <4>2. \A c \in Object : ~Lists(c, o)'
        BY <1>2, <1>8, <3>1, <3>4, <4>1
      <4>3. ASSUME NEW p \in Object, p \notin Hub PROVE ~Lists(o, p)'
        <5>1. Lists(o, p) => Lists(p, o)
          BY <3>1, <4>3 DEF IInv, Mutual, Plain
        <5>2. Lists(o, p) => p \in Records
          BY <1>4, <1>8, <3>4, <4>3, <5>1
        <5> QED BY <1>2, <3>1, <5>2
      <4> QED BY <4>2, <4>3
    <3> QED BY <1>3, <3>2, <3>3, <3>4
  <2> QED BY <1>9, <2>2, ForgottenByListsPrime
<1> QED BY <1>9, <1>10, <1>11, <1>12, <1>13 DEF IInv

LEMMA ReplaceIInv ==
    ASSUME IInv, NEW old \in Plain, NEW new \in Plain, Replace(old, new)
    PROVE  IInv'
<1>1. /\ GraphTypeOK /\ old \in Object /\ new \in Object /\ old # new
      /\ ~Lists(old, new) /\ ~Lists(new, old) /\ ~Lists(old, old) /\ ~Lists(new, new)
      /\ dead' = (dead \cup {old}) \ {new}
  BY DEF IInv, Replace, Plain, NoSelfRelation
<1>2. /\ related' \in [Object -> Seq(Object)]
      /\ \A p \in Object : Lists(new, p)' <=> Lists(old, p) \/ Lists(new, p)
      /\ \A p \in Object : ~Lists(old, p)'
      /\ \A o \in Object \ {old, new}, p \in Object :
            Lists(o, p)' <=>
               IF Lists(old, o) \/ Lists(new, o)
               THEN \/ Lists(o, p) /\ p # old
                    \/ p = new /\ Lists(o, old)
               ELSE Lists(o, p)
  BY <1>1, ReplaceLists
<1>3. \A o \in Object : (Lists(o, old) => Lists(old, o)) /\ (Lists(o, new) => Lists(new, o))
  BY DEF IInv, Mutual
<1>4. GraphTypeOK'
  BY <1>1, <1>2 DEF GraphTypeOK
<1>5. NoSelfRelation'
  BY <1>1, <1>2 DEF IInv, NoSelfRelation
<1>6. HubsListPlain'
  <2>1. Hub \subseteq Object \ {old, new}
    BY HubAssumption DEF HubAssumption, Plain
  <2> QED BY <1>1, <1>2, <2>1 DEF IInv, HubsListPlain
<1>7. Mutual'
  <2>1. ASSUME NEW a \in Object, NEW o \in Plain, Lists(a, o)'
        PROVE  Lists(o, a)'
    <3>1. o \in Object /\ (Lists(a, o) => Lists(o, a)) /\ a # old
      BY <1>2, <2>1 DEF IInv, Mutual, Plain
    <3>2. CASE a = new
      <4>1. /\ Lists(old, o) \/ Lists(new, o)
            /\ o # old /\ o # new
        BY <1>1, <1>2, <2>1, <3>1, <3>2
      <4>2. Lists(o, old) \/ Lists(o, new)
        BY <1>1, <2>1, <4>1 DEF IInv, Mutual
      <4> QED BY <1>1, <1>2, <3>1, <3>2, <4>1, <4>2
    <3>3. CASE a # new
      <4>1. CASE o = new
        BY <1>1, <1>2, <1>3, <2>1, <3>1, <3>3, <4>1
      <4>2. CASE o # new
        <5>1. Lists(a, o) /\ o # old
          BY <1>1, <1>2, <1>3, <2>1, <3>1, <3>3, <4>2
        <5> QED BY <1>1, <1>2, <3>1, <3>3, <4>2, <5>1
      <4> QED BY <4>1, <4>2
    <3> QED BY <3>2, <3>3
  <2> QED BY <2>1 DEF Mutual
<1>8. FreedIsForgotten'
  <2>1. \A o \in dead :
           /\ \A c \in Object : ~Lists(c, o)
           /\ \A p \in Object : Lists(o, p) => p \in Hub
    BY <1>1, ForgottenByLists DEF IInv
  <2>2. ASSUME NEW o \in dead'
        PROVE  /\ \A c \in Object : ~Lists(c, o)'
               /\ \A p \in Object : Lists(o, p)' => p \in Hub
    <3>1. o \in Object /\ o # new
      BY <1>1, <1>4 DEF GraphTypeOK, Plain
    <3>2. CASE o = old
      <4>1. ASSUME NEW c \in Object PROVE ~Lists(c, old)'
        BY <1>1, <1>2, <1>3
      <4> QED BY <1>2, <3>2, <4>1
    <3>3. CASE o # old
      <4>1. o \in dead
        BY <1>1, <3>3
      <4>2. ASSUME NEW c \in Object PROVE ~Lists(c, o)'
        BY <1>1, <1>2, <2>1, <3>1, <4>1
      <4>3. \A p \in Object : Lists(o, p)' => p \in Hub
        BY <1>1, <1>2, <2>1, <3>1, <3>3, <4>1
      <4> QED BY <4>2, <4>3
    <3> QED BY <3>2, <3>3
  <2> QED BY <1>4, <2>2, ForgottenByListsPrime
<1> QED BY <1>4, <1>5, <1>6, <1>7, <1>8 DEF IInv

LEMMA ClearIInv ==
    ASSUME IInv, Clear
    PROVE  IInv'
<1>1. /\ related' \in [Object -> Seq(Object)]
      /\ \A o, p \in Object : ~Lists(o, p)'
  BY ClearLists
<1>2. GraphTypeOK'
  BY <1>1 DEF IInv, GraphTypeOK, Clear
<1>3. FreedIsForgotten'
  <2>1. \A o \in dead' : o \in Object
    BY <1>2 DEF GraphTypeOK, Plain
  <2> QED BY <1>1, <1>2, <2>1, ForgottenByListsPrime
<1> QED BY <1>1, <1>2, <1>3, HubAssumption
     DEF IInv, NoSelfRelation, HubsListPlain, Mutual, HubAssumption, Plain

LEMMA NextIInv == IInv /\ [Next]_graph => IInv'
<1> SUFFICES ASSUME IInv, [Next]_graph PROVE IInv'
  OBVIOUS
<1>1. ASSUME NEW a \in Object, NEW b \in Plain, Add(a, b) PROVE IInv'
  BY <1>1, AddIInv
<1>2. ASSUME NEW a \in Object, NEW b \in Object \cup {NoObject}, Erase(a, b) PROVE IInv'
  BY <1>2, EraseIInv
<1>3. ASSUME NEW synced \in BOOLEAN, EraseRecords(synced) PROVE IInv'
  BY <1>3, EraseRecordsIInv
<1>4. ASSUME NEW old \in Plain, NEW new \in Plain, Replace(old, new) PROVE IInv'
  BY <1>4, ReplaceIInv
<1>5. CASE Clear
  BY <1>5, ClearIInv
<1>6. CASE UNCHANGED graph
  BY <1>6 DEF graph, IInv, GraphTypeOK, NoSelfRelation, HubsListPlain, Mutual,
              FreedIsForgotten, Lists
<1> QED BY <1>1, <1>2, <1>3, <1>4, <1>5, <1>6 DEF Next

(* The strengthened invariant holds in every state that callers who keep   *)
(* their side (no relation twice, none of an object with itself) reach.    *)
THEOREM GraphInvariance == Spec => []IInv
<1> QED BY InitIInv, NextIInv, PTL DEF Spec

-----------------------------------------------------------------------------
(* Every list is a list of objects, and no hub is ever freed.              *)
THEOREM GraphTypeCorrect == Spec => []GraphTypeOK
<1>1. IInv => GraphTypeOK
  BY DEF IInv
<1> QED BY <1>1, GraphInvariance, PTL

(* No object ever comes to be related to itself, not by replacement        *)
(* either: sq_relation_erase() never frees what it is walking.             *)
THEOREM NeverSelfRelated == Spec => []NoSelfRelation
<1>1. IInv => NoSelfRelation
  BY DEF IInv
<1> QED BY <1>1, GraphInvariance, PTL

(* The reverse references of whatever can be freed lead to every list it   *)
(* is in.                                                                  *)
THEOREM ReverseReferencesComplete == Spec => []Mutual
<1>1. IInv => Mutual
  BY DEF IInv
<1> QED BY <1>1, GraphInvariance, PTL

(* No list ever leads to a table, column or record that was freed.         *)
THEOREM NothingDangles == Spec => []FreedIsForgotten
<1>1. IInv => FreedIsForgotten
  BY DEF IInv
<1> QED BY <1>1, GraphInvariance, PTL
=============================================================================
