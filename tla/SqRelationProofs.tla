-------------------------- MODULE SqRelationProofs --------------------------
(***************************************************************************)
(* Proofs about SqRelation: the array of nodes, the linked lists and the   *)
(* pool of cells are a sound heap, whatever the number of objects and      *)
(* cells, and implement the lists of RelationGraph.                        *)
(***************************************************************************)
EXTENDS SqRelation, FiniteSetTheorems, WellFoundedInduction, TLAPS

-----------------------------------------------------------------------------
(* Induction over the natural numbers, for sets instead of predicates.     *)

(* A set of natural numbers that is not empty has a least element.         *)
LEMMA Least ==
    ASSUME NEW T, T \subseteq Nat, T # {}
    PROVE  \E x \in T : \A y \in T : x <= y
<1> DEFINE R == OpToRel(<, Nat)
<1>1. IsWellFoundedOn(R, Nat)
  BY NatLessThanWellFounded
<1>2. PICK x \in T : \A y \in T : ~(<<y, x>> \in R)
  <2> HIDE DEF R
  <2> QED BY <1>1, WFMin
<1>3. \A y \in T : ~(y < x)
  BY <1>2, Zenon DEF OpToRel
<1> HIDE DEF R
<1> QED BY <1>3

(* A set that holds 0 and with every natural number the next holds them    *)
(* all: what a recursive function computes is proved of it step by step.   *)
LEMMA Induct ==
    ASSUME NEW T, 0 \in T, \A n \in T : n \in Nat => n + 1 \in T
    PROVE  Nat \subseteq T
<1>1. SUFFICES ASSUME Nat \ T # {} PROVE FALSE
  OBVIOUS
<1>2. PICK x \in Nat \ T : \A y \in Nat \ T : x <= y
  BY <1>1, Least
<1>3. x # 0 /\ x - 1 \in Nat /\ x - 1 < x
  BY <1>2
<1>4. x - 1 \in T
  BY <1>2, <1>3
<1>5. (x - 1) + 1 \in T
  BY <1>3, <1>4
<1>6. (x - 1) + 1 = x
  BY <1>2
<1> QED BY <1>5, <1>6

-----------------------------------------------------------------------------
(* Sequences grow at the front.                                            *)
LEMMA Prepended ==
    ASSUME NEW S, NEW q \in Seq(S), NEW x \in S
    PROVE  /\ <<x>> \o q \in Seq(S)
           /\ Len(<<x>> \o q) = Len(q) + 1
           /\ DOMAIN (<<x>> \o q) = 1 .. Len(q) + 1
           /\ (<<x>> \o q)[1] = x
           /\ \A i \in 1 .. Len(q) : (<<x>> \o q)[i + 1] = q[i]
           /\ \A i \in 2 .. Len(q) + 1 : (<<x>> \o q)[i] = q[i - 1] /\ i - 1 \in 1 .. Len(q)
  OBVIOUS

-----------------------------------------------------------------------------
(* The owners of cells: an object owns those of its list, NULL those that  *)
(* were freed; own[o] says how many they are, and which.  A heap is sound  *)
(* if every cell that the pool gave out has one owner, and the pointers    *)
(* lead along what is owned.                                               *)

Pointer == Cell \cup {NULL}
Owner == Object \cup {NULL}

Node == [object : Object, next : Pointer]

Heap ==
    [node      : Seq(Node),
     capacity  : Nat,
     cell      : [Cell -> [object : Owner, next : Pointer]],
     allocated : 0 .. MaxCells,
     freed     : Pointer,
     n_freed   : Int,
     n_used    : Int]

IsPath(cell, first, s) ==
    /\ first = IF s.n = 0 THEN NULL ELSE s.at[1]
    /\ \A k \in 1 .. s.n : cell[s.at[k]].next = IF k = s.n THEN NULL ELSE s.at[k + 1]

InOrder(h) ==
    \A i, j \in 1 .. Len(h.node) : i < j => h.node[i].object < h.node[j].object

HasNode(h, o) == \E i \in 1 .. Len(h.node) : h.node[i].object = o

OwnedOnce(h, own) ==
    /\ \A o \in Owner :
          own[o].n \in Nat /\ \A k \in 1 .. own[o].n : own[o].at[k] \in 1 .. h.allocated
    /\ \A c \in 1 .. h.allocated : \E o \in Owner : \E k \in 1 .. own[o].n : own[o].at[k] = c
    /\ \A o, p \in Owner : \A k \in 1 .. own[o].n, l \in 1 .. own[p].n :
          own[o].at[k] = own[p].at[l] => o = p /\ k = l

Linked(h, own) ==
    /\ IsPath(h.cell, h.freed, own[NULL])
    /\ \A i \in 1 .. Len(h.node) : IsPath(h.cell, h.node[i].next, own[h.node[i].object])
    /\ \A o \in Object : ~HasNode(h, o) => own[o].n = 0
    /\ \A o \in Object : \A k \in 1 .. own[o].n : h.cell[own[o].at[k]].object \in Object

Counted(h, own) ==
    /\ h.n_freed = own[NULL].n
    /\ h.n_used = h.allocated - h.n_freed
    /\ h.capacity >= Len(h.node)

IsSound(h, own) ==
    h \in Heap /\ InOrder(h) /\ OwnedOnce(h, own) /\ Linked(h, own) /\ Counted(h, own)

(* What the cells of a list name, and so for all objects.                  *)
Names(h, s) == [k \in 1 .. s.n |-> h.cell[s.at[k]].object]

Named(h, own) == [o \in Object |-> Names(h, own[o])]

(* The addresses are so near to each other that an int can tell which of   *)
(* two is higher.                                                          *)
AddressesAreNear == \A a, b \in Object : a - b <= IntMax

-----------------------------------------------------------------------------
(* Sequences without repetition are no longer than the range is large.     *)
LEMMA Pigeons ==
    ASSUME NEW n \in Nat, NEW m \in Nat, NEW f \in [1 .. m -> 1 .. n],
           \A k, l \in 1 .. m : f[k] = f[l] => k = l
    PROVE  m <= n
<1>1. f \in Injection(1 .. m, 1 .. n)
  BY DEF Injection, IsInjective
<1>2. /\ IsFiniteSet(1 .. n) /\ Cardinality(1 .. n) = n
      /\ IsFiniteSet(1 .. m) /\ Cardinality(1 .. m) = m
  <2>1. ASSUME NEW q \in Nat PROVE IsFiniteSet(1 .. q) /\ Cardinality(1 .. q) = q
    <3>1. 1 \in Int /\ q \in Int
      OBVIOUS
    <3>2. /\ IsFiniteSet(1 .. q)
          /\ Cardinality(1 .. q) = IF 1 > q THEN 0 ELSE q - 1 + 1
      BY <3>1, FS_Interval
    <3> QED BY <3>2
  <2> QED BY <2>1
<1>3. Cardinality(1 .. m) <= Cardinality(1 .. n)
  BY <1>1, <1>2, FS_Injection
<1> QED BY <1>2, <1>3

LEMMA TwoLists ==
    ASSUME NEW h, h.allocated \in Nat, NEW own, OwnedOnce(h, own),
           NEW o \in Owner, NEW p \in Owner, o # p
    PROVE  /\ own[o].n \in Nat /\ own[p].n \in Nat
           /\ own[o].n + own[p].n <= h.allocated
<1> DEFINE m == own[o].n
           q == own[p].n
           f == [k \in 1 .. m + q |-> IF k <= m THEN own[o].at[k] ELSE own[p].at[k - m]]
<1>1. /\ m \in Nat /\ q \in Nat
      /\ \A k \in 1 .. m : own[o].at[k] \in 1 .. h.allocated
      /\ \A k \in 1 .. q : own[p].at[k] \in 1 .. h.allocated
  BY DEF OwnedOnce
<1>2. /\ \A k, l \in 1 .. m : own[o].at[k] = own[o].at[l] => k = l
      /\ \A k, l \in 1 .. q : own[p].at[k] = own[p].at[l] => k = l
      /\ \A k \in 1 .. m, l \in 1 .. q : own[o].at[k] # own[p].at[l]
  BY DEF OwnedOnce
<1> HIDE DEF m, q
<1>3. f \in [1 .. m + q -> 1 .. h.allocated]
  BY <1>1
<1>4. ASSUME NEW k \in 1 .. m + q, NEW l \in 1 .. m + q, f[k] = f[l] PROVE k = l
  <2>1. k \in 1 .. m \/ k - m \in 1 .. q
    BY <1>1
  <2>2. l \in 1 .. m \/ l - m \in 1 .. q
    BY <1>1
  <2>3. CASE k <= m /\ l <= m
    BY <1>1, <1>2, <1>4, <2>1, <2>2, <2>3
  <2>4. CASE k <= m /\ l > m
    BY <1>1, <1>2, <1>4, <2>1, <2>2, <2>4
  <2>5. CASE k > m /\ l <= m
    BY <1>1, <1>2, <1>4, <2>1, <2>2, <2>5
  <2>6. CASE k > m /\ l > m
    <3>1. k - m = l - m
      BY <1>1, <1>2, <1>4, <2>1, <2>2, <2>6
    <3> QED BY <1>1, <3>1
  <2> QED BY <1>1, <2>3, <2>4, <2>5, <2>6
<1> HIDE DEF f
<1>5. m + q \in Nat
  BY <1>1
<1>6. m + q <= h.allocated
  BY <1>3, <1>4, <1>5, Pigeons
<1> QED BY <1>1, <1>6 DEF m, q

-----------------------------------------------------------------------------
(* The recursive function in Chain is what its definition says.            *)
Walks == [left : 0 .. MaxCells, p : 0 .. MaxCells]

WalkedUntil(h, n, walk) ==
    walk = [at \in Walks |->
              IF at.left > n \/ at.left = 0 \/ at.p = NULL THEN <<>>
              ELSE <<at.p>> \o walk[[left |-> at.left - 1, p |-> h.cell[at.p].next]]]

LEMMA WalkExists ==
    ASSUME NEW h \in Heap
    PROVE  \E walk : WalkedUntil(h, MaxCells, walk)
<1> DEFINE T == {m \in Nat : \E walk : WalkedUntil(h, m, walk)}
<1>0. MaxCells \in Nat
  BY SizeAssumption DEF SizeAssumption
<1>1. 0 \in T
  <2>1. WalkedUntil(h, 0, [at \in Walks |-> <<>>])
    BY DEF WalkedUntil, Walks
  <2> QED BY <2>1
<1>2. ASSUME NEW m \in T, m \in Nat PROVE m + 1 \in T
  <2>1. PICK f : WalkedUntil(h, m, f)
    BY <1>2
  <2> DEFINE next(at) == [left |-> at.left - 1, p |-> h.cell[at.p].next]
             g == [at \in Walks |->
                     IF at.left = m + 1 /\ at.p # NULL THEN <<at.p>> \o f[next(at)] ELSE f[at]]
  <2>2. ASSUME NEW at \in Walks, at.left # 0, at.p # NULL
        PROVE  next(at) \in Walks /\ next(at).left = at.left - 1
    <3>1. at.p \in Cell /\ at.left \in 1 .. MaxCells
      BY <1>0, <2>2 DEF Walks, Cell, NULL
    <3>2. h.cell[at.p].next \in 0 .. MaxCells
      BY <1>0, <3>1 DEF Heap, Pointer, Cell, NULL
    <3> QED BY <1>0, <3>1, <3>2 DEF Walks
  <2>3. ASSUME NEW at \in Walks
        PROVE  /\ at.left \in Nat
               /\ g[at] = IF at.left = m + 1 /\ at.p # NULL THEN <<at.p>> \o f[next(at)] ELSE f[at]
               /\ f[at] = IF at.left > m \/ at.left = 0 \/ at.p = NULL THEN <<>>
                          ELSE <<at.p>> \o f[next(at)]
    <3>1. at.left \in Nat
      BY <1>0 DEF Walks
    <3> QED BY <2>1, <3>1 DEF WalkedUntil
  <2> HIDE DEF g
  <2>4. ASSUME NEW at \in Walks
        PROVE  g[at] = IF at.left > m + 1 \/ at.left = 0 \/ at.p = NULL THEN <<>>
                       ELSE <<at.p>> \o g[next(at)]
    <3>1. CASE at.left > m + 1 \/ at.left = 0 \/ at.p = NULL
      BY <1>2, <2>3, <3>1
    <3>2. CASE ~(at.left > m + 1 \/ at.left = 0 \/ at.p = NULL)
      <4>1. next(at) \in Walks /\ next(at).left = at.left - 1
        BY <2>2, <3>2
      <4> HIDE DEF next
      <4>0. at.left \in Nat
        BY <2>3
      <4>2. at.left <= m + 1 /\ at.left # 0 /\ next(at).left # m + 1
        BY <1>2, <3>2, <4>0, <4>1
      <4>3. g[next(at)] = f[next(at)]
        BY <2>3, <4>1, <4>2
      <4>4. g[at] = <<at.p>> \o f[next(at)]
        <5>1. at.left # m + 1 => ~(at.left > m)
          BY <1>2, <4>0, <4>2
        <5>2. /\ g[at] = IF at.left = m + 1 /\ at.p # NULL THEN <<at.p>> \o f[next(at)] ELSE f[at]
              /\ f[at] = IF at.left > m \/ at.left = 0 \/ at.p = NULL THEN <<>>
                         ELSE <<at.p>> \o f[next(at)]
          BY <2>3
        <5> QED BY <3>2, <5>1, <5>2, Zenon
      <4> QED BY <3>2, <4>3, <4>4
    <3> QED BY <3>1, <3>2
  <2>5. WalkedUntil(h, m + 1, g)
    <3>1. g = [at \in Walks |-> g[at]]
      BY DEF g
    <3> HIDE DEF next
    <3>2. [at \in Walks |-> g[at]]
          = [at \in Walks |-> IF at.left > m + 1 \/ at.left = 0 \/ at.p = NULL THEN <<>>
                              ELSE <<at.p>> \o g[next(at)]]
      BY <2>4
    <3> QED BY <3>1, <3>2 DEF WalkedUntil, next
  <2> QED BY <1>2, <2>5
<1> HIDE DEF T
<1>3. Nat \subseteq T
  BY <1>1, <1>2, Induct
<1> QED BY <1>0, <1>3 DEF T

Places(s) == [k \in 1 .. s.n |-> s.at[k]]

LEMMA ChainIs ==
    ASSUME NEW h \in Heap, NEW first, NEW s, s.n \in 0 .. MaxCells,
           \A k \in 1 .. s.n : s.at[k] \in Cell,
           IsPath(h.cell, first, s)
    PROVE  Chain(h, first) = Places(s)
<1> DEFINE walk == CHOOSE f : WalkedUntil(h, MaxCells, f)
           w(left, p) == walk[[left |-> left, p |-> p]]
           n == s.n
           at == s.at
           start(m) == IF m = 0 THEN NULL ELSE at[n - m + 1]
           rest(m) == [l \in 1 .. m |-> at[n - m + l]]
           T == {m \in Nat : m <= n =>
                   \A left \in m .. MaxCells : w(left, start(m)) = rest(m)}
<1>0. MaxCells \in Nat /\ n \in Nat /\ n <= MaxCells
  BY SizeAssumption DEF SizeAssumption
<1>1. WalkedUntil(h, MaxCells, walk)
  BY WalkExists
<1>2. ASSUME NEW p \in 0 .. MaxCells PROVE Chain(h, p) = w(MaxCells, p)
  <2>1. \A f : WalkedUntil(h, MaxCells, f)
           <=> f = [a \in Walks |->
                      IF a.left = 0 \/ a.p = NULL THEN <<>>
                      ELSE <<a.p>> \o f[[left |-> a.left - 1, p |-> h.cell[a.p].next]]]
    <3>1. \A a \in Walks : ~(a.left > MaxCells)
      BY <1>0 DEF Walks
    <3> QED BY <3>1 DEF WalkedUntil
  <2>2. walk = CHOOSE f : f = [a \in Walks |->
                 IF a.left = 0 \/ a.p = NULL THEN <<>>
                 ELSE <<a.p>> \o f[[left |-> a.left - 1, p |-> h.cell[a.p].next]]]
    BY <2>1
  <2> HIDE DEF walk
  <2> QED BY <2>2, Zenon DEF Chain, Walks
<1> HIDE DEF walk
<1>3. ASSUME NEW left \in 0 .. MaxCells, NEW p \in Pointer
      PROVE  w(left, p) = IF left = 0 \/ p = NULL THEN <<>>
                          ELSE <<p>> \o w(left - 1, h.cell[p].next)
  <2>1. [left |-> left, p |-> p] \in Walks
    BY <1>0 DEF Walks, Pointer, Cell, NULL
  <2>2. ~(left > MaxCells)
    BY <1>0
  <2> QED BY <1>1, <2>1, <2>2 DEF WalkedUntil
<1> HIDE DEF w
<1>4. /\ first = IF n = 0 THEN NULL ELSE at[1]
      /\ \A k \in 1 .. n : h.cell[at[k]].next = IF k = n THEN NULL ELSE at[k + 1]
      /\ \A k \in 1 .. n : at[k] \in Cell /\ at[k] # NULL
  BY <1>0 DEF IsPath, Cell, NULL
<1> HIDE DEF n, at
<1>5. 0 \in T
  <2>1. ASSUME NEW left \in 0 .. MaxCells PROVE w(left, start(0)) = rest(0)
    <3>1. rest(0) = <<>> /\ start(0) = NULL
      OBVIOUS
    <3>2. NULL \in Pointer
      BY DEF Pointer
    <3> HIDE DEF rest, start
    <3> QED BY <1>3, <3>1, <3>2
  <2> QED BY <1>0, <2>1
<1>6. ASSUME NEW m \in T, m \in Nat PROVE m + 1 \in T
  <2>1. SUFFICES ASSUME m + 1 <= n, NEW left \in m + 1 .. MaxCells
                 PROVE  w(left, start(m + 1)) = rest(m + 1)
    BY <1>6
  <2> DEFINE k == n - m
  <2>2. /\ k \in 1 .. n /\ left \in 0 .. MaxCells /\ left # 0 /\ left - 1 \in m .. MaxCells
        /\ m + 1 # 0 /\ n - (m + 1) + 1 = k /\ (k = n <=> m = 0) /\ n - m + 1 = k + 1
    BY <1>0, <1>6, <2>1
  <2>3. start(m + 1) = at[k] /\ start(m) = h.cell[at[k]].next
    BY <1>4, <2>2
  <2>4. w(left - 1, start(m)) = rest(m)
    BY <1>6, <2>1, <2>2, <1>0
  <2>5. w(left, at[k]) = <<at[k]>> \o rest(m)
    <3>1. at[k] \in Pointer /\ at[k] # NULL
      BY <1>4, <2>2 DEF Pointer
    <3> HIDE DEF rest, start
    <3> QED BY <1>3, <2>2, <2>3, <2>4, <3>1
  <2>6. <<at[k]>> \o rest(m) = rest(m + 1)
    <3> DEFINE q == rest(m)
    <3>1. q \in Seq(Cell) /\ Len(q) = m
      <4>1. \A l \in 1 .. m : n - m + l \in 1 .. n
        BY <1>0, <1>6, <2>1
      <4> QED BY <1>4, <1>6, <4>1
    <3>2. at[k] \in Cell
      BY <1>4, <2>2
    <3>3. /\ <<at[k]>> \o q \in Seq(Cell)
          /\ DOMAIN (<<at[k]>> \o q) = 1 .. m + 1
          /\ (<<at[k]>> \o q)[1] = at[k]
          /\ \A l \in 2 .. m + 1 : (<<at[k]>> \o q)[l] = q[l - 1] /\ l - 1 \in 1 .. m
      <4> HIDE DEF q
      <4> QED BY <3>1, <3>2, Prepended
    <3>4. ASSUME NEW l \in 1 .. m + 1 PROVE (<<at[k]>> \o q)[l] = at[n - (m + 1) + l]
      <4>1. CASE l = 1
        BY <1>0, <1>6, <2>1, <3>3, <4>1
      <4>2. CASE l # 1
        <5>1. l \in 2 .. m + 1 /\ n - m + (l - 1) = n - (m + 1) + l
          BY <1>0, <1>6, <4>2
        <5>2. q[l - 1] = at[n - m + (l - 1)]
          BY <3>3, <5>1
        <5> QED BY <3>3, <5>1, <5>2
      <4> QED BY <4>1, <4>2
    <3> HIDE DEF q
    <3>5. <<at[k]>> \o q = [l \in 1 .. m + 1 |-> at[n - (m + 1) + l]]
      BY <3>3, <3>4
    <3> QED BY <3>5 DEF q
  <2> QED BY <2>3, <2>5, <2>6
<1>7. n \in T
  <2> HIDE DEF T
  <2> QED BY <1>0, <1>5, <1>6, Induct
<1>8. first = start(n) /\ first \in 0 .. MaxCells /\ MaxCells \in n .. MaxCells
  <2>1. n # 0 => 1 \in 1 .. n /\ n - n + 1 = 1
    BY <1>0
  <2> QED BY <1>0, <1>4, <2>1 DEF Cell, NULL
<1>9. w(MaxCells, first) = rest(n)
  BY <1>0, <1>7, <1>8
<1>10. rest(n) = [l \in 1 .. n |-> at[l]]
  <2>1. \A l \in 1 .. n : n - n + l = l
    BY <1>0
  <2> QED BY <2>1
<1> QED BY <1>2, <1>8, <1>9, <1>10 DEF w, n, at, Places

-----------------------------------------------------------------------------
(* What the type of a heap says.                                           *)
LEMMA Sizes ==
    /\ MaxCells \in Nat /\ IntMax \in Nat
    /\ Object \subseteq Nat /\ NULL \notin Object /\ NULL \notin Cell
    /\ Cell \subseteq Nat
  BY AddressAssumption, SizeAssumption DEF AddressAssumption, SizeAssumption, NULL, Cell

LEMMA HeapFacts ==
    ASSUME NEW h \in Heap
    PROVE  /\ Len(h.node) \in Nat /\ DOMAIN h.node = 1 .. Len(h.node)
           /\ \A i \in 1 .. Len(h.node) :
                 /\ h.node[i] = [object |-> h.node[i].object, next |-> h.node[i].next]
                 /\ h.node[i].object \in Object /\ h.node[i].next \in Pointer
           /\ h.allocated \in Nat /\ 1 .. h.allocated \subseteq Cell
           /\ DOMAIN h.cell = Cell
           /\ \A c \in Cell : h.cell[c].object \in Owner /\ h.cell[c].next \in Pointer
<1>1. /\ h.node \in Seq(Node) /\ h.allocated \in 0 .. MaxCells
      /\ h.cell \in [Cell -> [object : Owner, next : Pointer]]
  BY DEF Heap
<1>2. Len(h.node) \in Nat /\ DOMAIN h.node = 1 .. Len(h.node)
  BY <1>1
<1>3. \A i \in 1 .. Len(h.node) : h.node[i] \in Node
  BY <1>1
<1>4. \A i \in 1 .. Len(h.node) :
         /\ h.node[i] = [object |-> h.node[i].object, next |-> h.node[i].next]
         /\ h.node[i].object \in Object /\ h.node[i].next \in Pointer
  BY <1>3 DEF Node
<1>5. h.allocated \in Nat /\ 1 .. h.allocated \subseteq Cell
  BY <1>1, Sizes DEF Cell
<1>6. DOMAIN h.cell = Cell /\ \A c \in Cell : h.cell[c].object \in Owner /\ h.cell[c].next \in Pointer
  BY <1>1
<1> QED BY <1>2, <1>4, <1>5, <1>6

LEMMA NodeFacts ==
    ASSUME NEW h \in Heap, NEW i \in 1 .. Len(h.node)
    PROVE  /\ Len(h.node) \in Nat /\ i \in Nat
           /\ h.node[i].object \in Object /\ h.node[i].object \in Owner
           /\ h.node[i].object \in Nat /\ h.node[i].object # NULL
           /\ h.node[i].next \in Pointer
<1>1. Len(h.node) \in Nat /\ h.node[i].object \in Object /\ h.node[i].next \in Pointer
  BY HeapFacts
<1>2. i \in Nat
  BY <1>1
<1> QED BY <1>1, <1>2, Sizes DEF Owner

-----------------------------------------------------------------------------
(* The search.                                                             *)
LEMMA CompareIs ==
    ASSUME AddressesAreNear, NEW a \in Object, NEW b \in Object
    PROVE  a \in Nat /\ b \in Nat /\ Compare(a, b) = a - b
<1>1. a \in Int /\ b \in Int /\ a \in Nat /\ b \in Nat /\ IntMax \in Nat
  BY Sizes
<1>2. a - b <= IntMax /\ b - a <= IntMax
  BY DEF AddressesAreNear
<1> QED BY <1>1, <1>2 DEF Compare, IntRange

Spans(h) == [low : 0 .. Len(h.node), cur : 0 .. Len(h.node), high : 0 .. Len(h.node)]

Difference(h, o, s) == Compare(o, h.node[Middle(s) + 1].object)

SearchedIn(h, o, f, s) ==
    IF s.low >= s.high
    THEN [found |-> FALSE, index |-> 1 + (IF s.cur < s.low THEN s.cur + 1 ELSE s.cur)]
    ELSE IF Difference(h, o, s) = 0 THEN [found |-> TRUE, index |-> Middle(s) + 1]
    ELSE f[IF Difference(h, o, s) < 0 THEN Lower(s) ELSE Upper(s)]

LEMMA SearchedInIs ==
    ASSUME NEW h \in Heap, AddressesAreNear, NEW o \in Object, NEW s \in Spans(h), NEW f
    PROVE  LET x == h.node[Middle(s) + 1].object
           IN  /\ s.low >= s.high =>
                    SearchedIn(h, o, f, s) =
                      [found |-> FALSE, index |-> 1 + (IF s.cur < s.low THEN s.cur + 1 ELSE s.cur)]
               /\ s.low < s.high =>
                    /\ Middle(s) \in s.low .. s.high - 1 /\ Middle(s) + 1 \in 1 .. Len(h.node)
                    /\ x \in Object
                    /\ o = x => SearchedIn(h, o, f, s) = [found |-> TRUE, index |-> Middle(s) + 1]
                    /\ o < x => SearchedIn(h, o, f, s) = f[Lower(s)]
                    /\ o > x => SearchedIn(h, o, f, s) = f[Upper(s)]
               /\ s.low < s.high =>
                    /\ Lower(s) \in Spans(h) /\ Lower(s).high - Lower(s).low < s.high - s.low
                    /\ Upper(s) \in Spans(h) /\ Upper(s).high - Upper(s).low < s.high - s.low
<1> DEFINE n == Len(h.node)
           c == Middle(s)
           x == h.node[c + 1].object
<1>1. n \in Nat
  BY HeapFacts
<1>2. s.low \in 0 .. n /\ s.cur \in 0 .. n /\ s.high \in 0 .. n
      /\ s = [low |-> s.low, cur |-> s.cur, high |-> s.high]
  BY DEF Spans
<1> HIDE DEF n
<1>3. CASE s.low >= s.high
  <2>1. ~(s.low < s.high)
    BY <1>1, <1>2, <1>3
  <2> QED BY <1>3, <2>1, Zenon DEF SearchedIn
<1>4. CASE s.low < s.high
  <2>1. c \in s.low .. s.high - 1 /\ c \in 0 .. n /\ c + 1 \in 0 .. n /\ c + 1 \in 1 .. n
    BY <1>1, <1>2, <1>4 DEF Middle
  <2> HIDE DEF c
  <2>2. x \in Object
    BY <2>1, HeapFacts DEF n
  <2> DEFINE d == Compare(o, x)
  <2>3. d = o - x /\ o \in Nat /\ x \in Nat
    BY <2>2, CompareIs
  <2>5. /\ Lower(s) \in Spans(h) /\ Lower(s).high = c /\ Lower(s).low = s.low
        /\ Upper(s) \in Spans(h) /\ Upper(s).high = s.high /\ Upper(s).low = c + 1
    BY <1>2, <2>1 DEF Lower, Upper, Spans, c, n
  <2>6. /\ Lower(s).high - Lower(s).low < s.high - s.low
        /\ Upper(s).high - Upper(s).low < s.high - s.low
    BY <1>1, <1>2, <2>1, <2>5
  <2>7. SearchedIn(h, o, f, s) =
           IF s.low >= s.high
           THEN [found |-> FALSE, index |-> 1 + (IF s.cur < s.low THEN s.cur + 1 ELSE s.cur)]
           ELSE IF d = 0 THEN [found |-> TRUE, index |-> c + 1]
           ELSE f[IF d < 0 THEN Lower(s) ELSE Upper(s)]
    BY DEF SearchedIn, Difference, c
  <2>8. ~(s.low >= s.high)
    BY <1>1, <1>2, <1>4
  <2> HIDE DEF d
  <2>9. CASE o = x
    <3>1. d = 0 /\ ~(d < 0) /\ ~(d > 0) /\ ~(o < x) /\ ~(o > x)
      BY <2>3, <2>9
    <3>2. SearchedIn(h, o, f, s) = [found |-> TRUE, index |-> c + 1]
      BY <1>4, <2>7, <2>8, <3>1, Zenon
    <3> QED BY <2>1, <2>2, <2>5, <2>6, <2>8, <3>1, <3>2 DEF n, c
  <2>10. CASE o < x
    <3>1. d # 0 /\ d < 0 /\ ~(d > 0) /\ ~(o = x) /\ ~(o > x)
      BY <2>3, <2>10
    <3>2. SearchedIn(h, o, f, s) = f[Lower(s)]
      BY <1>4, <2>7, <2>8, <3>1, Zenon
    <3> QED BY <2>1, <2>2, <2>5, <2>6, <2>8, <3>1, <3>2 DEF n, c
  <2>11. CASE o > x
    <3>1. d # 0 /\ ~(d < 0) /\ d > 0 /\ ~(o = x) /\ ~(o < x)
      BY <2>3, <2>11
    <3>2. SearchedIn(h, o, f, s) = f[Upper(s)]
      BY <1>4, <2>7, <2>8, <3>1, Zenon
    <3> QED BY <2>1, <2>2, <2>5, <2>6, <2>8, <3>1, <3>2 DEF n, c
  <2> QED BY <2>3, <2>9, <2>10, <2>11
<1> QED BY <1>1, <1>2, <1>3, <1>4

SearchedUntil(h, o, n, f) ==
    f = [s \in Spans(h) |-> IF s.high - s.low > n THEN <<>> ELSE SearchedIn(h, o, f, s)]

LEMMA SearchExists ==
    ASSUME NEW h \in Heap, AddressesAreNear, NEW o \in Object
    PROVE  \E f : SearchedUntil(h, o, Len(h.node), f)
<1> DEFINE T == {m \in Int : \E f : SearchedUntil(h, o, m, f)}
           U == {m \in Nat : m \in T}
<1>1. ASSUME NEW s \in Spans(h) PROVE s.high - s.low \in Int
  BY HeapFacts DEF Spans
<1>2. ASSUME NEW m \in Nat \cup {-1}, m \in T PROVE m + 1 \in T
  <2>1. PICK f : SearchedUntil(h, o, m, f)
    BY <1>2
  <2> DEFINE g == [s \in Spans(h) |->
                     IF s.high - s.low = m + 1 THEN SearchedIn(h, o, f, s) ELSE f[s]]
  <2>2. ASSUME NEW s \in Spans(h)
        PROVE  /\ g[s] = IF s.high - s.low = m + 1 THEN SearchedIn(h, o, f, s) ELSE f[s]
               /\ f[s] = IF s.high - s.low > m THEN <<>> ELSE SearchedIn(h, o, f, s)
    BY <2>1 DEF SearchedUntil
  <2>3. g = [s \in Spans(h) |-> g[s]]
    OBVIOUS
  <2> HIDE DEF g
  <2>4. ASSUME NEW s \in Spans(h), s.high - s.low <= m + 1
        PROVE  SearchedIn(h, o, g, s) = SearchedIn(h, o, f, s)
    <3>1. s.low \in Nat /\ s.high \in Nat
      BY HeapFacts DEF Spans
    <3>2. CASE s.low >= s.high
      <4> DEFINE q == [found |-> FALSE, index |-> 1 + (IF s.cur < s.low THEN s.cur + 1 ELSE s.cur)]
      <4>1. SearchedIn(h, o, f, s) = q
        BY <3>2, SearchedInIs
      <4>2. SearchedIn(h, o, g, s) = q
        BY <3>2, SearchedInIs
      <4> QED BY <4>1, <4>2
    <3>3. CASE s.low < s.high
      <4> DEFINE x == h.node[Middle(s) + 1].object
      <4>1. x \in Nat /\ o \in Nat
        BY <3>3, SearchedInIs, Sizes
      <4>2. g[Lower(s)] = f[Lower(s)]
        BY <1>1, <1>2, <2>2, <2>4, <3>1, <3>3, SearchedInIs
      <4>3. g[Upper(s)] = f[Upper(s)]
        BY <1>1, <1>2, <2>2, <2>4, <3>1, <3>3, SearchedInIs
      <4>4. /\ o = x => SearchedIn(h, o, g, s) = [found |-> TRUE, index |-> Middle(s) + 1]
            /\ o < x => SearchedIn(h, o, g, s) = g[Lower(s)]
            /\ o > x => SearchedIn(h, o, g, s) = g[Upper(s)]
        BY <3>3, SearchedInIs
      <4>5. /\ o = x => SearchedIn(h, o, f, s) = [found |-> TRUE, index |-> Middle(s) + 1]
            /\ o < x => SearchedIn(h, o, f, s) = f[Lower(s)]
            /\ o > x => SearchedIn(h, o, f, s) = f[Upper(s)]
        BY <3>3, SearchedInIs
      <4> HIDE DEF x
      <4>6. o = x \/ o < x \/ o > x
        BY <4>1
      <4> QED BY <4>2, <4>3, <4>4, <4>5, <4>6, Zenon
    <3> QED BY <3>1, <3>2, <3>3
  <2>5. ASSUME NEW s \in Spans(h)
        PROVE  g[s] = IF s.high - s.low > m + 1 THEN <<>> ELSE SearchedIn(h, o, g, s)
    <3>1. m \in Int /\ s.high - s.low \in Int
      BY <1>1, <1>2
    <3>2. CASE s.high - s.low > m + 1
      BY <2>2, <3>1, <3>2
    <3>3. CASE s.high - s.low = m + 1
      BY <2>2, <2>4, <3>1, <3>3
    <3>4. CASE s.high - s.low <= m
      BY <2>2, <2>4, <3>1, <3>4
    <3> QED BY <3>1, <3>2, <3>3, <3>4
  <2>6. SearchedUntil(h, o, m + 1, g)
    BY <2>3, <2>5 DEF SearchedUntil
  <2> QED BY <1>2, <2>6
<1>3. 0 \in U
  <2> DEFINE d == Len(h.node)
             N == {k \in Nat : -d - 1 + k \in Nat \cup {-1} \/ TRUE}
  <2>1. SearchedUntil(h, o, 0, [s \in Spans(h) |->
             IF s.high - s.low > 0 THEN <<>> ELSE SearchedIn(h, o, <<>>, s)])
    <3> DEFINE g == [s \in Spans(h) |->
                        IF s.high - s.low > 0 THEN <<>> ELSE SearchedIn(h, o, <<>>, s)]
    <3>1. ASSUME NEW s \in Spans(h), ~(s.high - s.low > 0), NEW f
          PROVE  SearchedIn(h, o, f, s) = SearchedIn(h, o, <<>>, s)
      <4>1. s.low \in Nat /\ s.high \in Nat
        BY HeapFacts DEF Spans
      <4>2. s.low >= s.high
        BY <3>1, <4>1
      <4> DEFINE q == [found |-> FALSE, index |-> 1 + (IF s.cur < s.low THEN s.cur + 1 ELSE s.cur)]
      <4>3. SearchedIn(h, o, f, s) = q
        BY <4>2, SearchedInIs
      <4>4. SearchedIn(h, o, <<>>, s) = q
        BY <4>2, SearchedInIs
      <4> QED BY <4>3, <4>4
    <3>2. \A s \in Spans(h) : (IF s.high - s.low > 0 THEN <<>> ELSE SearchedIn(h, o, <<>>, s))
             = IF s.high - s.low > 0 THEN <<>> ELSE SearchedIn(h, o, g, s)
      BY <3>1
    <3> QED BY <3>2 DEF SearchedUntil
  <2> QED BY <2>1
<1> HIDE DEF T
<1>4. \A m \in U : m \in Nat => m + 1 \in U
  BY <1>2
<1> HIDE DEF U
<1>5. Len(h.node) \in U
  <2>1. Nat \subseteq U
    BY <1>3, <1>4, Induct
  <2> QED BY <2>1, HeapFacts
<1> QED BY <1>5 DEF U, T

FoundAt(h, o, at) ==
    /\ at = [found |-> TRUE, index |-> at.index] /\ at.found = TRUE
    /\ at.index \in 1 .. Len(h.node) /\ h.node[at.index].object = o

MissingAt(h, o, at) ==
    /\ at.found = FALSE /\ at.index \in 1 .. Len(h.node) + 1
    /\ \A i \in 1 .. Len(h.node) :
          /\ i < at.index => h.node[i].object < o
          /\ i >= at.index => h.node[i].object > o

Around(h, o, s) ==
    /\ s.low <= s.high
    /\ s.low = s.high => s.cur = s.low - 1 \/ s.cur = s.high
    /\ \A i \in 1 .. Len(h.node) :
          /\ i <= s.low => h.node[i].object < o
          /\ i > s.high => h.node[i].object > o

LEMMA SearchStep ==
    ASSUME NEW h \in Heap, AddressesAreNear, InOrder(h), NEW o \in Object,
           NEW s \in Spans(h), Around(h, o, s), NEW search,
           search[s] = SearchedIn(h, o, search, s)
    PROVE  \/ FoundAt(h, o, search[s])
           \/ MissingAt(h, o, search[s])
           \/ \E r \in Spans(h) :
                 /\ r.high - r.low < s.high - s.low
                 /\ Around(h, o, r) /\ search[s] = search[r]
<1> DEFINE n == Len(h.node)
           x(i) == h.node[i].object
           c == Middle(s)
<1>1. n \in Nat /\ o \in Nat /\ \A i \in 1 .. n : x(i) \in Nat
  BY HeapFacts, Sizes
<1>2. ASSUME NEW i \in 1 .. n, NEW j \in 1 .. n PROVE i < j => x(i) < x(j)
  BY DEF InOrder
<1>3. s.low \in 0 .. n /\ s.cur \in 0 .. n /\ s.high \in 0 .. n
  BY DEF Spans
<1>4. /\ s.low <= s.high
      /\ s.low = s.high => s.cur = s.low - 1 \/ s.cur = s.high
      /\ \A i \in 1 .. n : (i <= s.low => x(i) < o) /\ (i > s.high => x(i) > o)
  BY DEF Around
<1> HIDE DEF n
<1>5. CASE s.low = s.high
  <2>1. s.low >= s.high
    BY <1>1, <1>3, <1>5
  <2>2. search[s] = [found |-> FALSE, index |-> 1 + (IF s.cur < s.low THEN s.cur + 1 ELSE s.cur)]
    BY <2>1, SearchedInIs
  <2>3. (1 + (IF s.cur < s.low THEN s.cur + 1 ELSE s.cur)) = s.low + 1
    BY <1>1, <1>3, <1>4, <1>5
  <2>4. search[s].found = FALSE /\ search[s].index = s.low + 1
    BY <2>2, <2>3
  <2>5. ASSUME NEW i \in 1 .. n
        PROVE  (i < s.low + 1 => x(i) < o) /\ (i >= s.low + 1 => x(i) > o)
    <3>1. (i < s.low + 1 => i <= s.low) /\ (i >= s.low + 1 => i > s.high)
      BY <1>1, <1>3, <1>5
    <3> HIDE DEF x
    <3> QED BY <1>4, <3>1
  <2>6. s.low + 1 \in 1 .. n + 1
    BY <1>1, <1>3
  <2>7. MissingAt(h, o, search[s])
    BY <2>4, <2>5, <2>6 DEF MissingAt, n
  <2> QED BY <2>7
<1>6. CASE s.low < s.high
  <2>1. /\ c \in s.low .. s.high - 1 /\ c + 1 \in 1 .. n
        /\ o = x(c + 1) => search[s] = [found |-> TRUE, index |-> c + 1]
        /\ o < x(c + 1) => search[s] = search[Lower(s)]
        /\ o > x(c + 1) => search[s] = search[Upper(s)]
    BY <1>6, SearchedInIs DEF n
  <2>2. /\ Lower(s) \in Spans(h) /\ Lower(s).high - Lower(s).low < s.high - s.low
        /\ Upper(s) \in Spans(h) /\ Upper(s).high - Upper(s).low < s.high - s.low
    BY <1>6, SearchedInIs
  <2>3. /\ Lower(s).low = s.low /\ Lower(s).cur = c /\ Lower(s).high = c
        /\ Upper(s).low = c + 1 /\ Upper(s).cur = c /\ Upper(s).high = s.high
    BY DEF Lower, Upper
  <2> HIDE DEF c
  <2>4. c \in Nat /\ s.low <= c /\ c + 1 <= s.high /\ x(c + 1) \in Nat
    BY <1>1, <1>3, <2>1
  <2>5. CASE o = x(c + 1)
    <3>1. search[s] = [found |-> TRUE, index |-> c + 1]
      BY <2>1, <2>5
    <3>2. FoundAt(h, o, search[s])
      <4>1. search[s].found = TRUE /\ search[s].index = c + 1
        BY <3>1
      <4> QED BY <2>1, <2>5, <3>1, <4>1 DEF FoundAt, n
    <3> QED BY <3>2
  <2>6. CASE o < x(c + 1)
    <3>1. ASSUME NEW i \in 1 .. n, i > c PROVE x(i) > o
      <4>1. i = c + 1 \/ c + 1 < i
        BY <1>1, <2>4, <3>1
      <4>2. x(i) \in Nat /\ (i = c + 1 \/ x(c + 1) < x(i))
        BY <1>1, <1>2, <2>1, <4>1
      <4> HIDE DEF x
      <4> QED BY <1>1, <2>4, <2>6, <4>2
    <3>2. s.low <= c /\ (s.low = c => c = s.low - 1 \/ c = c)
      BY <2>4
    <3>3. \A i \in 1 .. n : i <= s.low => x(i) < o
      BY <1>4
    <3>4. Around(h, o, Lower(s))
      BY <2>3, <3>1, <3>2, <3>3 DEF Around, n
    <3> QED BY <2>1, <2>2, <2>6, <3>4
  <2>7. CASE o > x(c + 1)
    <3>1. ASSUME NEW i \in 1 .. n, i <= c + 1 PROVE x(i) < o
      <4>1. i = c + 1 \/ i < c + 1
        BY <1>1, <2>4, <3>1
      <4>2. x(i) \in Nat /\ (i = c + 1 \/ x(i) < x(c + 1))
        BY <1>1, <1>2, <2>1, <4>1
      <4> HIDE DEF x
      <4> QED BY <1>1, <2>4, <2>7, <4>2
    <3>2. c + 1 <= s.high /\ c = (c + 1) - 1
      BY <2>4
    <3>3. \A i \in 1 .. n : i > s.high => x(i) > o
      BY <1>4
    <3>4. Around(h, o, Upper(s))
      BY <2>3, <3>1, <3>2, <3>3 DEF Around, n
    <3> QED BY <2>1, <2>2, <2>7, <3>4
  <2> QED BY <1>1, <2>4, <2>5, <2>6, <2>7
<1> QED BY <1>3, <1>4, <1>5, <1>6

(* The search finds the node of an object, or the place where it belongs.  *)
LEMMA FindIs ==
    ASSUME NEW h \in Heap, AddressesAreNear, InOrder(h), NEW o \in Object
    PROVE  \/ FoundAt(h, o, Find(h, o)) /\ HasNode(h, o)
           \/ MissingAt(h, o, Find(h, o)) /\ ~HasNode(h, o)
<1> DEFINE n == Len(h.node)
           search == CHOOSE f : SearchedUntil(h, o, n, f)
           whole == [low |-> 0, cur |-> 0, high |-> n]
           Done(at) == FoundAt(h, o, at) \/ MissingAt(h, o, at)
           T == {m \in Nat : \A s \in Spans(h) :
                    s.high - s.low <= m /\ Around(h, o, s) => Done(search[s])}
<1>1. n \in Nat
  BY HeapFacts
<1>2. Find(h, o) = search[whole]
  <2>1. \A s \in Spans(h) : ~(s.high - s.low > n)
    BY <1>1 DEF Spans
  <2>2. \A f : SearchedUntil(h, o, n, f) <=> f = [s \in Spans(h) |-> SearchedIn(h, o, f, s)]
    BY <2>1 DEF SearchedUntil
  <2>3. search = CHOOSE f : f = [s \in Spans(h) |-> SearchedIn(h, o, f, s)]
    BY <2>2
  <2> HIDE DEF search
  <2>4. Find(h, o) = (CHOOSE f : f = [s \in Spans(h) |-> SearchedIn(h, o, f, s)])[whole]
    BY Zenon DEF Find, SearchedIn, Difference, Spans
  <2> QED BY <2>3, <2>4
<1>3. ASSUME NEW s \in Spans(h) PROVE search[s] = SearchedIn(h, o, search, s)
  <2>1. SearchedUntil(h, o, n, search)
    BY SearchExists
  <2>2. ~(s.high - s.low > n)
    BY <1>1 DEF Spans
  <2> HIDE DEF search
  <2> QED BY <2>1, <2>2 DEF SearchedUntil
<1> HIDE DEF search, Done
<1>4. ASSUME NEW s \in Spans(h), Around(h, o, s)
      PROVE  \/ Done(search[s])
             \/ \E r \in Spans(h) :
                   r.high - r.low < s.high - s.low /\ Around(h, o, r) /\ search[s] = search[r]
  BY <1>3, <1>4, SearchStep DEF Done
<1>5. \A s \in Spans(h) : s.low \in Nat /\ s.high \in Nat
  BY <1>1 DEF Spans
<1>6. 0 \in T
  <2>1. ASSUME NEW s \in Spans(h), s.high - s.low <= 0, Around(h, o, s) PROVE Done(search[s])
    <3>1. \A r \in Spans(h) : r.high - r.low < s.high - s.low => ~Around(h, o, r)
      BY <1>5, <2>1 DEF Around
    <3> QED BY <1>4, <2>1, <3>1
  <2> QED BY <2>1
<1>7. ASSUME NEW m \in T, m \in Nat PROVE m + 1 \in T
  <2>1. ASSUME NEW s \in Spans(h), s.high - s.low <= m + 1, Around(h, o, s)
        PROVE  Done(search[s])
    <3>1. \A r \in Spans(h) : r.high - r.low < s.high - s.low => r.high - r.low <= m
      BY <1>5, <1>7, <2>1
    <3> QED BY <1>4, <1>7, <2>1, <3>1
  <2> QED BY <1>7, <2>1
<1>8. Done(search[whole])
  <2>1. whole \in Spans(h) /\ whole.high - whole.low <= n
    BY <1>1 DEF Spans
  <2>2. Around(h, o, whole)
    BY <1>1 DEF Around
  <2>3. n \in T
    <3> HIDE DEF T
    <3> QED BY <1>1, <1>6, <1>7, Induct
  <2> HIDE DEF whole
  <2> QED BY <2>1, <2>2, <2>3
<1>9. CASE FoundAt(h, o, Find(h, o))
  BY <1>9 DEF HasNode, FoundAt
<1>10. CASE MissingAt(h, o, Find(h, o))
  <2>1. ASSUME NEW i \in 1 .. n PROVE h.node[i].object # o
    <3>1. Find(h, o).index \in 1 .. n + 1
      BY <1>10 DEF MissingAt
    <3>2. i < Find(h, o).index \/ i >= Find(h, o).index
      BY <1>1, <3>1
    <3>3. h.node[i].object < o \/ h.node[i].object > o
      BY <1>10, <3>2 DEF MissingAt
    <3>4. h.node[i].object \in Nat /\ o \in Nat
      BY HeapFacts, Sizes
    <3> QED BY <3>3, <3>4
  <2> QED BY <1>10, <2>1 DEF HasNode
<1> QED BY <1>2, <1>8, <1>9, <1>10 DEF Done

-----------------------------------------------------------------------------
(* What a heap holds is what is owned.                                     *)
LEMMA OwnedFacts ==
    ASSUME NEW h, NEW own, IsSound(h, own), NEW o \in Owner
    PROVE  /\ own[o].n \in 0 .. MaxCells /\ own[o].n \in Nat
           /\ own[o].n <= h.allocated
           /\ \A k \in 1 .. own[o].n : own[o].at[k] \in Cell /\ own[o].at[k] \in 1 .. h.allocated
           /\ o # NULL => own[o].n <= h.n_used
<1>1. h \in Heap /\ OwnedOnce(h, own) /\ Counted(h, own)
  BY DEF IsSound
<1>2. h.allocated \in Nat /\ 1 .. h.allocated \subseteq Cell /\ h.allocated <= MaxCells
  BY <1>1, HeapFacts, Sizes DEF Heap
<1>3. PICK p \in Owner : p # o /\ (o # NULL => p = NULL)
  BY AddressAssumption, Sizes DEF AddressAssumption, Owner
<1>4. own[o].n \in Nat /\ own[p].n \in Nat /\ own[o].n + own[p].n <= h.allocated
  BY <1>1, <1>2, <1>3, TwoLists
<1>5. o # NULL => own[o].n <= h.n_used
  BY <1>1, <1>2, <1>3, <1>4 DEF Counted
<1>6. own[o].n <= h.allocated /\ own[o].n <= MaxCells /\ own[o].n \in 0 .. MaxCells
  BY <1>2, <1>4, Sizes
<1>7. \A k \in 1 .. own[o].n : own[o].at[k] \in 1 .. h.allocated
  BY <1>1 DEF OwnedOnce
<1> QED BY <1>2, <1>4, <1>5, <1>6, <1>7

LEMMA ListIs ==
    ASSUME NEW h, NEW own, IsSound(h, own)
    PROVE  /\ Chain(h, h.freed) = Places(own[NULL])
           /\ \A i \in 1 .. Len(h.node) :
                 /\ h.node[i].object \in Object
                 /\ List(h, i) = Places(own[h.node[i].object])
<1>1. h \in Heap /\ Linked(h, own)
  BY DEF IsSound
<1>2. Chain(h, h.freed) = Places(own[NULL])
  <2>1. NULL \in Owner
    BY DEF Owner
  <2>2. own[NULL].n \in 0 .. MaxCells /\ \A k \in 1 .. own[NULL].n : own[NULL].at[k] \in Cell
    BY <2>1, OwnedFacts
  <2>3. IsPath(h.cell, h.freed, own[NULL])
    BY <1>1 DEF Linked
  <2> QED BY <1>1, <2>2, <2>3, ChainIs
<1>3. ASSUME NEW i \in 1 .. Len(h.node)
      PROVE  /\ h.node[i].object \in Object
             /\ List(h, i) = Places(own[h.node[i].object])
  <2> DEFINE o == h.node[i].object
  <2>1. o \in Object /\ o \in Owner
    BY <1>1, HeapFacts DEF Owner
  <2>2. own[o].n \in 0 .. MaxCells /\ \A k \in 1 .. own[o].n : own[o].at[k] \in Cell
    BY <2>1, OwnedFacts
  <2>3. IsPath(h.cell, h.node[i].next, own[o])
    BY <1>1 DEF Linked
  <2>4. Chain(h, h.node[i].next) = Places(own[o])
    BY <1>1, <2>2, <2>3, ChainIs
  <2> QED BY <2>1, <2>4 DEF List
<1> QED BY <1>2, <1>3

LEMMA NamesFacts ==
    ASSUME NEW h, NEW own, IsSound(h, own), NEW o \in Object
    PROVE  /\ Names(h, own[o]) \in Seq(Object)
           /\ Len(Names(h, own[o])) = own[o].n
           /\ Named(h, own)[o] = Names(h, own[o])
           /\ \A k \in 1 .. own[o].n : Names(h, own[o])[k] = h.cell[own[o].at[k]].object
<1>1. own[o].n \in Nat
  BY OwnedFacts DEF Owner
<1>2. \A k \in 1 .. own[o].n : h.cell[own[o].at[k]].object \in Object
  BY DEF IsSound, Linked
<1> DEFINE n == own[o].n
           x(k) == h.cell[own[o].at[k]].object
<1>3. Names(h, own[o]) = [k \in 1 .. n |-> x(k)]
  BY DEF Names
<1> HIDE DEF n, x
<1>4. /\ [k \in 1 .. n |-> x(k)] \in Seq(Object)
      /\ Len([k \in 1 .. n |-> x(k)]) = n
  BY <1>1, <1>2 DEF n, x
<1> QED BY <1>3, <1>4 DEF Named, n, x

(* The lists that callers see are what the owned cells name.               *)
LEMMA RelatedIs ==
    ASSUME NEW h, NEW own, IsSound(h, own), AddressesAreNear, NEW o \in Object
    PROVE  Related(h, o) = Names(h, own[o])
<1>1. h \in Heap /\ InOrder(h) /\ Linked(h, own)
  BY DEF IsSound
<1>2. CASE FoundAt(h, o, Find(h, o))
  <2>1. Find(h, o).found /\ Find(h, o).index \in 1 .. Len(h.node) /\ h.node[Find(h, o).index].object = o
    BY <1>2 DEF FoundAt
  <2>2. List(h, Find(h, o).index) = Places(own[o])
    BY <2>1, ListIs
  <2> QED BY <2>1, <2>2 DEF Related, Places, Names
<1>3. CASE MissingAt(h, o, Find(h, o)) /\ ~HasNode(h, o)
  <2>1. ~Find(h, o).found
    BY <1>3 DEF MissingAt
  <2>2. own[o].n = 0
    BY <1>1, <1>3 DEF Linked
  <2>3. Related(h, o) = <<>> /\ Names(h, own[o]) = <<>>
    BY <2>1, <2>2 DEF Related, Names
  <2> QED BY <2>3
<1> QED BY <1>1, <1>2, <1>3, FindIs

LEMMA ListsAre ==
    ASSUME NEW h, NEW own, IsSound(h, own), AddressesAreNear
    PROVE  /\ Lists(h) = Named(h, own)
           /\ Lists(h) \in [Object -> Seq(Object)]
<1>1. \A o \in Object : Related(h, o) = Names(h, own[o]) /\ Names(h, own[o]) \in Seq(Object)
  BY RelatedIs, NamesFacts
<1> QED BY <1>1 DEF Lists, Named

(* An object has at most one node.                                         *)
LEMMA OneNode ==
    ASSUME NEW h \in Heap, InOrder(h), NEW i \in 1 .. Len(h.node), NEW j \in 1 .. Len(h.node),
           h.node[i].object = h.node[j].object
    PROVE  i = j
<1>1. h.node[i].object \in Nat /\ h.node[j].object \in Nat /\ i \in Nat /\ j \in Nat
  BY NodeFacts
<1>2. i < j \/ j < i \/ i = j
  BY <1>1
<1> QED BY <1>1, <1>2 DEF InOrder

-----------------------------------------------------------------------------
(* A cell leaves a list and is freed.                                      *)
SameNodes(h, g) ==
    /\ Len(g.node) = Len(h.node)
    /\ \A i \in 1 .. Len(h.node) : g.node[i].object = h.node[i].object

(* The pointer that leads to the k-th cell of the list of a node.          *)
Before(h, own, i, k) == IF k = 1 THEN -i ELSE own[h.node[i].object].at[k - 1]

Removed(s, k) ==
    [n |-> s.n - 1, at |-> [l \in 1 .. s.n - 1 |-> IF l < k THEN s.at[l] ELSE s.at[l + 1]]]

Fronted(c, s) ==
    [n |-> s.n + 1, at |-> [l \in 1 .. s.n + 1 |-> IF l = 1 THEN c ELSE s.at[l - 1]]]

(* Cells taken from, and put in front of, what an object owns.             *)
LEMMA RemovedIs ==
    ASSUME NEW s, NEW k
    PROVE  /\ Removed(s, k).n = s.n - 1
           /\ \A l \in 1 .. s.n - 1 : Removed(s, k).at[l] = IF l < k THEN s.at[l] ELSE s.at[l + 1]
  BY DEF Removed

LEMMA FrontedIs ==
    ASSUME NEW s, NEW c
    PROVE  /\ Fronted(c, s).n = s.n + 1
           /\ \A l \in 1 .. s.n + 1 : Fronted(c, s).at[l] = IF l = 1 THEN c ELSE s.at[l - 1]
  BY DEF Fronted

OwnedWithout(own, a, k) ==
    [o \in Owner |-> IF o = a THEN Removed(own[a], k)
                     ELSE IF o = NULL THEN Fronted(own[a].at[k], own[NULL])
                     ELSE own[o]]

(* Writing a pointer, of a node or of a cell, writes nothing else.         *)
LEMMA SetNextIs ==
    ASSUME NEW h \in Heap, NEW q \in Pointer
    PROVE  /\ \A i \in 1 .. Len(h.node) :
                 /\ SetNext(h, -i, q) \in Heap
                 /\ SetNext(h, -i, q) = [h EXCEPT !.node = SetNext(h, -i, q).node]
                 /\ Len(SetNext(h, -i, q).node) = Len(h.node)
                 /\ \A j \in 1 .. Len(h.node) :
                       /\ SetNext(h, -i, q).node[j].object = h.node[j].object
                       /\ SetNext(h, -i, q).node[j].next = IF j = i THEN q ELSE h.node[j].next
                 /\ NextOf(h, -i) = h.node[i].next
           /\ \A p \in Cell :
                 /\ SetNext(h, p, q) \in Heap
                 /\ SetNext(h, p, q) = [h EXCEPT !.cell = SetNext(h, p, q).cell]
                 /\ \A d \in Cell :
                       /\ SetNext(h, p, q).cell[d].object = h.cell[d].object
                       /\ SetNext(h, p, q).cell[d].next = IF d = p THEN q ELSE h.cell[d].next
                 /\ NextOf(h, p) = h.cell[p].next
<1>1. ASSUME NEW i \in 1 .. Len(h.node)
      PROVE  /\ SetNext(h, -i, q) \in Heap
             /\ SetNext(h, -i, q) = [h EXCEPT !.node = SetNext(h, -i, q).node]
             /\ Len(SetNext(h, -i, q).node) = Len(h.node)
             /\ \A j \in 1 .. Len(h.node) :
                   /\ SetNext(h, -i, q).node[j].object = h.node[j].object
                   /\ SetNext(h, -i, q).node[j].next = IF j = i THEN q ELSE h.node[j].next
             /\ NextOf(h, -i) = h.node[i].next
  <2>1. -i < 0 /\ -(-i) = i
    BY HeapFacts
  <2> DEFINE s == [h.node EXCEPT ![i].next = q]
             g == [h EXCEPT !.node = s]
  <2>2. SetNext(h, -i, q) = g /\ NextOf(h, -i) = h.node[i].next
    BY <2>1 DEF SetNext, NextOf
  <2>3. h.node \in Seq(Node) /\ h.node[i] \in Node
    BY DEF Heap
  <2>4. [h.node[i] EXCEPT !.next = q] \in Node
    BY <2>3 DEF Node
  <2>5. s \in Seq(Node) /\ Len(s) = Len(h.node)
    BY <2>3, <2>4
  <2>6. \A j \in 1 .. Len(h.node) :
           s[j].object = h.node[j].object /\ s[j].next = IF j = i THEN q ELSE h.node[j].next
    BY <2>3 DEF Node
  <2> HIDE DEF s
  <2>7. g \in Heap /\ g.node = s
    BY <2>5 DEF Heap
  <2> HIDE DEF g
  <2>8. SetNext(h, -i, q) = [h EXCEPT !.node = SetNext(h, -i, q).node]
    BY <2>2, <2>7 DEF g
  <2> QED BY <2>2, <2>5, <2>6, <2>7, <2>8
<1>2. ASSUME NEW p \in Cell
      PROVE  /\ SetNext(h, p, q) \in Heap
             /\ SetNext(h, p, q) = [h EXCEPT !.cell = SetNext(h, p, q).cell]
             /\ \A d \in Cell :
                   /\ SetNext(h, p, q).cell[d].object = h.cell[d].object
                   /\ SetNext(h, p, q).cell[d].next = IF d = p THEN q ELSE h.cell[d].next
             /\ NextOf(h, p) = h.cell[p].next
  <2>1. ~(p < 0)
    BY Sizes
  <2> DEFINE s == [h.cell EXCEPT ![p].next = q]
             g == [h EXCEPT !.cell = s]
  <2>2. SetNext(h, p, q) = g /\ NextOf(h, p) = h.cell[p].next
    BY <2>1 DEF SetNext, NextOf
  <2>3. h.cell \in [Cell -> [object : Owner, next : Pointer]]
    BY DEF Heap
  <2>4. s \in [Cell -> [object : Owner, next : Pointer]]
    BY <2>3
  <2>5. \A d \in Cell :
           s[d].object = h.cell[d].object /\ s[d].next = IF d = p THEN q ELSE h.cell[d].next
    BY <2>3
  <2> HIDE DEF s
  <2>6. g \in Heap /\ g.cell = s
    BY <2>4 DEF Heap
  <2> HIDE DEF g
  <2>7. SetNext(h, p, q) = [h EXCEPT !.cell = SetNext(h, p, q).cell]
    BY <2>2, <2>6 DEF g
  <2> QED BY <2>2, <2>5, <2>6, <2>7
<1> QED BY <1>1, <1>2

(* The pool takes a cell back.                                             *)
LEMMA PoolFreeIs ==
    ASSUME NEW h \in Heap, NEW c \in Cell
    PROVE  LET g == PoolFree(h, c)
           IN  /\ g \in Heap /\ g.node = h.node /\ g.capacity = h.capacity
               /\ g.allocated = h.allocated /\ g.freed = c
               /\ g.n_freed = h.n_freed + 1 /\ g.n_used = h.n_used - 1
               /\ g.cell[c].object = NULL /\ g.cell[c].next = h.freed
               /\ \A d \in Cell : d # c => g.cell[d] = h.cell[d]
<1> DEFINE s == [h.cell EXCEPT ![c] = [object |-> NULL, next |-> h.freed]]
<1>1. h.cell \in [Cell -> [object : Owner, next : Pointer]] /\ h.freed \in Pointer
      /\ h.n_freed \in Int /\ h.n_used \in Int
  BY DEF Heap
<1>2. /\ s \in [Cell -> [object : Owner, next : Pointer]]
      /\ s[c].object = NULL /\ s[c].next = h.freed
      /\ \A d \in Cell : d # c => s[d] = h.cell[d]
  BY <1>1 DEF Owner
<1>3. PoolFree(h, c) = [h EXCEPT !.cell = s, !.freed = c, !.n_freed = h.n_freed + 1,
                                 !.n_used = h.n_used - 1]
  BY DEF PoolFree, Heap
<1> HIDE DEF s
<1>4. c \in Pointer /\ h.n_freed + 1 \in Int /\ h.n_used - 1 \in Int
  BY <1>1 DEF Pointer
<1> QED BY <1>2, <1>3, <1>4 DEF Heap

IsUnlinked(h, own, i, k, g) ==
    LET s == own[h.node[i].object]
        c == s.at[k]
    IN  /\ g \in Heap /\ SameNodes(h, g) /\ g.capacity = h.capacity
        /\ g.allocated = h.allocated /\ g.freed = c
        /\ g.n_freed = h.n_freed + 1 /\ g.n_used = h.n_used - 1
        /\ \A j \in 1 .. Len(h.node) :
              g.node[j].next = IF k = 1 /\ j = i THEN h.cell[c].next ELSE h.node[j].next
        /\ \A d \in Cell : g.cell[d].object = IF d = c THEN NULL ELSE h.cell[d].object
        /\ \A d \in Cell :
              g.cell[d].next = IF d = c THEN h.freed
                               ELSE IF k > 1 /\ d = s.at[k - 1] THEN h.cell[c].next
                               ELSE h.cell[d].next

(* One cell of a list is unlinked and freed, field by field.               *)
LEMMA UnlinkedIs ==
    ASSUME NEW h, NEW own, IsSound(h, own), NEW i \in 1 .. Len(h.node),
           NEW k \in 1 .. own[h.node[i].object].n
    PROVE  IsUnlinked(h, own, i, k,
              Unlinked(h, Before(h, own, i, k), own[h.node[i].object].at[k]))
<1> DEFINE s == own[h.node[i].object]
           c == s.at[k]
           q == h.cell[c].next
           prev == Before(h, own, i, k)
           f == SetNext(h, prev, q)
           g == PoolFree(f, c)
<1>1. h \in Heap
  BY DEF IsSound
<1>2. s.n \in Nat /\ \A l \in 1 .. s.n : s.at[l] \in Cell
  BY <1>1, NodeFacts, OwnedFacts
<1>3. c \in Cell /\ q \in Pointer
  BY <1>1, <1>2, HeapFacts
<1>4. NextOf(h, c) = q
  BY <1>1, <1>3, SetNextIs
<1>5. Unlinked(h, prev, c) = g
  BY <1>4 DEF Unlinked
<1>6. /\ f \in Heap /\ f.allocated = h.allocated /\ f.capacity = h.capacity
      /\ f.n_freed = h.n_freed /\ f.n_used = h.n_used /\ f.freed = h.freed
      /\ Len(f.node) = Len(h.node)
      /\ \A j \in 1 .. Len(h.node) :
            /\ f.node[j].object = h.node[j].object
            /\ f.node[j].next = IF k = 1 /\ j = i THEN q ELSE h.node[j].next
      /\ \A d \in Cell :
            /\ f.cell[d].object = h.cell[d].object
            /\ f.cell[d].next = IF k > 1 /\ d = s.at[k - 1] THEN q ELSE h.cell[d].next
  <2>1. CASE k = 1
    <3>1. f = SetNext(h, -i, q)
      BY <2>1 DEF Before
    <3>2. /\ f \in Heap /\ f = [h EXCEPT !.node = f.node] /\ Len(f.node) = Len(h.node)
          /\ \A j \in 1 .. Len(h.node) :
                /\ f.node[j].object = h.node[j].object
                /\ f.node[j].next = IF j = i THEN q ELSE h.node[j].next
      <4> HIDE DEF f, q
      <4> QED BY <1>1, <1>3, <3>1, SetNextIs
    <3> HIDE DEF f
    <3>3. /\ f.allocated = h.allocated /\ f.capacity = h.capacity /\ f.cell = h.cell
          /\ f.n_freed = h.n_freed /\ f.n_used = h.n_used /\ f.freed = h.freed
      BY <1>1, <3>2 DEF Heap
    <3> QED BY <2>1, <3>2, <3>3
  <2>2. CASE k # 1
    <3>1. k - 1 \in 1 .. s.n /\ k > 1
      BY <1>2, <2>2
    <3>2. s.at[k - 1] \in Cell /\ f = SetNext(h, s.at[k - 1], q)
      BY <1>2, <2>2, <3>1 DEF Before
    <3>3. /\ f \in Heap /\ f = [h EXCEPT !.cell = f.cell]
          /\ \A d \in Cell :
                /\ f.cell[d].object = h.cell[d].object
                /\ f.cell[d].next = IF d = s.at[k - 1] THEN q ELSE h.cell[d].next
      <4> DEFINE p == s.at[k - 1]
      <4> HIDE DEF f, q, p
      <4>1. p \in Cell /\ f = SetNext(h, p, q)
        BY <3>2 DEF p
      <4>2. /\ f \in Heap /\ f = [h EXCEPT !.cell = f.cell]
            /\ \A d \in Cell :
                  /\ f.cell[d].object = h.cell[d].object
                  /\ f.cell[d].next = IF d = p THEN q ELSE h.cell[d].next
        BY <1>1, <1>3, <4>1, SetNextIs
      <4> QED BY <4>2 DEF p
    <3> HIDE DEF f
    <3>4. /\ f.allocated = h.allocated /\ f.capacity = h.capacity /\ f.node = h.node
          /\ f.n_freed = h.n_freed /\ f.n_used = h.n_used /\ f.freed = h.freed
      BY <1>1, <3>3 DEF Heap
    <3> QED BY <2>2, <3>1, <3>3, <3>4
  <2> QED BY <2>1, <2>2
<1> HIDE DEF f, q
<1>7. /\ g \in Heap /\ g.node = f.node /\ g.capacity = f.capacity
      /\ g.allocated = f.allocated /\ g.freed = c
      /\ g.n_freed = f.n_freed + 1 /\ g.n_used = f.n_used - 1
      /\ g.cell[c].object = NULL /\ g.cell[c].next = f.freed
      /\ \A d \in Cell : d # c => g.cell[d] = f.cell[d]
  BY <1>3, <1>6, PoolFreeIs
<1> HIDE DEF g
<1>8. /\ \A d \in Cell : g.cell[d].object = IF d = c THEN NULL ELSE h.cell[d].object
      /\ \A d \in Cell :
            g.cell[d].next = IF d = c THEN h.freed
                             ELSE IF k > 1 /\ d = s.at[k - 1] THEN q
                             ELSE h.cell[d].next
  <2> HIDE DEF c, s
  <2>1. ASSUME NEW d \in Cell
        PROVE  /\ g.cell[d].object = IF d = c THEN NULL ELSE h.cell[d].object
               /\ g.cell[d].next = IF d = c THEN h.freed
                                   ELSE IF k > 1 /\ d = s.at[k - 1] THEN q
                                   ELSE h.cell[d].next
    <3>1. CASE d = c
      BY <1>6, <1>7, <3>1
    <3>2. CASE d # c
      <4>1. g.cell[d] = f.cell[d]
        BY <1>7, <3>2
      <4> QED BY <1>6, <3>2, <4>1
    <3> QED BY <3>1, <3>2
  <2> QED BY <2>1
<1>9. SameNodes(h, g)
  BY <1>6, <1>7 DEF SameNodes
<1>10. /\ g \in Heap /\ SameNodes(h, g) /\ g.capacity = h.capacity
       /\ g.allocated = h.allocated /\ g.freed = c
       /\ g.n_freed = h.n_freed + 1 /\ g.n_used = h.n_used - 1
       /\ \A j \in 1 .. Len(h.node) :
             g.node[j].next = IF k = 1 /\ j = i THEN q ELSE h.node[j].next
  BY <1>6, <1>7, <1>9
<1> QED BY <1>5, <1>8, <1>10 DEF q, IsUnlinked

(* The array of nodes stays as it was.                                     *)
LEMMA SameNodesFacts ==
    ASSUME NEW h \in Heap, NEW g \in Heap, SameNodes(h, g), InOrder(h)
    PROVE  InOrder(g) /\ \A o : HasNode(g, o) <=> HasNode(h, o)
  BY DEF SameNodes, InOrder, HasNode

(* The cell goes from the list to the freed ones: every cell still has one *)
(* owner...                                                                *)
LEMMA UnlinkedOwned ==
    ASSUME NEW h, NEW own, IsSound(h, own), NEW a \in Object, NEW k \in 1 .. own[a].n
    PROVE  OwnedOnce(h, OwnedWithout(own, a, k))
<1> DEFINE own2 == OwnedWithout(own, a, k)
           N == h.allocated
           from(o, l) == IF o = NULL /\ l = 1 THEN a ELSE o
           at(o, l) == IF o = a THEN IF l < k THEN l ELSE l + 1
                       ELSE IF o = NULL THEN IF l = 1 THEN k ELSE l - 1
                       ELSE l
<1>1. h \in Heap /\ OwnedOnce(h, own) /\ a # NULL /\ a \in Owner /\ NULL \in Owner
  BY Sizes DEF IsSound, Owner
<1>2. \A o \in Owner : own[o].n \in Nat /\ \A l \in 1 .. own[o].n : own[o].at[l] \in 1 .. N
  BY <1>1 DEF OwnedOnce
<1>3. \A o \in Owner : own2[o].n = IF o = a THEN own[a].n - 1
                                   ELSE IF o = NULL THEN own[NULL].n + 1 ELSE own[o].n
  BY <1>1 DEF OwnedWithout, Removed, Fronted
<1>4. ASSUME NEW o \in Owner, NEW l \in 1 .. own2[o].n
      PROVE  /\ from(o, l) \in Owner /\ at(o, l) \in 1 .. own[from(o, l)].n
             /\ own2[o].at[l] = own[from(o, l)].at[at(o, l)]
  <2>1. CASE o = a
    <3>1. own2[o] = Removed(own[a], k)
      BY <2>1 DEF OwnedWithout
    <3>2. l \in 1 .. own[a].n - 1
      BY <1>3, <2>1
    <3>3. own2[o].at[l] = IF l < k THEN own[a].at[l] ELSE own[a].at[l + 1]
      BY <3>1, <3>2 DEF Removed
    <3>4. at(o, l) \in 1 .. own[a].n
      BY <1>1, <1>2, <2>1, <3>2
    <3> QED BY <1>1, <2>1, <3>3, <3>4
  <2>2. CASE o = NULL
    <3>1. own2[o] = Fronted(own[a].at[k], own[NULL])
      BY <1>1, <2>2 DEF OwnedWithout
    <3>2. l \in 1 .. own[NULL].n + 1
      BY <1>1, <1>3, <2>2
    <3>3. own2[o].at[l] = IF l = 1 THEN own[a].at[k] ELSE own[NULL].at[l - 1]
      BY <3>1, <3>2 DEF Fronted
    <3>4. l = 1 \/ l - 1 \in 1 .. own[NULL].n
      BY <1>1, <1>2, <3>2
    <3> QED BY <1>1, <2>2, <3>3, <3>4
  <2>3. CASE o # a /\ o # NULL
    <3>1. own2[o] = own[o]
      BY <2>3 DEF OwnedWithout
    <3> QED BY <2>3, <3>1
  <2> QED BY <2>1, <2>2, <2>3
<1> HIDE DEF own2
<1>5. ASSUME NEW o \in Owner
      PROVE  own2[o].n \in Nat /\ \A l \in 1 .. own2[o].n : own2[o].at[l] \in 1 .. N
  <2>1. own2[o].n \in Nat
    BY <1>1, <1>2, <1>3
  <2> HIDE DEF from, at
  <2> QED BY <1>2, <1>4, <2>1
<1>6. ASSUME NEW o \in Owner, NEW p \in Owner, NEW l \in 1 .. own2[o].n, NEW m \in 1 .. own2[p].n,
             own2[o].at[l] = own2[p].at[m]
      PROVE  o = p /\ l = m
  <2>1. from(o, l) = from(p, m) /\ at(o, l) = at(p, m)
    <3> HIDE DEF from, at
    <3>1. own[from(o, l)].at[at(o, l)] = own[from(p, m)].at[at(p, m)]
      BY <1>4, <1>6
    <3>2. /\ from(o, l) \in Owner /\ at(o, l) \in 1 .. own[from(o, l)].n
          /\ from(p, m) \in Owner /\ at(p, m) \in 1 .. own[from(p, m)].n
      BY <1>4
    <3> QED BY <1>1, <3>1, <3>2 DEF OwnedOnce
  <2>2. l \in Nat /\ m \in Nat /\ l # 0 /\ m # 0 /\ k \in Nat
    BY <1>1, <1>2, <1>5
  <2> QED BY <1>1, <2>1, <2>2
<1>7. ASSUME NEW c \in 1 .. N PROVE \E o \in Owner : \E l \in 1 .. own2[o].n : own2[o].at[l] = c
  <2>0. PICK o \in Owner : \E m \in 1 .. own[o].n : own[o].at[m] = c
    BY <1>1 DEF OwnedOnce
  <2>1. PICK m \in 1 .. own[o].n : own[o].at[m] = c
    BY <2>0
  <2>2. own[o].n \in Nat /\ own[a].n \in Nat /\ own[NULL].n \in Nat /\ k \in Nat
    BY <1>1, <1>2
  <2>3. CASE o = a /\ m < k
    <3>1. m \in 1 .. own2[a].n /\ own2[a].at[m] = c
      BY <1>1, <1>3, <1>4, <2>1, <2>2, <2>3
    <3> QED BY <1>1, <3>1
  <2>4. CASE o = a /\ m = k
    <3>1. 1 \in 1 .. own2[NULL].n /\ own2[NULL].at[1] = c
      BY <1>1, <1>3, <1>4, <2>1, <2>2, <2>4
    <3> QED BY <1>1, <3>1
  <2>5. CASE o = a /\ m > k
    <3>1. m - 1 \in 1 .. own2[a].n /\ ~(m - 1 < k) /\ m - 1 + 1 = m
      BY <1>1, <1>3, <2>1, <2>2, <2>5
    <3>2. own2[a].at[m - 1] = c
      BY <1>1, <1>4, <2>1, <2>5, <3>1
    <3> QED BY <1>1, <3>1, <3>2
  <2>6. CASE o = NULL
    <3>1. m + 1 \in 1 .. own2[NULL].n /\ m + 1 # 1 /\ m + 1 - 1 = m
      BY <1>1, <1>3, <2>1, <2>2, <2>6
    <3>2. own2[NULL].at[m + 1] = c
      BY <1>1, <1>4, <2>1, <2>6, <3>1
    <3> QED BY <1>1, <3>1, <3>2
  <2>7. CASE o # a /\ o # NULL
    <3>1. m \in 1 .. own2[o].n /\ own2[o].at[m] = c
      BY <1>1, <1>3, <1>4, <2>1, <2>7
    <3> QED BY <3>1
  <2> QED BY <2>2, <2>3, <2>4, <2>5, <2>6, <2>7
<1> QED BY <1>5, <1>6, <1>7 DEF OwnedOnce, own2

(* The heap is still sound, and the lists name what they named, without    *)
(* the one that was taken out.                                             *)
LEMMA UnlinkedSound ==
    ASSUME NEW h, NEW own, IsSound(h, own), NEW i \in 1 .. Len(h.node),
           NEW k \in 1 .. own[h.node[i].object].n
    PROVE  LET a == h.node[i].object
               c == own[a].at[k]
               g == Unlinked(h, Before(h, own, i, k), c)
           IN  /\ IsSound(g, OwnedWithout(own, a, k)) /\ SameNodes(h, g)
               /\ \A d \in Cell : d # c => g.cell[d].object = h.cell[d].object
<1> DEFINE a == h.node[i].object
           s == own[a]
           c == s.at[k]
           g == Unlinked(h, Before(h, own, i, k), c)
           own2 == OwnedWithout(own, a, k)
           next(r, l) == IF l = r.n THEN NULL ELSE r.at[l + 1]
<1>1. h \in Heap /\ InOrder(h) /\ OwnedOnce(h, own) /\ Linked(h, own) /\ Counted(h, own)
  BY DEF IsSound
<1>2. a \in Object /\ a \in Owner /\ a # NULL /\ NULL \in Owner
  BY <1>1, NodeFacts DEF Owner
<1>3. \A o \in Owner : own[o].n \in Nat /\ \A l \in 1 .. own[o].n : own[o].at[l] \in Cell
  BY OwnedFacts
<1>4. /\ g \in Heap /\ SameNodes(h, g) /\ g.capacity = h.capacity
      /\ g.allocated = h.allocated /\ g.freed = c
      /\ g.n_freed = h.n_freed + 1 /\ g.n_used = h.n_used - 1
      /\ \A j \in 1 .. Len(h.node) :
            g.node[j].next = IF k = 1 /\ j = i THEN h.cell[c].next ELSE h.node[j].next
      /\ \A d \in Cell : g.cell[d].object = IF d = c THEN NULL ELSE h.cell[d].object
      /\ \A d \in Cell :
            g.cell[d].next = IF d = c THEN h.freed
                             ELSE IF k > 1 /\ d = s.at[k - 1] THEN h.cell[c].next
                             ELSE h.cell[d].next
  <2>1. IsUnlinked(h, own, i, k, g)
    BY UnlinkedIs
  <2> HIDE DEF g
  <2> QED BY <2>1 DEF IsUnlinked
<1>5. OwnedOnce(g, own2)
  <2>1. OwnedOnce(h, own2)
    BY <1>2, UnlinkedOwned
  <2> QED BY <1>4, <2>1 DEF OwnedOnce
<1>6. InOrder(g) /\ \A o : HasNode(g, o) <=> HasNode(h, o)
  BY <1>1, <1>4, SameNodesFacts
<1>7. \A o, p \in Owner : \A l \in 1 .. own[o].n, m \in 1 .. own[p].n :
         own[o].at[l] = own[p].at[m] => o = p /\ l = m
  BY <1>1 DEF OwnedOnce
<1>8. /\ own2[a] = Removed(s, k) /\ own2[NULL] = Fronted(c, own[NULL])
      /\ \A o \in Owner : o # a /\ o # NULL => own2[o] = own[o]
  BY <1>2 DEF OwnedWithout
<1>9. /\ h.cell[c].next = next(s, k) /\ h.node[i].next = IF s.n = 0 THEN NULL ELSE s.at[1]
      /\ \A l \in 1 .. s.n : h.cell[s.at[l]].next = next(s, l)
      /\ \A j \in 1 .. Len(h.node) : IsPath(h.cell, h.node[j].next, own[h.node[j].object])
      /\ IsPath(h.cell, h.freed, own[NULL])
  BY <1>1 DEF Linked, IsPath
<1>10. k \in Nat /\ k >= 1 /\ k <= s.n /\ s.n \in Nat /\ (k > 1 => k - 1 \in 1 .. s.n)
  BY <1>2, <1>3
<1> HIDE DEF g, own2, c
<1>11. IsPath(g.cell, g.freed, own2[NULL])
  <2> DEFINE t == own[NULL]
             u == own2[NULL]
  <2>1. u.n = t.n + 1 /\ \A l \in 1 .. t.n + 1 : u.at[l] = IF l = 1 THEN c ELSE t.at[l - 1]
    BY <1>8 DEF Fronted
  <2>2. t.n \in Nat /\ \A l \in 1 .. t.n : t.at[l] \in Cell
    BY <1>2, <1>3
  <2>3. /\ h.freed = IF t.n = 0 THEN NULL ELSE t.at[1]
        /\ \A l \in 1 .. t.n : h.cell[t.at[l]].next = next(t, l)
    BY <1>9 DEF IsPath
  <2>4. \A l \in 1 .. t.n : t.at[l] # c /\ (k > 1 => t.at[l] # s.at[k - 1])
    BY <1>2, <1>7, <1>10 DEF c
  <2>5. c \in Cell
    BY <1>2, <1>3 DEF c
  <2> HIDE DEF t, u
  <2>6. ASSUME NEW l \in 1 .. u.n PROVE g.cell[u.at[l]].next = next(u, l)
    <3>1. CASE l = 1
      <4>1. u.at[l] = c /\ g.cell[c].next = h.freed
        BY <1>4, <2>1, <2>2, <2>5, <3>1
      <4>2. l = u.n <=> t.n = 0
        BY <2>1, <2>2, <3>1
      <4>3. t.n # 0 => u.at[l + 1] = t.at[1]
        BY <2>1, <2>2, <3>1
      <4> QED BY <2>3, <4>1, <4>2, <4>3
    <3>2. CASE l # 1
      <4>1. l - 1 \in 1 .. t.n /\ u.at[l] = t.at[l - 1]
        BY <2>1, <2>2, <3>2
      <4>2. g.cell[u.at[l]].next = next(t, l - 1)
        BY <1>4, <2>2, <2>3, <2>4, <4>1
      <4>3. l = u.n <=> l - 1 = t.n
        BY <2>1, <2>2, <4>1
      <4>4. l # u.n => u.at[l + 1] = t.at[l - 1 + 1]
        BY <2>1, <2>2, <4>1
      <4> QED BY <4>2, <4>3, <4>4
    <3> QED BY <3>1, <3>2
  <2>7. g.freed = IF u.n = 0 THEN NULL ELSE u.at[1]
    BY <1>4, <2>1, <2>2
  <2> QED BY <2>6, <2>7 DEF IsPath, u
<1>12. ASSUME NEW j \in 1 .. Len(h.node), j # i
       PROVE  IsPath(g.cell, g.node[j].next, own2[h.node[j].object])
  <2> DEFINE b == h.node[j].object
             t == own[b]
  <2>1. b \in Owner /\ b # NULL /\ b # a
    BY <1>1, <1>12, NodeFacts, OneNode
  <2>2. \A l \in 1 .. t.n : t.at[l] \in Cell /\ t.at[l] # c /\ (k > 1 => t.at[l] # s.at[k - 1])
    <3>1. ASSUME NEW l \in 1 .. t.n, NEW m \in 1 .. s.n PROVE t.at[l] # s.at[m]
      BY <1>2, <1>7, <2>1
    <3>2. \A l \in 1 .. t.n : t.at[l] \in Cell
      BY <1>3, <2>1
    <3>3. k \in 1 .. s.n /\ (k > 1 => k - 1 \in 1 .. s.n)
      BY <1>10
    <3> HIDE DEF t, s
    <3> QED BY <3>1, <3>2, <3>3 DEF c
  <2>3. own2[b] = t
    BY <1>8, <2>1
  <2>4. /\ h.node[j].next = IF t.n = 0 THEN NULL ELSE t.at[1]
        /\ \A l \in 1 .. t.n : h.cell[t.at[l]].next = next(t, l)
    BY <1>9 DEF IsPath
  <2>5. g.node[j].next = h.node[j].next
    BY <1>4, <1>12
  <2> HIDE DEF b, t
  <2>6. \A l \in 1 .. t.n : g.cell[t.at[l]].next = next(t, l)
    BY <1>4, <2>2, <2>4
  <2>7. IsPath(g.cell, g.node[j].next, t)
    BY <2>4, <2>5, <2>6 DEF IsPath
  <2> QED BY <2>3, <2>7 DEF b
<1>13. IsPath(g.cell, g.node[i].next, own2[a])
  <2> DEFINE u == own2[a]
  <2>1. u.n = s.n - 1 /\ \A l \in 1 .. s.n - 1 : u.at[l] = IF l < k THEN s.at[l] ELSE s.at[l + 1]
    BY <1>8, RemovedIs
  <2>2. \A l \in 1 .. s.n : s.at[l] \in Cell /\ (l # k => s.at[l] # c)
    BY <1>2, <1>3, <1>7 DEF c
  <2>3. \A l \in 1 .. s.n : k > 1 /\ s.at[l] = s.at[k - 1] => l = k - 1
    BY <1>2, <1>7, <1>10
  <2> HIDE DEF u, s, a
  <2>4. ASSUME NEW l \in 1 .. u.n PROVE g.cell[u.at[l]].next = next(u, l)
    <3>0. /\ l \in 1 .. s.n - 1 /\ l \in 1 .. s.n /\ l + 1 \in 1 .. s.n
          /\ l \in Nat /\ u.n = s.n - 1 /\ (l # u.n => l + 1 \in 1 .. s.n - 1)
      <4>1. u.n = s.n - 1 /\ s.n \in Nat
        BY <1>10, <2>1
      <4> QED BY <4>1
    <3>1. CASE l < k - 1
      <4>1. u.at[l] = s.at[l] /\ u.at[l + 1] = s.at[l + 1] /\ l # u.n /\ l # s.n
        BY <1>10, <2>1, <3>0, <3>1
      <4>2. g.cell[s.at[l]].next = h.cell[s.at[l]].next
        BY <1>4, <1>10, <2>2, <2>3, <3>0, <3>1
      <4> QED BY <1>9, <3>0, <4>1, <4>2
    <3>2. CASE l = k - 1
      <4>1. u.at[l] = s.at[k - 1] /\ k > 1
        BY <1>10, <2>1, <3>0, <3>2
      <4>2. g.cell[u.at[l]].next = h.cell[c].next
        BY <1>4, <1>10, <2>2, <3>0, <3>2, <4>1
      <4>3. k = s.n <=> l = u.n
        BY <1>10, <2>1, <3>0, <3>2
      <4>4. l # u.n => u.at[l + 1] = s.at[k + 1]
        BY <1>10, <2>1, <3>0, <3>2
      <4> QED BY <1>9, <4>2, <4>3, <4>4
    <3>3. CASE l >= k
      <4>1. u.at[l] = s.at[l + 1]
        BY <1>10, <2>1, <3>0, <3>3
      <4>2. g.cell[s.at[l + 1]].next = h.cell[s.at[l + 1]].next
        <5>1. l + 1 # k /\ l + 1 # k - 1
          BY <1>10, <3>0, <3>3
        <5> QED BY <1>4, <2>2, <2>3, <3>0, <5>1
      <4>3. l + 1 = s.n <=> l = u.n
        BY <1>10, <3>0
      <4>4. l # u.n => u.at[l + 1] = s.at[l + 1 + 1]
        <5>1. ~(l + 1 < k)
          BY <1>10, <3>0, <3>3
        <5> QED BY <2>1, <3>0, <5>1
      <4> QED BY <1>9, <3>0, <4>1, <4>2, <4>3, <4>4
    <3> QED BY <1>10, <3>0, <3>1, <3>2, <3>3
  <2>5. g.node[i].next = IF u.n = 0 THEN NULL ELSE u.at[1]
    <3>1. g.node[i].next = IF k = 1 THEN h.cell[c].next ELSE h.node[i].next
      BY <1>4
    <3>2. CASE k = 1
      BY <1>9, <1>10, <2>1, <3>1, <3>2
    <3>3. CASE k # 1
      BY <1>9, <1>10, <2>1, <3>1, <3>3
    <3> QED BY <3>2, <3>3
  <2> QED BY <2>4, <2>5 DEF IsPath, u
<1>14. Linked(g, own2)
  <2>1. ASSUME NEW j \in 1 .. Len(g.node) PROVE IsPath(g.cell, g.node[j].next, own2[g.node[j].object])
    BY <1>4, <1>12, <1>13 DEF SameNodes
  <2>2. ASSUME NEW o \in Object, ~HasNode(g, o) PROVE own2[o].n = 0
    <3>1. ~HasNode(h, o) /\ o # a /\ o \in Owner /\ o # NULL
      BY <1>6, <2>2, Sizes DEF HasNode, Owner
    <3> QED BY <1>1, <1>8, <3>1 DEF Linked
  <2>3. ASSUME NEW o \in Object, NEW l \in 1 .. own2[o].n PROVE g.cell[own2[o].at[l]].object \in Object
    <3>1. o \in Owner /\ o # NULL
      BY Sizes DEF Owner
    <3>2. PICK m \in 1 .. own[o].n : own2[o].at[l] = own[o].at[m] /\ (o = a => m # k)
      <4>1. CASE o = a
        <5>1. l \in 1 .. s.n - 1 /\ own2[a].at[l] = IF l < k THEN s.at[l] ELSE s.at[l + 1]
          <6>1. own2[a].n = s.n - 1 /\ \A m \in 1 .. s.n - 1 :
                   own2[a].at[m] = IF m < k THEN s.at[m] ELSE s.at[m + 1]
            BY <1>8, RemovedIs
          <6> QED BY <4>1, <6>1
        <5>2. (l < k => l \in 1 .. s.n) /\ (~(l < k) => l + 1 \in 1 .. s.n /\ l + 1 # k)
          BY <1>10, <5>1
        <5> QED BY <4>1, <5>1, <5>2
      <4>2. CASE o # a
        BY <1>8, <3>1, <4>2
      <4> QED BY <4>1, <4>2
    <3>3. own[o].at[m] # c
      BY <1>2, <1>7, <3>1, <3>2 DEF c
    <3>4. h.cell[own[o].at[m]].object \in Object /\ own[o].at[m] \in Cell
      BY <1>1, <1>3, <3>1 DEF Linked
    <3> QED BY <1>4, <3>2, <3>3, <3>4
  <2> QED BY <1>11, <2>1, <2>2, <2>3 DEF Linked
<1>15. Counted(g, own2)
  <2>1. own2[NULL].n = own[NULL].n + 1
    BY <1>8 DEF Fronted
  <2>2. own[NULL].n \in Nat /\ h.allocated \in Nat
    BY <1>1, <1>2, <1>3, HeapFacts
  <2> QED BY <1>1, <1>4, <2>1, <2>2 DEF Counted, SameNodes
<1>16. IsSound(g, own2)
  BY <1>4, <1>5, <1>6, <1>14, <1>15 DEF IsSound
<1> QED BY <1>4, <1>16 DEF g, own2, c

IsWithoutCell(h, own, a, k, g) ==
    /\ IsSound(g, OwnedWithout(own, a, k)) /\ SameNodes(h, g)
    /\ \A d \in Cell : d # own[a].at[k] => g.cell[d].object = h.cell[d].object

(* The same, for the pointer that the loop holds.                          *)
LEMMA WithoutCell ==
    ASSUME NEW h, NEW own, IsSound(h, own), NEW i \in 1 .. Len(h.node),
           NEW a, a = h.node[i].object, NEW k, k \in 1 .. own[a].n,
           NEW c, c = own[a].at[k], NEW prev, prev = Before(h, own, i, k)
    PROVE  IsWithoutCell(h, own, a, k, Unlinked(h, prev, c))
<1> DEFINE x == h.node[i].object
           y == own[x].at[k]
           g == Unlinked(h, Before(h, own, i, k), y)
<1>1. k \in 1 .. own[h.node[i].object].n
  OBVIOUS
<1>2. /\ IsSound(g, OwnedWithout(own, x, k)) /\ SameNodes(h, g)
      /\ \A d \in Cell : d # y => g.cell[d].object = h.cell[d].object
  BY <1>1, UnlinkedSound
<1>3. g = Unlinked(h, prev, c) /\ x = a /\ y = own[a].at[k]
  OBVIOUS
<1> HIDE DEF g, x, y
<1> QED BY <1>2, <1>3 DEF IsWithoutCell

-----------------------------------------------------------------------------
(* Taking objects from a list of RelationGraph, one element after the      *)
(* other.                                                                  *)
IsKept(list, gone, n, kept) ==
    /\ kept[0] = <<>>
    /\ \A k \in 1 .. n : kept[k] = IF list[k] \in gone THEN kept[k - 1]
                                   ELSE Append(kept[k - 1], list[k])

(* What RelationGraph's Without computes: its recursive function exists.   *)
LEMMA WithoutIs ==
    ASSUME NEW list, NEW gone, Len(list) \in Nat
    PROVE  \E kept : IsKept(list, gone, Len(list), kept) /\ Graph!Without(list, gone) = kept[Len(list)]
<1> DEFINE n == Len(list)
           Kept(m, f) == f = [k \in 0 .. m |->
                                IF k = 0 THEN <<>>
                                ELSE IF list[k] \in gone THEN f[k - 1]
                                ELSE Append(f[k - 1], list[k])]
           T == {m \in Nat : \E f : Kept(m, f)}
<1>1. 0 \in T
  <2>1. Kept(0, [k \in 0 .. 0 |-> <<>>])
    OBVIOUS
  <2> QED BY <2>1
<1>2. ASSUME NEW m \in T, m \in Nat PROVE m + 1 \in T
  <2>1. PICK f : Kept(m, f)
    BY <1>2
  <2> DEFINE g == [k \in 0 .. m + 1 |->
                     IF k = m + 1
                     THEN IF list[k] \in gone THEN f[m] ELSE Append(f[m], list[k])
                     ELSE f[k]]
  <2>2. \A k \in 0 .. m : f[k] = IF k = 0 THEN <<>>
                                ELSE IF list[k] \in gone THEN f[k - 1]
                                ELSE Append(f[k - 1], list[k])
    BY <2>1
  <2>3. \A k \in 0 .. m : g[k] = f[k]
    BY <1>2
  <2>4. g[m + 1] = IF list[m + 1] \in gone THEN f[m] ELSE Append(f[m], list[m + 1])
    BY <1>2
  <2>5. g = [k \in 0 .. m + 1 |-> g[k]]
    OBVIOUS
  <2> HIDE DEF g
  <2>6. ASSUME NEW k \in 0 .. m + 1
        PROVE  g[k] = IF k = 0 THEN <<>>
                      ELSE IF list[k] \in gone THEN g[k - 1]
                      ELSE Append(g[k - 1], list[k])
    <3>1. CASE k = m + 1
      <4>1. k # 0 /\ k - 1 = m /\ m \in 0 .. m
        BY <1>2, <3>1
      <4>2. g[k - 1] = f[m]
        BY <2>3, <4>1
      <4> QED BY <2>4, <3>1, <4>1, <4>2
    <3>2. CASE k # m + 1
      <4>1. k \in 0 .. m /\ (k # 0 => k - 1 \in 0 .. m)
        BY <1>2, <3>2
      <4> QED BY <2>2, <2>3, <4>1
    <3> QED BY <3>1, <3>2
  <2>7. Kept(m + 1, g)
    BY <2>5, <2>6
  <2> QED BY <1>2, <2>7
<1>3. n \in T
  <2> HIDE DEF T, n
  <2>1. n \in Nat
    BY DEF n
  <2> QED BY <1>1, <1>2, <2>1, Induct
<1> DEFINE kept == CHOOSE f : Kept(n, f)
<1>4. Kept(n, kept)
  BY <1>3
<1>5. Graph!Without(list, gone) = kept[n]
  BY DEF Graph!Without
<1> HIDE DEF kept
<1>6. IsKept(list, gone, n, kept)
  <2>1. 0 \in 0 .. n /\ \A k \in 1 .. n : k \in 0 .. n /\ k # 0
    OBVIOUS
  <2>2. \A k \in 0 .. n : kept[k] = IF k = 0 THEN <<>>
                                   ELSE IF list[k] \in gone THEN kept[k - 1]
                                   ELSE Append(kept[k - 1], list[k])
    BY <1>4
  <2> QED BY <2>1, <2>2 DEF IsKept
<1> QED BY <1>5, <1>6

LEMMA KeptTyped ==
    ASSUME NEW S, NEW list \in Seq(S), NEW gone, NEW n \in Nat, n <= Len(list), NEW kept,
           IsKept(list, gone, n, kept)
    PROVE  \A k \in 0 .. n : kept[k] \in Seq(S) /\ Range(kept[k]) = {list[l] : l \in 1 .. k} \ gone
<1> DEFINE T == {k \in Nat : k <= n =>
                    kept[k] \in Seq(S) /\ Range(kept[k]) = {list[l] : l \in 1 .. k} \ gone}
<1>1. 0 \in T
  <2>1. kept[0] = <<>> /\ <<>> \in Seq(S) /\ Range(<<>>) = {}
    BY DEF IsKept, Range
  <2>2. {list[l] : l \in 1 .. 0} = {}
    OBVIOUS
  <2> QED BY <2>1, <2>2
<1>2. ASSUME NEW k \in T, k \in Nat PROVE k + 1 \in T
  <2> SUFFICES ASSUME k + 1 <= n
               PROVE  /\ kept[k + 1] \in Seq(S)
                      /\ Range(kept[k + 1]) = {list[l] : l \in 1 .. k + 1} \ gone
    BY <1>2
  <2>1. /\ kept[k] \in Seq(S) /\ Range(kept[k]) = {list[l] : l \in 1 .. k} \ gone
        /\ k + 1 \in 1 .. n /\ k + 1 - 1 = k /\ list[k + 1] \in S
    BY <1>2
  <2>2. kept[k + 1] = IF list[k + 1] \in gone THEN kept[k] ELSE Append(kept[k], list[k + 1])
    BY <2>1 DEF IsKept
  <2>3. {list[l] : l \in 1 .. k + 1} = {list[l] : l \in 1 .. k} \cup {list[k + 1]}
    <3>1. \A l : l \in 1 .. k + 1 <=> l \in 1 .. k \/ l = k + 1
      BY <1>2
    <3> QED BY <3>1
  <2>4. CASE list[k + 1] \in gone
    BY <2>1, <2>2, <2>3, <2>4
  <2>5. CASE list[k + 1] \notin gone
    <3> DEFINE q == kept[k]
               x == list[k + 1]
               r == Append(q, x)
    <3>1. q \in Seq(S) /\ x \in S
      BY <2>1
    <3> HIDE DEF q, x
    <3>2. /\ r \in Seq(S) /\ DOMAIN r = 1 .. Len(q) + 1 /\ DOMAIN q = 1 .. Len(q) /\ Len(q) \in Nat
          /\ r[Len(q) + 1] = x /\ \A l \in 1 .. Len(q) : r[l] = q[l]
      BY <3>1
    <3> HIDE DEF r
    <3>3. Range(r) = Range(q) \cup {x}
      <4>1. \A l : l \in 1 .. Len(q) + 1 <=> l \in 1 .. Len(q) \/ l = Len(q) + 1
        BY <3>2
      <4> QED BY <3>2, <4>1 DEF Range
    <3>4. kept[k + 1] = r
      BY <2>2, <2>5 DEF r, q, x
    <3> QED BY <2>1, <2>3, <2>5, <3>2, <3>3, <3>4 DEF q, x
  <2> QED BY <2>4, <2>5
<1>3. \A k \in 0 .. n : k \in T
  <2> HIDE DEF T
  <2>1. Nat \subseteq T
    BY <1>1, <1>2, Induct
  <2> QED BY <2>1
<1> QED BY <1>3

(* It leaves the objects that are not gone...                              *)
LEMMA WithoutTyped ==
    ASSUME NEW S, NEW list \in Seq(S), NEW gone
    PROVE  /\ Graph!Without(list, gone) \in Seq(S)
           /\ Range(Graph!Without(list, gone)) = Range(list) \ gone
<1> DEFINE n == Len(list)
<1>1. n \in Nat /\ DOMAIN list = 1 .. n
  OBVIOUS
<1>2. PICK kept : IsKept(list, gone, n, kept) /\ Graph!Without(list, gone) = kept[n]
  BY <1>1, WithoutIs
<1>3. kept[n] \in Seq(S) /\ Range(kept[n]) = {list[l] : l \in 1 .. n} \ gone
  <2> HIDE DEF n
  <2>1. n \in 0 .. n /\ n <= n
    BY <1>1
  <2>2. n <= Len(list) /\ n \in Nat /\ IsKept(list, gone, n, kept)
    BY <1>1, <1>2 DEF n
  <2>3. \A k \in 0 .. n : kept[k] \in Seq(S) /\ Range(kept[k]) = {list[l] : l \in 1 .. k} \ gone
    BY <2>2, KeptTyped
  <2> QED BY <2>1, <2>3
<1>4. {list[l] : l \in 1 .. n} = Range(list)
  BY <1>1 DEF Range
<1> QED BY <1>2, <1>3, <1>4

(* Only what is in the list counts.                                        *)
LEMMA WithoutSame ==
    ASSUME NEW list, Len(list) \in Nat, NEW A, NEW B,
           \A k \in 1 .. Len(list) : list[k] \in A <=> list[k] \in B
    PROVE  Graph!Without(list, A) = Graph!Without(list, B)
<1> DEFINE n == Len(list)
<1>1. PICK f : IsKept(list, A, n, f) /\ Graph!Without(list, A) = f[n]
  BY WithoutIs
<1>2. PICK g : IsKept(list, B, n, g) /\ Graph!Without(list, B) = g[n]
  BY WithoutIs
<1> DEFINE T == {k \in Nat : k <= n => f[k] = g[k]}
<1>3. n \in Nat /\ \A k \in 1 .. n : list[k] \in A <=> list[k] \in B
  OBVIOUS
<1> HIDE DEF n
<1>4. 0 \in T
  BY <1>1, <1>2 DEF IsKept
<1>5. ASSUME NEW k \in T, k \in Nat PROVE k + 1 \in T
  <2>1. k + 1 <= n => k <= n /\ k + 1 \in 1 .. n /\ k + 1 - 1 = k
    BY <1>3, <1>5
  <2>2. k + 1 <= n => f[k + 1] = g[k + 1]
    BY <1>1, <1>2, <1>3, <1>5, <2>1 DEF IsKept
  <2> QED BY <1>5, <2>2
<1>6. n \in T
  <2> HIDE DEF T
  <2> QED BY <1>3, <1>4, <1>5, Induct
<1> QED BY <1>1, <1>2, <1>3, <1>6

LEMMA WithoutNothing ==
    ASSUME NEW S, NEW list \in Seq(S), NEW gone, \A k \in 1 .. Len(list) : list[k] \notin gone
    PROVE  Graph!Without(list, gone) = list
<1> DEFINE n == Len(list)
           first(k) == [l \in 1 .. k |-> list[l]]
<1>1. n \in Nat /\ DOMAIN list = 1 .. n /\ \A k \in 1 .. n : list[k] \in S /\ list[k] \notin gone
  OBVIOUS
<1>2. PICK f : IsKept(list, gone, n, f) /\ Graph!Without(list, gone) = f[n]
  BY <1>1, WithoutIs
<1> DEFINE T == {k \in Nat : k <= n => f[k] = first(k)}
<1>3. list = first(n)
  BY <1>1
<1> HIDE DEF n
<1>4. 0 \in T
  <2>1. first(0) = <<>>
    OBVIOUS
  <2> QED BY <1>2, <2>1 DEF IsKept
<1>5. ASSUME NEW k \in T, k \in Nat PROVE k + 1 \in T
  <2> SUFFICES ASSUME k + 1 <= n PROVE f[k + 1] = first(k + 1)
    BY <1>5
  <2>1. k <= n /\ k + 1 \in 1 .. n /\ k + 1 - 1 = k /\ \A l \in 1 .. k : l \in 1 .. n
    BY <1>1, <1>5
  <2>2. f[k + 1] = Append(first(k), list[k + 1])
    <3> HIDE DEF first
    <3>1. list[k + 1] \notin gone /\ f[k] = first(k)
      BY <1>1, <1>5, <2>1
    <3>2. f[k + 1] = IF list[k + 1] \in gone THEN f[k] ELSE Append(f[k], list[k + 1])
      BY <1>2, <2>1 DEF IsKept
    <3> QED BY <3>1, <3>2
  <2>3. first(k) \in Seq(S) /\ Len(first(k)) = k
    BY <1>1, <1>5, <2>1
  <2>4. Append(first(k), list[k + 1]) = first(k + 1)
    <3> DEFINE q == first(k)
               x == list[k + 1]
    <3>1. q \in Seq(S) /\ x \in S /\ Len(q) = k
      BY <1>1, <2>1, <2>3
    <3>2. \A l \in 1 .. k : q[l] = list[l]
      OBVIOUS
    <3> DEFINE r == Append(q, x)
    <3> HIDE DEF q, x
    <3>3. /\ r \in [1 .. k + 1 -> S]
          /\ r[k + 1] = x /\ \A l \in 1 .. k : r[l] = q[l]
      <4>1. /\ r \in Seq(S) /\ Len(r) = k + 1
            /\ r[k + 1] = x /\ \A l \in 1 .. k : r[l] = q[l]
        BY <1>5, <3>1
      <4> HIDE DEF r
      <4> QED BY <4>1
    <3> HIDE DEF r
    <3>4. \A l \in 1 .. k + 1 : r[l] = list[l]
      <4>1. \A l \in 1 .. k + 1 : l \in 1 .. k \/ l = k + 1
        BY <1>5
      <4> QED BY <3>2, <3>3, <4>1 DEF x
    <3>5. r = [l \in 1 .. k + 1 |-> list[l]]
      BY <3>3, <3>4
    <3> QED BY <3>5 DEF q, x, r
  <2> QED BY <2>2, <2>4
<1>6. n \in T
  <2> HIDE DEF T
  <2> QED BY <1>1, <1>4, <1>5, Induct
<1> QED BY <1>1, <1>2, <1>3, <1>6

LEMMA WithoutAll ==
    ASSUME NEW list, Len(list) \in Nat, NEW gone, \A k \in 1 .. Len(list) : list[k] \in gone
    PROVE  Graph!Without(list, gone) = <<>>
<1> DEFINE n == Len(list)
<1>1. PICK f : IsKept(list, gone, n, f) /\ Graph!Without(list, gone) = f[n]
  BY WithoutIs
<1> DEFINE T == {k \in Nat : k <= n => f[k] = <<>>}
<1>2. n \in Nat /\ \A k \in 1 .. n : list[k] \in gone
  OBVIOUS
<1> HIDE DEF n
<1>3. 0 \in T
  BY <1>1 DEF IsKept
<1>4. ASSUME NEW k \in T, k \in Nat PROVE k + 1 \in T
  <2>1. k + 1 <= n => k <= n /\ k + 1 \in 1 .. n /\ k + 1 - 1 = k
    BY <1>2, <1>4
  <2>2. k + 1 <= n => f[k + 1] = <<>>
    BY <1>1, <1>2, <1>4, <2>1 DEF IsKept
  <2> QED BY <1>4, <2>2
<1>5. n \in T
  <2> HIDE DEF T
  <2> QED BY <1>2, <1>3, <1>4, Induct
<1> QED BY <1>1, <1>2, <1>5

(* Object by object, and one after the other.                              *)
LEMMA WithoutAppended ==
    ASSUME NEW S, NEW q \in Seq(S), NEW x \in S, NEW gone
    PROVE  Graph!Without(Append(q, x), gone)
           = IF x \in gone THEN Graph!Without(q, gone) ELSE Append(Graph!Without(q, gone), x)
<1> DEFINE n == Len(q)
           r == Append(q, x)
<1>1. n \in Nat /\ Len(r) = n + 1 /\ r[n + 1] = x /\ \A k \in 1 .. n : r[k] = q[k]
  OBVIOUS
<1> HIDE DEF r
<1>2. PICK f : IsKept(q, gone, n, f) /\ Graph!Without(q, gone) = f[n]
  BY <1>1, WithoutIs
<1>3. PICK g : IsKept(r, gone, n + 1, g) /\ Graph!Without(r, gone) = g[n + 1]
  <2>1. Len(r) \in Nat
    BY <1>1
  <2> QED BY <1>1, <2>1, WithoutIs
<1> HIDE DEF n
<1> DEFINE T == {k \in Nat : k <= n => f[k] = g[k]}
<1>4. 0 \in T
  BY <1>2, <1>3 DEF IsKept
<1>5. ASSUME NEW k \in T, k \in Nat PROVE k + 1 \in T
  <2>1. k + 1 <= n => k <= n /\ k + 1 \in 1 .. n /\ k + 1 \in 1 .. n + 1 /\ k + 1 - 1 = k
    BY <1>1, <1>5
  <2>2. k + 1 <= n => f[k + 1] = g[k + 1]
    BY <1>1, <1>2, <1>3, <1>5, <2>1 DEF IsKept
  <2> QED BY <1>5, <2>2
<1>6. n \in T
  <2> HIDE DEF T
  <2> QED BY <1>1, <1>4, <1>5, Induct
<1>7. g[n + 1] = IF x \in gone THEN g[n] ELSE Append(g[n], x)
  <2>1. n + 1 \in 1 .. n + 1 /\ n + 1 - 1 = n
    BY <1>1
  <2> QED BY <1>1, <1>3, <2>1 DEF IsKept
<1>8. f[n] = g[n]
  BY <1>1, <1>6
<1> QED BY <1>2, <1>3, <1>7, <1>8 DEF r

LEMMA WithoutBoth ==
    ASSUME NEW S, NEW list \in Seq(S), NEW A, NEW B
    PROVE  Graph!Without(Graph!Without(list, A), B) = Graph!Without(list, A \cup B)
<1> DEFINE n == Len(list)
<1>1. n \in Nat /\ \A k \in 1 .. n : list[k] \in S
  OBVIOUS
<1>2. PICK f : IsKept(list, A, n, f) /\ Graph!Without(list, A) = f[n]
  BY <1>1, WithoutIs
<1>3. PICK g : IsKept(list, A \cup B, n, g) /\ Graph!Without(list, A \cup B) = g[n]
  BY <1>1, WithoutIs
<1>4. \A k \in 0 .. n : f[k] \in Seq(S)
  <2>1. n <= Len(list)
    BY <1>1
  <2> HIDE DEF n
  <2> QED BY <1>1, <1>2, <2>1, KeptTyped
<1> HIDE DEF n
<1> DEFINE T == {k \in Nat : k <= n => Graph!Without(f[k], B) = g[k]}
<1>5. 0 \in T
  <2>1. f[0] = <<>> /\ g[0] = <<>>
    BY <1>2, <1>3 DEF IsKept
  <2>2. Len(<<>>) = 0 /\ \A k \in 1 .. 0 : <<>>[k] \in B
    OBVIOUS
  <2>3. Graph!Without(<<>>, B) = <<>>
    BY <2>2, WithoutAll
  <2> QED BY <2>1, <2>3
<1>6. ASSUME NEW k \in T, k \in Nat PROVE k + 1 \in T
  <2> SUFFICES ASSUME k + 1 <= n PROVE Graph!Without(f[k + 1], B) = g[k + 1]
    BY <1>6
  <2>1. k <= n /\ k \in 0 .. n /\ k + 1 \in 1 .. n /\ k + 1 - 1 = k
    BY <1>1, <1>6
  <2> DEFINE x == list[k + 1]
  <2>2. /\ f[k + 1] = IF x \in A THEN f[k] ELSE Append(f[k], x)
        /\ g[k + 1] = IF x \in A \cup B THEN g[k] ELSE Append(g[k], x)
        /\ x \in S /\ f[k] \in Seq(S) /\ Graph!Without(f[k], B) = g[k]
    BY <1>1, <1>2, <1>3, <1>4, <1>6, <2>1 DEF IsKept
  <2> HIDE DEF x
  <2>3. Graph!Without(Append(f[k], x), B) = IF x \in B THEN g[k] ELSE Append(g[k], x)
    <3> DEFINE q == f[k]
    <3>1. q \in Seq(S) /\ x \in S
      BY <2>2
    <3> HIDE DEF q
    <3>2. Graph!Without(Append(q, x), B)
          = IF x \in B THEN Graph!Without(q, B) ELSE Append(Graph!Without(q, B), x)
      BY <3>1, WithoutAppended
    <3> QED BY <2>2, <3>2 DEF q
  <2> QED BY <2>2, <2>3
<1>7. n \in T
  <2> HIDE DEF T
  <2> QED BY <1>1, <1>5, <1>6, Induct
<1> QED BY <1>1, <1>2, <1>3, <1>7

-----------------------------------------------------------------------------
(* The rounds of a sweep.  After k cells of the list at i, m of them are   *)
(* left, and what these name is what Without keeps of the first k.         *)
Reached(h, own, i, kept, k, m, at, gown) ==
    LET s == own[h.node[i].object]
        t == gown[h.node[i].object]
        g == at.heap
    IN  /\ at = [heap |-> g, prev |-> at.prev]
        /\ IsSound(g, gown) /\ SameNodes(h, g)
        /\ m \in Nat /\ t.n = m + (s.n - k)
        /\ at.prev = IF m = 0 THEN -i ELSE t.at[m]
        /\ \A l \in k + 1 .. s.n :
              t.at[m + l - k] = s.at[l] /\ g.cell[s.at[l]].object = h.cell[s.at[l]].object
        /\ kept[k] = [l \in 1 .. m |-> g.cell[t.at[l]].object]

(* The rounds of the loop, whatever is done before a cell is freed: before *)
(* the first...                                                            *)
LEMMA Started ==
    ASSUME NEW h, NEW own, IsSound(h, own), NEW i \in 1 .. Len(h.node), NEW kept, kept[0] = <<>>
    PROVE  Reached(h, own, i, kept, 0, 0, [heap |-> h, prev |-> -i], own)
<1> DEFINE a == h.node[i].object
           s == own[a]
<1>1. h \in Heap
  BY DEF IsSound
<1>2. s.n \in Nat
  <2>1. a \in Owner
    BY <1>1, NodeFacts
  <2> QED BY <2>1, OwnedFacts
<1> HIDE DEF s
<1>3. SameNodes(h, h) /\ [l \in 1 .. 0 |-> h.cell[s.at[l]].object] = <<>>
  BY DEF SameNodes
<1>4. \A l \in 0 + 1 .. s.n : 0 + l - 0 = l
  BY <1>2
<1> QED BY <1>2, <1>3, <1>4 DEF Reached, s

(* A round at cell k + 1 of the list.                                       *)
Round(h, own, i, gone, kept, k, m, at, gown) ==
    /\ IsSound(h, own) /\ i \in 1 .. Len(h.node)
    /\ k \in Nat /\ k < own[h.node[i].object].n
    /\ IsKept(Names(h, own[h.node[i].object]), gone, own[h.node[i].object].n, kept)
    /\ Reached(h, own, i, kept, k, m, at, gown)

RoundSays(h, own, i, kept, k, m, at, gown) ==
    LET a == h.node[i].object
        s == own[a]
        t == gown[a]
        c == s.at[k + 1]
    IN  /\ a \in Object /\ a \in Owner /\ a # NULL
        /\ k \in Nat /\ k < s.n /\ s.n \in Nat /\ m \in Nat /\ t.n = m + (s.n - k)
        /\ k + 1 \in 1 .. s.n /\ m + 1 \in 1 .. t.n
        /\ IsSound(at.heap, gown) /\ SameNodes(h, at.heap)
        /\ at = [heap |-> at.heap, prev |-> at.prev]
        /\ at.prev = IF m = 0 THEN -i ELSE t.at[m]
        /\ \A l \in 1 .. t.n :
              t.at[l] \in Cell /\ at.heap.cell[t.at[l]].object \in Object
        /\ \A l \in k + 1 .. s.n :
              /\ t.at[m + l - k] = s.at[l]
              /\ at.heap.cell[s.at[l]].object = h.cell[s.at[l]].object
        /\ t.at[m + 1] = c /\ at.heap.cell[c].object = h.cell[c].object
        /\ kept[k] = [l \in 1 .. m |-> at.heap.cell[t.at[l]].object]

(* ...what a round knows...                                                *)
LEMMA RoundFacts ==
    ASSUME NEW h, NEW own, NEW i, NEW gone, NEW kept, NEW k, NEW m, NEW at, NEW gown,
           Round(h, own, i, gone, kept, k, m, at, gown)
    PROVE  RoundSays(h, own, i, kept, k, m, at, gown)
<1> DEFINE a == h.node[i].object
           s == own[a]
           t == gown[a]
           g == at.heap
<1>1. /\ IsSound(h, own) /\ i \in 1 .. Len(h.node) /\ Reached(h, own, i, kept, k, m, at, gown)
      /\ k \in Nat /\ k < s.n
  BY DEF Round
<1>2. a \in Object /\ a \in Owner /\ a # NULL
  <2>1. h \in Heap
    BY <1>1 DEF IsSound
  <2> QED BY <1>1, <2>1, NodeFacts
<1>3. s.n \in Nat
  BY <1>1, <1>2, OwnedFacts
<1>4. /\ at = [heap |-> g, prev |-> at.prev]
      /\ IsSound(g, gown) /\ SameNodes(h, g)
      /\ m \in Nat /\ t.n = m + (s.n - k)
      /\ at.prev = IF m = 0 THEN -i ELSE t.at[m]
      /\ \A l \in k + 1 .. s.n :
            t.at[m + l - k] = s.at[l] /\ g.cell[s.at[l]].object = h.cell[s.at[l]].object
      /\ kept[k] = [l \in 1 .. m |-> g.cell[t.at[l]].object]
  BY <1>1 DEF Reached
<1>5. /\ k + 1 \in 1 .. s.n /\ m + 1 \in 1 .. t.n /\ k + 1 \in k + 1 .. s.n
      /\ m + (k + 1) - k = m + 1
  <2>1. k \in Nat /\ k < s.n /\ s.n \in Nat /\ m \in Nat /\ t.n = m + (s.n - k)
    BY <1>1, <1>3, <1>4
  <2> HIDE DEF s, t
  <2> QED BY <2>1
<1>6. \A l \in 1 .. t.n : t.at[l] \in Cell /\ g.cell[t.at[l]].object \in Object
  <2>1. Linked(g, gown)
    BY <1>4 DEF IsSound
  <2>2. \A l \in 1 .. t.n : g.cell[t.at[l]].object \in Object
    BY <1>2, <2>1 DEF Linked
  <2>3. \A l \in 1 .. t.n : t.at[l] \in Cell
    BY <1>2, <1>4, OwnedFacts
  <2> QED BY <2>2, <2>3
<1>7. t.at[m + 1] = s.at[k + 1] /\ g.cell[s.at[k + 1]].object = h.cell[s.at[k + 1]].object
  <2>1. t.at[m + (k + 1) - k] = s.at[k + 1] /\ g.cell[s.at[k + 1]].object = h.cell[s.at[k + 1]].object
    BY <1>4, <1>5
  <2> HIDE DEF t, s, g
  <2> QED BY <1>5, <2>1
<1> HIDE DEF a, s, t, g
<1>8. /\ a \in Object /\ a \in Owner /\ a # NULL
      /\ k \in Nat /\ k < s.n /\ s.n \in Nat /\ m \in Nat /\ t.n = m + (s.n - k)
      /\ k + 1 \in 1 .. s.n /\ m + 1 \in 1 .. t.n
      /\ IsSound(g, gown) /\ SameNodes(h, g)
      /\ at = [heap |-> g, prev |-> at.prev]
      /\ at.prev = IF m = 0 THEN -i ELSE t.at[m]
      /\ \A l \in 1 .. t.n : t.at[l] \in Cell /\ g.cell[t.at[l]].object \in Object
      /\ \A l \in k + 1 .. s.n :
            t.at[m + l - k] = s.at[l] /\ g.cell[s.at[l]].object = h.cell[s.at[l]].object
      /\ t.at[m + 1] = s.at[k + 1] /\ g.cell[s.at[k + 1]].object = h.cell[s.at[k + 1]].object
      /\ kept[k] = [l \in 1 .. m |-> g.cell[t.at[l]].object]
  BY <1>1, <1>2, <1>3, <1>4, <1>5, <1>6, <1>7, Zenon
<1> QED BY <1>8, Zenon DEF RoundSays, a, s, t, g

KeepsNext(h, own, i, gone, kept, k) ==
    LET x == h.cell[own[h.node[i].object].at[k + 1]].object
    IN  kept[k + 1] = IF x \in gone THEN kept[k] ELSE Append(kept[k], x)

LEMMA RoundKeeps ==
    ASSUME NEW h, NEW own, NEW i, NEW gone, NEW kept, NEW k, NEW m, NEW at, NEW gown,
           Round(h, own, i, gone, kept, k, m, at, gown)
    PROVE  KeepsNext(h, own, i, gone, kept, k)
<1> DEFINE s == own[h.node[i].object]
           list == Names(h, s)
           x == h.cell[s.at[k + 1]].object
<1>1. k \in Nat /\ s.n \in Nat /\ k + 1 \in 1 .. s.n
  <2>1. RoundSays(h, own, i, kept, k, m, at, gown)
    BY RoundFacts
  <2> QED BY <2>1 DEF RoundSays
<1>2. IsKept(list, gone, s.n, kept)
  BY DEF Round
<1>3. list[k + 1] = x
  BY <1>1 DEF Names
<1> HIDE DEF list, s, x
<1>4. \A j \in 1 .. s.n : kept[j] = IF list[j] \in gone THEN kept[j - 1] ELSE Append(kept[j - 1], list[j])
  BY <1>2, Zenon DEF IsKept
<1>5. k + 1 - 1 = k
  BY <1>1
<1> DEFINE n == k + 1
<1>6. n \in 1 .. s.n /\ n - 1 = k /\ list[n] = x
  BY <1>1, <1>3, <1>5
<1> HIDE DEF n
<1>7. kept[n] = IF list[n] \in gone THEN kept[n - 1] ELSE Append(kept[n - 1], list[n])
  BY <1>4, <1>6
<1>8. kept[n] = IF x \in gone THEN kept[k] ELSE Append(kept[k], x)
  BY <1>6, <1>7
<1> QED BY <1>8, Zenon DEF KeepsNext, x, s, n

IsPassed(h, own, i, kept, k, m, at, next, gown) ==
    /\ next.heap = at.heap
    /\ Reached(h, own, i, kept, k + 1, m + 1, next, gown)

(* ...a cell that stays...                                                 *)
LEMMA Passed ==
    ASSUME NEW h, NEW own, NEW i, NEW gone, NEW kept, NEW k, NEW m, NEW at, NEW gown,
           Round(h, own, i, gone, kept, k, m, at, gown),
           NEW c, c = own[h.node[i].object].at[k + 1], ~(h.cell[c].object \in gone), NEW before
    PROVE  IsPassed(h, own, i, kept, k, m, at, Visited(at, c, gone, before), gown)
<1> DEFINE a == h.node[i].object
           s == own[a]
           t == gown[a]
           g == at.heap
           x == h.cell[c].object
           next == Visited(at, c, gone, before)
<1>0. RoundSays(h, own, i, kept, k, m, at, gown)
  BY RoundFacts
<1>1. /\ k \in Nat /\ k < s.n /\ s.n \in Nat /\ m \in Nat /\ t.n = m + (s.n - k)
      /\ m + 1 \in 1 .. t.n
  BY <1>0 DEF RoundSays
<1>2. /\ IsSound(g, gown) /\ SameNodes(h, g)
      /\ at = [heap |-> g, prev |-> at.prev]
      /\ \A l \in 1 .. t.n : g.cell[t.at[l]].object \in Object
      /\ t.at[m + 1] = c /\ g.cell[c].object = x
  BY <1>0 DEF RoundSays
<1>3. \A l \in k + 1 .. s.n :
         t.at[m + l - k] = s.at[l] /\ g.cell[s.at[l]].object = h.cell[s.at[l]].object
  BY <1>0 DEF RoundSays
<1>4. kept[k] = [l \in 1 .. m |-> g.cell[t.at[l]].object]
  BY <1>0 DEF RoundSays
<1>5. kept[k + 1] = Append(kept[k], x)
  <2>1. KeepsNext(h, own, i, gone, kept, k)
    BY RoundKeeps
  <2> QED BY <2>1 DEF KeepsNext
<1>6. next = [heap |-> g, prev |-> c]
  BY <1>2 DEF Visited
<1> HIDE DEF next, x, g, t, s, a
<1>7. kept[k + 1] = [l \in 1 .. m + 1 |-> g.cell[t.at[l]].object]
  <2> DEFINE q == kept[k]
             r == Append(q, x)
  <2>1. q \in Seq(Object) /\ Len(q) = m /\ \A l \in 1 .. m : q[l] = g.cell[t.at[l]].object
    <3>1. \A l \in 1 .. m : l \in 1 .. t.n
      BY <1>1
    <3>2. \A l \in 1 .. m : g.cell[t.at[l]].object \in Object
      BY <1>2, <3>1
    <3> QED BY <1>1, <1>4, <3>2
  <2>2. x \in Object
    BY <1>1, <1>2
  <2> HIDE DEF q
  <2>3. /\ r \in Seq(Object) /\ Len(r) = m + 1 /\ r[m + 1] = x
        /\ \A l \in 1 .. m : r[l] = q[l]
    BY <2>1, <2>2
  <2>4. kept[k + 1] = r
    BY <1>5 DEF q
  <2> HIDE DEF r
  <2>5. r = [l \in 1 .. m + 1 |-> r[l]]
    BY <1>1, <2>3
  <2>6. \A l \in 1 .. m + 1 : l \in 1 .. m \/ l = m + 1
    BY <1>1
  <2>7. \A l \in 1 .. m + 1 : r[l] = g.cell[t.at[l]].object
    BY <1>2, <2>1, <2>3, <2>6
  <2>8. [l \in 1 .. m + 1 |-> r[l]] = [l \in 1 .. m + 1 |-> g.cell[t.at[l]].object]
    BY <2>7
  <2> QED BY <2>4, <2>5, <2>8, Zenon
<1>8. \A l \in k + 1 + 1 .. s.n : l \in k + 1 .. s.n /\ m + 1 + l - (k + 1) = m + l - k
  BY <1>1
<1>9. t.n = m + 1 + (s.n - (k + 1)) /\ m + 1 \in Nat /\ m + 1 # 0
  BY <1>1
<1>10. Reached(h, own, i, kept, k + 1, m + 1, [heap |-> g, prev |-> c], gown)
  <2>1. \A l \in k + 1 + 1 .. s.n :
           t.at[m + 1 + l - (k + 1)] = s.at[l] /\ g.cell[s.at[l]].object = h.cell[s.at[l]].object
    BY <1>3, <1>8
  <2> QED BY <1>2, <1>7, <1>9, <2>1 DEF Reached, s, t, a
<1>11. next.heap = g /\ Reached(h, own, i, kept, k + 1, m + 1, next, gown)
  BY <1>6, <1>10
<1>12. IsPassed(h, own, i, kept, k, m, at, next, gown)
  BY <1>11 DEF IsPassed, g
<1> QED BY <1>12 DEF next

(* The heap b before a cell is freed may have lost cells of other lists.   *)
MayFree(g, gown, b, bown, a) ==
    /\ IsSound(b, bown) /\ SameNodes(g, b)
    /\ bown[a] = gown[a] /\ Names(b, bown[a]) = Names(g, gown[a])

IsHit(h, own, i, kept, k, a, next, b, bown, j) ==
    /\ j \in 1 .. bown[a].n /\ IsWithoutCell(b, bown, a, j, next.heap)
    /\ Reached(h, own, i, kept, k + 1, j - 1, next, OwnedWithout(bown, a, j))

(* ...a cell that is freed...                                              *)
LEMMA Hit ==
    ASSUME NEW h, NEW own, NEW i, NEW gone, NEW kept, NEW k, NEW m, NEW at, NEW gown,
           Round(h, own, i, gone, kept, k, m, at, gown),
           NEW a, a = h.node[i].object,
           NEW c, c = own[a].at[k + 1], h.cell[c].object \in gone,
           NEW b, NEW bown, MayFree(at.heap, gown, b, bown, a)
    PROVE  IsHit(h, own, i, kept, k, a, Visited(at, c, gone, b), b, bown, m + 1)
<1> DEFINE s == own[a]
           t == gown[a]
           g == at.heap
           next == Visited(at, c, gone, b)
           own2 == OwnedWithout(bown, a, m + 1)
           u == own2[a]
           e == Unlinked(b, at.prev, c)
<1>0. RoundSays(h, own, i, kept, k, m, at, gown)
  BY RoundFacts
<1>1. /\ k \in Nat /\ k < s.n /\ s.n \in Nat /\ m \in Nat /\ t.n = m + (s.n - k)
      /\ m + 1 \in 1 .. t.n /\ t.n \in Nat
  <2>1. k \in Nat /\ k < s.n /\ s.n \in Nat /\ m \in Nat /\ t.n = m + (s.n - k)
    BY <1>0 DEF RoundSays
  <2> HIDE DEF s, t
  <2> QED BY <2>1
<1>2. /\ SameNodes(h, g) /\ at = [heap |-> g, prev |-> at.prev]
      /\ \A l \in 1 .. t.n : t.at[l] \in Cell
      /\ t.at[m + 1] = c /\ g.cell[c].object \in gone
      /\ at.prev = IF m = 0 THEN -i ELSE t.at[m]
      /\ a \in Object /\ a \in Owner /\ a # NULL
  BY <1>0 DEF RoundSays
<1>3. \A l \in k + 1 .. s.n :
         t.at[m + l - k] = s.at[l] /\ g.cell[s.at[l]].object = h.cell[s.at[l]].object
  BY <1>0 DEF RoundSays
<1>4. kept[k] = [l \in 1 .. m |-> g.cell[t.at[l]].object]
  BY <1>0 DEF RoundSays
<1>5. kept[k + 1] = kept[k]
  <2>1. KeepsNext(h, own, i, gone, kept, k)
    BY RoundKeeps
  <2> QED BY <2>1 DEF KeepsNext
<1>6. next = [heap |-> e, prev |-> at.prev]
  BY <1>2 DEF Visited
<1>7. IsSound(b, bown) /\ SameNodes(g, b) /\ bown[a] = t /\ Names(b, t) = Names(g, t)
  BY DEF MayFree
<1>8. i \in 1 .. Len(b.node) /\ b.node[i].object = a /\ SameNodes(h, b)
  <2>1. i \in 1 .. Len(h.node)
    BY DEF Round
  <2> QED BY <1>2, <1>7, <2>1 DEF SameNodes
<1> HIDE DEF next, s, t, g
<1>9. \A l \in 1 .. t.n : b.cell[t.at[l]].object = g.cell[t.at[l]].object
  BY <1>7 DEF Names
<1> DEFINE j == m + 1
<1>10. (j = 1 <=> m = 0) /\ j - 1 = m /\ j \in 1 .. t.n
  BY <1>1
<1> HIDE DEF j
<1>11. at.prev = Before(b, bown, i, j)
  BY <1>2, <1>7, <1>8, <1>10 DEF Before
<1>12. IsWithoutCell(b, bown, a, j, e)
  <2>1. j \in 1 .. bown[a].n /\ c = bown[a].at[j] /\ a = b.node[i].object
    BY <1>2, <1>7, <1>8, <1>10 DEF j
  <2> QED BY <1>7, <1>8, <1>11, <2>1, WithoutCell
<1> HIDE DEF e
<1>13. /\ IsSound(e, own2) /\ SameNodes(b, e)
       /\ \A d \in Cell : d # c => e.cell[d].object = b.cell[d].object
  BY <1>2, <1>7, <1>12 DEF IsWithoutCell, j
<1>14. \A l \in 1 .. t.n : l # m + 1 => t.at[l] # c
  <2>1. OwnedOnce(b, bown)
    BY <1>7 DEF IsSound
  <2>2. \A o, p \in Owner : \A l \in 1 .. bown[o].n, n \in 1 .. bown[p].n :
           bown[o].at[l] = bown[p].at[n] => o = p /\ l = n
    BY <2>1 DEF OwnedOnce
  <2>3. \A l, n \in 1 .. bown[a].n : bown[a].at[l] = bown[a].at[n] => l = n
    <3>1. a \in Owner
      BY <1>2
    <3> QED BY <2>2, <3>1
  <2> QED BY <1>1, <1>2, <1>7, <2>3
<1>15. /\ u.n = t.n - 1
       /\ \A l \in 1 .. t.n - 1 : u.at[l] = IF l < m + 1 THEN t.at[l] ELSE t.at[l + 1]
  <2>1. u = Removed(t, m + 1)
    BY <1>2, <1>7 DEF OwnedWithout
  <2> HIDE DEF u
  <2> QED BY <2>1, RemovedIs
<1>16. SameNodes(h, e)
  BY <1>8, <1>13 DEF SameNodes
<1> HIDE DEF u, own2
<1>17. \A l \in k + 1 + 1 .. s.n :
          u.at[m + l - (k + 1)] = s.at[l] /\ e.cell[s.at[l]].object = h.cell[s.at[l]].object
  <2> TAKE l \in k + 1 + 1 .. s.n
  <2> DEFINE p == m + l - k
  <2>1. /\ l \in k + 1 .. s.n /\ m + l - (k + 1) = p - 1 /\ p - 1 \in 1 .. t.n - 1
        /\ ~(p - 1 < m + 1) /\ p - 1 + 1 = p /\ p \in 1 .. t.n /\ p # m + 1
    BY <1>1
  <2>2. t.at[p] = s.at[l] /\ g.cell[s.at[l]].object = h.cell[s.at[l]].object
    BY <1>3, <2>1
  <2> HIDE DEF p
  <2>3. u.at[p - 1] = t.at[p]
    BY <1>15, <2>1
  <2>4. e.cell[t.at[p]].object = g.cell[t.at[p]].object
    BY <1>2, <1>9, <1>13, <1>14, <2>1
  <2> QED BY <2>1, <2>2, <2>3, <2>4
<1>18. \A l \in 1 .. m : l \in 1 .. t.n - 1 /\ l < m + 1 /\ l \in 1 .. t.n /\ l # m + 1
  BY <1>1
<1>19. \A l \in 1 .. m : u.at[l] = t.at[l] /\ e.cell[u.at[l]].object = g.cell[t.at[l]].object
  BY <1>2, <1>9, <1>13, <1>14, <1>15, <1>18
<1>20. kept[k + 1] = [l \in 1 .. m |-> e.cell[u.at[l]].object]
  BY <1>4, <1>5, <1>19
<1>21. at.prev = IF m = 0 THEN -i ELSE u.at[m]
  <2>1. m # 0 => m \in 1 .. m
    BY <1>1
  <2> QED BY <1>2, <1>19, <2>1
<1>22. u.n = m + (s.n - (k + 1)) /\ m \in Nat
  BY <1>1, <1>15
<1>23. Reached(h, own, i, kept, k + 1, m, [heap |-> e, prev |-> at.prev], own2)
  BY <1>13, <1>16, <1>17, <1>20, <1>21, <1>22 DEF Reached, s, u
<1>24. next.heap = e /\ j \in 1 .. bown[a].n /\ j - 1 = m
  BY <1>6, <1>7, <1>10
<1>25. Reached(h, own, i, kept, k + 1, j - 1, next, OwnedWithout(bown, a, j))
  BY <1>6, <1>23, <1>24 DEF own2, j
<1>26. IsHit(h, own, i, kept, k, a, next, b, bown, j)
  BY <1>12, <1>24, <1>25 DEF IsHit
<1> QED BY <1>26, Zenon DEF next, j

(* The lists of others than a are the same, cell for cell.                 *)
OthersKept(h, own, g, gown, a) ==
    \A o \in Object : o # a => gown[o] = own[o] /\ Names(g, gown[o]) = Names(h, own[o])

(* ...the lists of the others...                                           *)
LEMMA OthersAreKept ==
    ASSUME NEW b, NEW bown, IsSound(b, bown), NEW a \in Object, NEW k, k \in 1 .. bown[a].n,
           NEW e, IsWithoutCell(b, bown, a, k, e)
    PROVE  OthersKept(b, bown, e, OwnedWithout(bown, a, k), a)
<1> DEFINE c == bown[a].at[k]
           own2 == OwnedWithout(bown, a, k)
<1>1. SUFFICES ASSUME NEW o \in Object, o # a
               PROVE  own2[o] = bown[o] /\ Names(e, own2[o]) = Names(b, bown[o])
  BY DEF OthersKept
<1> DEFINE s == bown[o]
<1>2. o \in Owner /\ o # NULL /\ a \in Owner
  BY Sizes DEF Owner
<1>3. own2[o] = s
  BY <1>1, <1>2 DEF OwnedWithout
<1>4. \A l \in 1 .. s.n : s.at[l] \in Cell
  BY <1>2, OwnedFacts
<1>5. \A l \in 1 .. s.n : s.at[l] # c
  <2>1. OwnedOnce(b, bown)
    BY DEF IsSound
  <2>2. \A l \in 1 .. bown[o].n, n \in 1 .. bown[a].n : bown[o].at[l] # bown[a].at[n]
    BY <1>1, <1>2, <2>1 DEF OwnedOnce
  <2> QED BY <2>2
<1>6. \A d \in Cell : d # c => e.cell[d].object = b.cell[d].object
  BY DEF IsWithoutCell
<1> HIDE DEF c, s, own2
<1>7. \A l \in 1 .. s.n : e.cell[s.at[l]].object = b.cell[s.at[l]].object
  BY <1>4, <1>5, <1>6
<1>8. Names(e, s) = Names(b, s)
  BY <1>7 DEF Names
<1> QED BY <1>3, <1>8 DEF s

IsFinished(h, g, gown, a, list) ==
    IsSound(g, gown) /\ SameNodes(h, g) /\ Names(g, gown[a]) = list

(* ...and after the last.                                                  *)
LEMMA Finished ==
    ASSUME NEW h, NEW own, IsSound(h, own), NEW i \in 1 .. Len(h.node), NEW kept, NEW m, NEW at, NEW gown,
           NEW a, a = h.node[i].object, NEW n, n = own[a].n,
           Reached(h, own, i, kept, n, m, at, gown)
    PROVE  IsFinished(h, at.heap, gown, a, kept[n])
<1> DEFINE t == gown[a]
<1>1. h \in Heap
  BY DEF IsSound
<1>2. a \in Owner
  BY <1>1, NodeFacts
<1>3. n \in Nat
  BY <1>2, OwnedFacts
<1>4. /\ IsSound(at.heap, gown) /\ SameNodes(h, at.heap)
      /\ m \in Nat /\ t.n = m + (n - n)
      /\ kept[n] = [l \in 1 .. m |-> at.heap.cell[t.at[l]].object]
  BY DEF Reached
<1>5. t.n = m
  <2>1. n \in Nat /\ m \in Nat /\ t.n = m + (n - n)
    BY <1>3, <1>4
  <2> HIDE DEF t
  <2> QED BY <2>1
<1> QED BY <1>4, <1>5 DEF Names, IsFinished

-----------------------------------------------------------------------------
(* sq_relation_erase() that leaves the reverse references alone.           *)
IsSweep(h, i, gone, n, f) ==
    /\ f[0] = [heap |-> h, prev |-> -i]
    /\ \A k \in 1 .. n : f[k] = Visited(f[k - 1], List(h, i)[k], gone, f[k - 1].heap)

(* no_reverse = 1: the loop exists, its rounds, and what it does.          *)
LEMMA SweepExists ==
    ASSUME NEW h, NEW i, NEW gone, Len(List(h, i)) \in Nat
    PROVE  \E f : /\ IsSweep(h, i, gone, Len(List(h, i)), f)
                  /\ Swept(h, i, gone) = f[Len(List(h, i))].heap
<1> DEFINE cells == List(h, i)
           n == Len(cells)
           Sweep(m, f) == f = [k \in 0 .. m |->
                                 IF k = 0 THEN [heap |-> h, prev |-> -i]
                                 ELSE Visited(f[k - 1], cells[k], gone, f[k - 1].heap)]
           T == {m \in Nat : \E f : Sweep(m, f)}
<1>1. 0 \in T
  <2>1. Sweep(0, [k \in 0 .. 0 |-> [heap |-> h, prev |-> -i]])
    OBVIOUS
  <2> QED BY <2>1
<1>2. ASSUME NEW m \in T, m \in Nat PROVE m + 1 \in T
  <2>1. PICK f : Sweep(m, f)
    BY <1>2
  <2> HIDE DEF cells
  <2> DEFINE g == [k \in 0 .. m + 1 |->
                     IF k = m + 1 THEN Visited(f[m], cells[k], gone, f[m].heap) ELSE f[k]]
  <2>2. \A k \in 0 .. m : f[k] = IF k = 0 THEN [heap |-> h, prev |-> -i]
                                ELSE Visited(f[k - 1], cells[k], gone, f[k - 1].heap)
    BY <2>1
  <2>3. \A k \in 0 .. m : g[k] = f[k]
    BY <1>2
  <2>4. g[m + 1] = Visited(f[m], cells[m + 1], gone, f[m].heap)
    BY <1>2
  <2>5. g = [k \in 0 .. m + 1 |-> g[k]]
    OBVIOUS
  <2> HIDE DEF g
  <2>6. ASSUME NEW k \in 0 .. m + 1
        PROVE  g[k] = IF k = 0 THEN [heap |-> h, prev |-> -i]
                      ELSE Visited(g[k - 1], cells[k], gone, g[k - 1].heap)
    <3>1. CASE k = m + 1
      <4>1. k # 0 /\ k - 1 = m /\ m \in 0 .. m
        BY <1>2, <3>1
      <4>2. g[k - 1] = f[m]
        BY <2>3, <4>1
      <4> QED BY <2>4, <3>1, <4>1, <4>2
    <3>2. CASE k # m + 1
      <4>1. k \in 0 .. m /\ (k # 0 => k - 1 \in 0 .. m)
        BY <1>2, <3>2
      <4> QED BY <2>2, <2>3, <4>1
    <3> QED BY <3>1, <3>2
  <2>7. Sweep(m + 1, g)
    BY <2>5, <2>6
  <2>8. \E e : Sweep(m + 1, e)
    <3> HIDE DEF Sweep
    <3> QED BY <2>7
  <2>9. m + 1 \in Nat
    BY <1>2
  <2> HIDE DEF Sweep
  <2> QED BY <2>8, <2>9
<1>3. n \in T
  <2> HIDE DEF T, n
  <2>1. n \in Nat
    BY DEF n, cells
  <2> QED BY <1>1, <1>2, <2>1, Induct
<1> DEFINE sweep == CHOOSE f : Sweep(n, f)
<1>4. Sweep(n, sweep)
  BY <1>3
<1>5. Swept(h, i, gone) = sweep[n].heap
  BY DEF Swept
<1> HIDE DEF sweep
<1>6. IsSweep(h, i, gone, n, sweep)
  <2> HIDE DEF cells
  <2>1. 0 \in 0 .. n /\ \A k \in 1 .. n : k \in 0 .. n /\ k # 0
    <3>1. n \in Nat
      BY DEF cells
    <3> HIDE DEF n
    <3> QED BY <3>1
  <2>2. \A k \in 0 .. n : sweep[k] = IF k = 0 THEN [heap |-> h, prev |-> -i]
                                    ELSE Visited(sweep[k - 1], cells[k], gone, sweep[k - 1].heap)
    BY <1>4
  <2> HIDE DEF n
  <2> QED BY <2>1, <2>2 DEF IsSweep, cells
<1> QED BY <1>5, <1>6

ErasedOneWay(h, own, a, gone, g, gown) ==
    /\ IsSound(g, gown) /\ SameNodes(h, g)
    /\ Names(g, gown[a]) = Graph!Without(Names(h, own[a]), gone)
    /\ OthersKept(h, own, g, gown, a)

(* The list at i, which a sweep walks.                                     *)
ListSays(h, own, i, a) ==
    /\ a \in Object /\ a \in Owner /\ own[a].n \in Nat
    /\ Len(List(h, i)) = own[a].n
    /\ \A k \in 1 .. own[a].n : List(h, i)[k] = own[a].at[k]
    /\ Names(h, own[a]) \in Seq(Object) /\ Len(Names(h, own[a])) = own[a].n
    /\ \A k \in 1 .. own[a].n : Names(h, own[a])[k] = h.cell[own[a].at[k]].object

(* The list of a node has the cells that its object owns.                  *)
LEMMA ListFacts ==
    ASSUME NEW h, NEW own, IsSound(h, own), NEW i \in 1 .. Len(h.node), NEW a, a = h.node[i].object
    PROVE  ListSays(h, own, i, a)
<1> DEFINE s == own[a]
<1>1. h \in Heap
  BY DEF IsSound
<1>2. a \in Object /\ a \in Owner
  BY <1>1, NodeFacts
<1>3. s.n \in Nat /\ \A k \in 1 .. s.n : s.at[k] \in Cell
  BY <1>2, OwnedFacts
<1>4. List(h, i) = Places(s)
  BY ListIs
<1>5. Names(h, s) \in Seq(Object) /\ Len(Names(h, s)) = s.n
  BY <1>2, NamesFacts
<1>6. \A k \in 1 .. s.n : Names(h, s)[k] = h.cell[s.at[k]].object
  BY DEF Names
<1> HIDE DEF s
<1>7. Len(Places(s)) = s.n /\ \A k \in 1 .. s.n : Places(s)[k] = s.at[k]
  <2>1. Places(s) \in Seq(Cell)
    BY <1>3 DEF Places
  <2> QED BY <1>3, <2>1 DEF Places
<1> QED BY <1>2, <1>3, <1>4, <1>5, <1>6, <1>7 DEF ListSays, s

LEMMA SameNodesSelf == ASSUME NEW h PROVE SameNodes(h, h)
  BY DEF SameNodes

(* One round of a sweep that frees nothing but the cell it is at.          *)
OneWayAt(h, own, i, a, kept, k, at) ==
    \E m, gown : Reached(h, own, i, kept, k, m, at, gown) /\ OthersKept(h, own, at.heap, gown, a)

LEMMA OneWayRound ==
    ASSUME NEW h, NEW own, IsSound(h, own), NEW i \in 1 .. Len(h.node),
           NEW a, a = h.node[i].object, NEW gone, NEW kept,
           IsKept(Names(h, own[a]), gone, own[a].n, kept),
           NEW k \in Nat, k < own[a].n, NEW at, OneWayAt(h, own, i, a, kept, k, at),
           NEW c, c = own[a].at[k + 1]
    PROVE  OneWayAt(h, own, i, a, kept, k + 1, Visited(at, c, gone, at.heap))
<1> DEFINE next == Visited(at, c, gone, at.heap)
<1>1. PICK m, gown : Reached(h, own, i, kept, k, m, at, gown) /\ OthersKept(h, own, at.heap, gown, a)
  BY DEF OneWayAt
<1>2. Round(h, own, i, gone, kept, k, m, at, gown)
  BY <1>1 DEF Round
<1>3. CASE ~(h.cell[c].object \in gone)
  <2>1. IsPassed(h, own, i, kept, k, m, at, next, gown)
    BY <1>2, <1>3, Passed
  <2> HIDE DEF next
  <2>2. OthersKept(h, own, next.heap, gown, a)
    BY <1>1, <2>1 DEF IsPassed
  <2>3. OneWayAt(h, own, i, a, kept, k + 1, next)
    BY <2>1, <2>2 DEF OneWayAt, IsPassed
  <2> QED BY <2>3 DEF next
<1>4. CASE h.cell[c].object \in gone
  <2> DEFINE j == m + 1
             own2 == OwnedWithout(gown, a, j)
  <2>1. IsSound(at.heap, gown)
    BY <1>1 DEF Reached
  <2>2. MayFree(at.heap, gown, at.heap, gown, a)
    BY <2>1, SameNodesSelf DEF MayFree
  <2>3. IsHit(h, own, i, kept, k, a, next, at.heap, gown, j)
    BY <1>2, <1>4, <2>2, Hit
  <2> HIDE DEF next, j
  <2>4. /\ j \in 1 .. gown[a].n /\ IsWithoutCell(at.heap, gown, a, j, next.heap)
        /\ Reached(h, own, i, kept, k + 1, j - 1, next, own2)
    BY <2>3 DEF IsHit
  <2>5. a \in Object
    BY ListFacts DEF ListSays
  <2>6. OthersKept(at.heap, gown, next.heap, own2, a)
    BY <2>1, <2>4, <2>5, OthersAreKept
  <2> HIDE DEF own2
  <2>7. OthersKept(h, own, next.heap, own2, a)
    BY <1>1, <2>6 DEF OthersKept
  <2>8. OneWayAt(h, own, i, a, kept, k + 1, next)
    BY <2>4, <2>7 DEF OneWayAt
  <2> QED BY <2>8 DEF next
<1> QED BY <1>3, <1>4

(* One list loses what is gone, and no other list changes.                 *)
LEMMA SweptOneWay ==
    ASSUME NEW h, NEW own, IsSound(h, own), NEW i \in 1 .. Len(h.node), NEW gone,
           NEW a, a = h.node[i].object
    PROVE  \E gown : ErasedOneWay(h, own, a, gone, Swept(h, i, gone), gown)
<1> DEFINE s == own[a]
           n == s.n
           list == Names(h, s)
<1>0. ListSays(h, own, i, a)
  BY ListFacts
<1>1. /\ a \in Object /\ n \in Nat /\ Len(List(h, i)) = n
      /\ \A k \in 1 .. n : List(h, i)[k] = s.at[k]
      /\ list \in Seq(Object) /\ Len(list) = n
  BY <1>0 DEF ListSays
<1> HIDE DEF n, list
<1>2. PICK f : IsSweep(h, i, gone, n, f) /\ Swept(h, i, gone) = f[n].heap
  <2>1. \E f : /\ IsSweep(h, i, gone, Len(List(h, i)), f)
               /\ Swept(h, i, gone) = f[Len(List(h, i))].heap
    BY <1>1, SweepExists
  <2> QED BY <1>1, <2>1
<1>3. PICK kept : IsKept(list, gone, n, kept) /\ Graph!Without(list, gone) = kept[n]
  <2>1. \E kept : IsKept(list, gone, Len(list), kept) /\ Graph!Without(list, gone) = kept[Len(list)]
    BY <1>1, WithoutIs
  <2> QED BY <1>1, <2>1
<1> DEFINE T == {k \in Nat : k <= n => OneWayAt(h, own, i, a, kept, k, f[k])}
<1>4. 0 \in T
  <2>1. kept[0] = <<>> /\ f[0] = [heap |-> h, prev |-> -i]
    BY <1>2, <1>3 DEF IsKept, IsSweep
  <2>2. Reached(h, own, i, kept, 0, 0, f[0], own)
    BY <2>1, Started
  <2>3. OthersKept(h, own, f[0].heap, own, a)
    BY <2>1 DEF OthersKept
  <2>4. OneWayAt(h, own, i, a, kept, 0, f[0])
    BY <2>2, <2>3 DEF OneWayAt
  <2> QED BY <2>4
<1>5. ASSUME NEW k \in T, k \in Nat PROVE k + 1 \in T
  <2> SUFFICES ASSUME k + 1 <= n PROVE OneWayAt(h, own, i, a, kept, k + 1, f[k + 1])
    BY <1>5
  <2> DEFINE j == k + 1
  <2>1. k < n /\ j \in 1 .. n /\ j - 1 = k
    BY <1>1, <1>5
  <2>2. OneWayAt(h, own, i, a, kept, k, f[k])
    BY <1>1, <1>5
  <2> HIDE DEF j, s
  <2>3. f[j] = Visited(f[j - 1], List(h, i)[j], gone, f[j - 1].heap)
    BY <1>2, <2>1 DEF IsSweep
  <2>4. f[j] = Visited(f[k], s.at[j], gone, f[k].heap)
    BY <1>1, <2>1, <2>3
  <2> DEFINE at == f[k]
             c == s.at[j]
  <2> HIDE DEF at
  <2>5. OneWayAt(h, own, i, a, kept, k + 1, Visited(at, c, gone, at.heap))
    <3>1. k < own[a].n /\ c = own[a].at[k + 1]
      BY <2>1 DEF n, s, j
    <3>2. IsKept(Names(h, own[a]), gone, own[a].n, kept)
      BY <1>3 DEF list, n, s
    <3>3. OneWayAt(h, own, i, a, kept, k, at)
      BY <2>2 DEF at
    <3> HIDE DEF c
    <3> QED BY <1>5, <3>1, <3>2, <3>3, OneWayRound
  <2> QED BY <2>4, <2>5 DEF at, j
<1>6. n \in T
  <2> HIDE DEF T
  <2> QED BY <1>1, <1>4, <1>5, Induct
<1>7. OneWayAt(h, own, i, a, kept, n, f[n])
  BY <1>1, <1>6
<1>8. PICK m, gown :
         Reached(h, own, i, kept, n, m, f[n], gown) /\ OthersKept(h, own, f[n].heap, gown, a)
  BY <1>7 DEF OneWayAt
<1>9. IsFinished(h, f[n].heap, gown, a, kept[n])
  <2>1. n = own[a].n
    BY DEF n
  <2> DEFINE at == f[n]
  <2>2. Reached(h, own, i, kept, n, m, at, gown)
    BY <1>8
  <2> HIDE DEF at
  <2>3. IsFinished(h, at.heap, gown, a, kept[n])
    BY <2>1, <2>2, Finished
  <2> QED BY <2>3 DEF at
<1>10. ErasedOneWay(h, own, a, gone, f[n].heap, gown)
  BY <1>3, <1>8, <1>9 DEF ErasedOneWay, IsFinished, list
<1> QED BY <1>2, <1>10

LEMMA EraseOneWayIs ==
    ASSUME NEW h, NEW own, IsSound(h, own), AddressesAreNear, NEW a \in Object, NEW gone
    PROVE  \E gown : ErasedOneWay(h, own, a, gone, EraseOneWay(h, a, gone), gown)
<1> DEFINE at == Find(h, a)
<1>1. h \in Heap /\ InOrder(h) /\ Linked(h, own)
  BY DEF IsSound
<1>2. CASE FoundAt(h, a, at) /\ HasNode(h, a)
  <2>1. at.found = TRUE /\ at.index \in 1 .. Len(h.node) /\ a = h.node[at.index].object
    BY <1>2 DEF FoundAt
  <2>2. EraseOneWay(h, a, gone) = Swept(h, at.index, gone)
    BY <2>1 DEF EraseOneWay
  <2> HIDE DEF at
  <2>3. \E gown : ErasedOneWay(h, own, a, gone, Swept(h, at.index, gone), gown)
    BY <2>1, SweptOneWay
  <2> QED BY <2>2, <2>3
<1>3. CASE MissingAt(h, a, at) /\ ~HasNode(h, a)
  <2>1. EraseOneWay(h, a, gone) = h
    BY <1>3 DEF EraseOneWay, MissingAt
  <2>2. Names(h, own[a]) \in Seq(Object) /\ Len(Names(h, own[a])) = own[a].n /\ own[a].n = 0
    BY <1>1, <1>3, NamesFacts DEF Linked
  <2>3. Graph!Without(Names(h, own[a]), gone) = Names(h, own[a])
    <3> DEFINE list == Names(h, own[a])
    <3>1. list \in Seq(Object) /\ \A k \in 1 .. Len(list) : list[k] \notin gone
      BY <2>2
    <3> HIDE DEF list
    <3>2. Graph!Without(list, gone) = list
      BY <3>1, WithoutNothing
    <3> QED BY <3>2 DEF list
  <2>4. ErasedOneWay(h, own, a, gone, h, own)
    BY <2>3, SameNodesSelf DEF ErasedOneWay, OthersKept
  <2> QED BY <2>1, <2>4
<1> QED BY <1>1, <1>2, <1>3, FindIs

-----------------------------------------------------------------------------
(* sq_relation_erase() that takes the reverse references as well.          *)
RoundBothWays(h, i, gone, at, c) ==
    Visited(at, c, gone, Unrelated(at.heap, c, h.node[i].object))

IsSweepBothWays(h, i, gone, n, f) ==
    /\ f[0] = [heap |-> h, prev |-> -i]
    /\ \A k \in 1 .. n : f[k] = RoundBothWays(h, i, gone, f[k - 1], List(h, i)[k])

(* no_reverse = 0: the reverse reference goes before the cell.             *)
LEMMA SweepBothWaysExists ==
    ASSUME NEW h, NEW i, NEW gone, Len(List(h, i)) \in Nat
    PROVE  \E f : /\ IsSweepBothWays(h, i, gone, Len(List(h, i)), f)
                  /\ SweptBothWays(h, i, gone) = f[Len(List(h, i))].heap
<1> DEFINE cells == List(h, i)
           n == Len(cells)
           Sweep(m, f) == f = [k \in 0 .. m |->
                                 IF k = 0 THEN [heap |-> h, prev |-> -i]
                                 ELSE RoundBothWays(h, i, gone, f[k - 1], cells[k])]
           T == {m \in Nat : \E f : Sweep(m, f)}
<1>1. 0 \in T
  <2>1. Sweep(0, [k \in 0 .. 0 |-> [heap |-> h, prev |-> -i]])
    OBVIOUS
  <2> QED BY <2>1
<1>2. ASSUME NEW m \in T, m \in Nat PROVE m + 1 \in T
  <2>1. PICK f : Sweep(m, f)
    BY <1>2
  <2> HIDE DEF cells
  <2> DEFINE g == [k \in 0 .. m + 1 |->
                     IF k = m + 1 THEN RoundBothWays(h, i, gone, f[m], cells[k]) ELSE f[k]]
  <2>2. \A k \in 0 .. m : f[k] = IF k = 0 THEN [heap |-> h, prev |-> -i]
                                ELSE RoundBothWays(h, i, gone, f[k - 1], cells[k])
    BY <2>1
  <2>3. \A k \in 0 .. m : g[k] = f[k]
    BY <1>2
  <2>4. g[m + 1] = RoundBothWays(h, i, gone, f[m], cells[m + 1])
    BY <1>2
  <2>5. g = [k \in 0 .. m + 1 |-> g[k]]
    OBVIOUS
  <2> HIDE DEF g
  <2>6. ASSUME NEW k \in 0 .. m + 1
        PROVE  g[k] = IF k = 0 THEN [heap |-> h, prev |-> -i]
                      ELSE RoundBothWays(h, i, gone, g[k - 1], cells[k])
    <3>1. CASE k = m + 1
      <4>1. k # 0 /\ k - 1 = m /\ m \in 0 .. m
        BY <1>2, <3>1
      <4>2. g[k - 1] = f[m]
        BY <2>3, <4>1
      <4> QED BY <2>4, <3>1, <4>1, <4>2
    <3>2. CASE k # m + 1
      <4>1. k \in 0 .. m /\ (k # 0 => k - 1 \in 0 .. m)
        BY <1>2, <3>2
      <4> QED BY <2>2, <2>3, <4>1
    <3> QED BY <3>1, <3>2
  <2>7. Sweep(m + 1, g)
    BY <2>5, <2>6
  <2>8. \E e : Sweep(m + 1, e)
    <3> HIDE DEF Sweep
    <3> QED BY <2>7
  <2>9. m + 1 \in Nat
    BY <1>2
  <2> HIDE DEF Sweep
  <2> QED BY <2>8, <2>9
<1>3. n \in T
  <2> HIDE DEF T, n
  <2>1. n \in Nat
    BY DEF n, cells
  <2> QED BY <1>1, <1>2, <2>1, Induct
<1> DEFINE sweep == CHOOSE f : Sweep(n, f)
<1>4. Sweep(n, sweep)
  BY <1>3
<1>5. SweptBothWays(h, i, gone) = sweep[n].heap
  BY DEF SweptBothWays, RoundBothWays
<1> HIDE DEF sweep
<1>6. IsSweepBothWays(h, i, gone, n, sweep)
  <2> HIDE DEF cells
  <2>1. 0 \in 0 .. n /\ \A k \in 1 .. n : k \in 0 .. n /\ k # 0
    <3>1. n \in Nat
      BY DEF cells
    <3> HIDE DEF n
    <3> QED BY <3>1
  <2>2. \A k \in 0 .. n : sweep[k] = IF k = 0 THEN [heap |-> h, prev |-> -i]
                                    ELSE RoundBothWays(h, i, gone, sweep[k - 1], cells[k])
    BY <1>4
  <2> HIDE DEF n
  <2> QED BY <2>1, <2>2 DEF IsSweepBothWays, cells
<1> QED BY <1>5, <1>6

LEMMA WithoutTwice ==
    ASSUME NEW S, NEW list \in Seq(S), NEW A
    PROVE  Graph!Without(Graph!Without(list, A), A) = Graph!Without(list, A)
<1>1. A \cup A = A
  OBVIOUS
<1>2. Graph!Without(Graph!Without(list, A), A) = Graph!Without(list, A \cup A)
  BY WithoutBoth
<1> QED BY <1>1, <1>2

(* Those in P no longer list a.                                            *)
BothNamed(h, own, g, gown, a, P) ==
    \A o \in Object : o # a =>
        /\ Names(g, gown[o]) = IF o \in P THEN Graph!Without(Names(h, own[o]), {a})
                               ELSE Names(h, own[o])
        /\ o \notin P => gown[o] = own[o]

FirstHit(h, own, a, gone, k) == {Names(h, own[a])[l] : l \in 1 .. k} \cap gone

BothWaysAt(h, own, i, a, gone, kept, k, at) ==
    \E m, gown : /\ Reached(h, own, i, kept, k, m, at, gown)
                 /\ BothNamed(h, own, at.heap, gown, a, FirstHit(h, own, a, gone, k))

HitNext(h, own, a, gone, k, x) ==
    FirstHit(h, own, a, gone, k + 1) = FirstHit(h, own, a, gone, k) \cup ({x} \cap gone)

(* The objects that were met so far.                                       *)
LEMMA FirstHitNext ==
    ASSUME NEW h, NEW own, NEW a, NEW gone, NEW k \in Nat, k < own[a].n, own[a].n \in Nat,
           NEW x, x = h.cell[own[a].at[k + 1]].object
    PROVE  HitNext(h, own, a, gone, k, x)
<1> DEFINE list == Names(h, own[a])
           n == own[a].n
<1>1. k + 1 \in 1 .. n
  OBVIOUS
<1>2. list[k + 1] = x
  BY <1>1 DEF Names
<1> HIDE DEF list
<1>3. {list[l] : l \in 1 .. k + 1} = {list[l] : l \in 1 .. k} \cup {x}
  <2>1. \A l : l \in 1 .. k + 1 <=> l \in 1 .. k \/ l = k + 1
    OBVIOUS
  <2> QED BY <1>2, <2>1
<1> QED BY <1>3 DEF HitNext, FirstHit, list

(* What a cell names loses a, in the heap that a round starts from.        *)
LEMMA UnrelatedBoth ==
    ASSUME NEW h, NEW own, IsSound(h, own), NEW a \in Object, NEW P, NEW g, NEW gown,
           BothNamed(h, own, g, gown, a, P),
           NEW x \in Object, x # a, NEW b, NEW bown, ErasedOneWay(g, gown, x, {a}, b, bown)
    PROVE  BothNamed(h, own, b, bown, a, P \cup {x})
<1>1. SUFFICES ASSUME NEW o \in Object, o # a
               PROVE  /\ Names(b, bown[o]) = IF o \in P \cup {x} THEN Graph!Without(Names(h, own[o]), {a})
                                             ELSE Names(h, own[o])
                      /\ o \notin P \cup {x} => bown[o] = own[o]
  BY DEF BothNamed
<1> DEFINE R == Names(h, own[o])
           W == Graph!Without(R, {a})
<1>2. /\ Names(g, gown[o]) = IF o \in P THEN W ELSE R
      /\ o \notin P => gown[o] = own[o]
  BY <1>1 DEF BothNamed
<1>3. R \in Seq(Object)
  BY NamesFacts
<1>4. Graph!Without(W, {a}) = W
  <2> HIDE DEF R
  <2> QED BY <1>3, WithoutTwice
<1>5. CASE o = x
  <2>1. Names(b, bown[o]) = Graph!Without(Names(g, gown[o]), {a})
    BY <1>5 DEF ErasedOneWay
  <2> DEFINE Q == Names(g, gown[o])
  <2>2. Names(b, bown[o]) = Graph!Without(Q, {a}) /\ (Q = W \/ Q = R)
    BY <1>2, <2>1
  <2> HIDE DEF Q, W
  <2>3. Graph!Without(Q, {a}) = W
    <3>1. CASE Q = W
      BY <1>4, <3>1
    <3>2. CASE Q = R
      BY <3>2 DEF W
    <3> QED BY <2>2, <3>1, <3>2
  <2>4. Names(b, bown[o]) = W
    BY <2>2, <2>3
  <2>5. o \in P \cup {x}
    BY <1>5
  <2> QED BY <2>4, <2>5 DEF W
<1>6. CASE o # x
  <2>1. bown[o] = gown[o] /\ Names(b, bown[o]) = Names(g, gown[o])
    BY <1>1, <1>6 DEF ErasedOneWay, OthersKept
  <2>2. o \in P \cup {x} <=> o \in P
    BY <1>6
  <2> HIDE DEF W, R
  <2>3. /\ Names(b, bown[o]) = IF o \in P \cup {x} THEN W ELSE R
        /\ o \notin P \cup {x} => bown[o] = own[o]
    BY <1>2, <2>1, <2>2
  <2> QED BY <2>3 DEF W, R
<1> QED BY <1>5, <1>6

LEMMA BothKept ==
    ASSUME NEW h, NEW own, NEW a, NEW P, NEW b, NEW bown, BothNamed(h, own, b, bown, a, P),
           NEW e, NEW eown, OthersKept(b, bown, e, eown, a)
    PROVE  BothNamed(h, own, e, eown, a, P)
<1>1. ASSUME NEW o \in Object, o # a
      PROVE  /\ Names(e, eown[o]) = IF o \in P THEN Graph!Without(Names(h, own[o]), {a})
                                    ELSE Names(h, own[o])
             /\ o \notin P => eown[o] = own[o]
  <2>1. /\ Names(b, bown[o]) = IF o \in P THEN Graph!Without(Names(h, own[o]), {a})
                               ELSE Names(h, own[o])
        /\ o \notin P => bown[o] = own[o]
    BY <1>1 DEF BothNamed
  <2>2. eown[o] = bown[o] /\ Names(e, eown[o]) = Names(b, bown[o])
    BY <1>1 DEF OthersKept
  <2> QED BY <2>1, <2>2
<1> QED BY <1>1 DEF BothNamed

(* A round of it.                                                          *)
LEMMA BothWaysRound ==
    ASSUME NEW h, NEW own, IsSound(h, own), AddressesAreNear, NEW i \in 1 .. Len(h.node),
           NEW a, a = h.node[i].object, NEW gone, NEW kept,
           IsKept(Names(h, own[a]), gone, own[a].n, kept),
           NEW k \in Nat, k < own[a].n, NEW at, BothWaysAt(h, own, i, a, gone, kept, k, at),
           NEW c, c = own[a].at[k + 1], NEW x, x = h.cell[c].object, x # a
    PROVE  BothWaysAt(h, own, i, a, gone, kept, k + 1, RoundBothWays(h, i, gone, at, c))
<1> DEFINE b == Unrelated(at.heap, c, a)
           next == Visited(at, c, gone, b)
           P == FirstHit(h, own, a, gone, k)
<1>1. PICK m, gown : /\ Reached(h, own, i, kept, k, m, at, gown)
                     /\ BothNamed(h, own, at.heap, gown, a, P)
  BY DEF BothWaysAt
<1>2. Round(h, own, i, gone, kept, k, m, at, gown)
  BY <1>1 DEF Round
<1>3. FirstHit(h, own, a, gone, k + 1) = P \cup ({x} \cap gone)
  <2>1. own[a].n \in Nat
    BY ListFacts DEF ListSays
  <2>2. x = h.cell[own[a].at[k + 1]].object /\ k \in Nat /\ k < own[a].n
    OBVIOUS
  <2>3. HitNext(h, own, a, gone, k, x)
    BY <2>1, <2>2, FirstHitNext
  <2> QED BY <2>3 DEF HitNext
<1>4. RoundBothWays(h, i, gone, at, c) = next
  BY DEF RoundBothWays
<1> HIDE DEF P
<1>5. CASE ~(x \in gone)
  <2>1. IsPassed(h, own, i, kept, k, m, at, next, gown)
    <3> HIDE DEF b
    <3> QED BY <1>2, <1>5, Passed
  <2>2. FirstHit(h, own, a, gone, k + 1) = P
    BY <1>3, <1>5
  <2> HIDE DEF next
  <2>3. BothWaysAt(h, own, i, a, gone, kept, k + 1, next)
    BY <1>1, <2>1, <2>2 DEF BothWaysAt, IsPassed
  <2> QED BY <1>4, <2>3
<1>6. CASE x \in gone
  <2>1. RoundSays(h, own, i, kept, k, m, at, gown)
    BY <1>2, RoundFacts
  <2> DEFINE g == at.heap
  <2>2. IsSound(g, gown) /\ g.cell[c].object = x
    BY <2>1 DEF RoundSays
  <2>3. a \in Object /\ x \in Object
    <3>1. ListSays(h, own, i, a)
      BY ListFacts
    <3>2. a \in Object /\ own[a].n \in Nat
      BY <3>1 DEF ListSays
    <3>3. Linked(h, own) /\ k + 1 \in 1 .. own[a].n
      <4>1. Linked(h, own)
        BY DEF IsSound
      <4>2. k + 1 \in 1 .. own[a].n
        BY <2>1 DEF RoundSays
      <4> QED BY <4>1, <4>2
    <3>4. h.cell[own[a].at[k + 1]].object \in Object
      BY <3>2, <3>3 DEF Linked
    <3> QED BY <3>2, <3>4
  <2>4. PICK bown : ErasedOneWay(g, gown, x, {a}, b, bown)
    <3>1. b = EraseOneWay(g, x, {a})
      BY <2>2 DEF Unrelated
    <3> HIDE DEF b, g
    <3>2. \E bown : ErasedOneWay(g, gown, x, {a}, EraseOneWay(g, x, {a}), bown)
      BY <2>2, <2>3, EraseOneWayIs
    <3> QED BY <3>1, <3>2
  <2> HIDE DEF b
  <2>5. MayFree(g, gown, b, bown, a)
    BY <2>3, <2>4 DEF MayFree, ErasedOneWay, OthersKept
  <2> DEFINE j == m + 1
             own2 == OwnedWithout(bown, a, j)
  <2>6. IsHit(h, own, i, kept, k, a, next, b, bown, j)
    BY <1>2, <1>6, <2>5, Hit
  <2> HIDE DEF next, j, g
  <2>7. /\ j \in 1 .. bown[a].n /\ IsWithoutCell(b, bown, a, j, next.heap)
        /\ Reached(h, own, i, kept, k + 1, j - 1, next, own2)
    BY <2>6 DEF IsHit
  <2>8. OthersKept(b, bown, next.heap, own2, a)
    <3>1. IsSound(b, bown)
      BY <2>5 DEF MayFree
    <3> QED BY <2>3, <2>7, <3>1, OthersAreKept
  <2>9. BothNamed(h, own, b, bown, a, P \cup {x})
    BY <1>1, <2>3, <2>4, UnrelatedBoth DEF g
  <2> HIDE DEF own2
  <2>10. BothNamed(h, own, next.heap, own2, a, P \cup {x})
    BY <2>8, <2>9, BothKept
  <2>11. FirstHit(h, own, a, gone, k + 1) = P \cup {x}
    BY <1>3, <1>6
  <2>12. BothWaysAt(h, own, i, a, gone, kept, k + 1, next)
    BY <2>7, <2>10, <2>11 DEF BothWaysAt
  <2> QED BY <1>4, <2>12
<1> QED BY <1>5, <1>6

ErasedBothWays(h, own, a, gone, g, gown) ==
    /\ IsSound(g, gown) /\ SameNodes(h, g)
    /\ Names(g, gown[a]) = Graph!Without(Names(h, own[a]), gone)
    /\ BothNamed(h, own, g, gown, a, Range(Names(h, own[a])) \cap gone)

(* One list loses what is gone, and what is gone loses it.                 *)
LEMMA SweptBoth ==
    ASSUME NEW h, NEW own, IsSound(h, own), AddressesAreNear, NEW i \in 1 .. Len(h.node), NEW gone,
           NEW a, a = h.node[i].object, a \notin Range(Names(h, own[a]))
    PROVE  \E gown : ErasedBothWays(h, own, a, gone, SweptBothWays(h, i, gone), gown)
<1> DEFINE s == own[a]
           n == s.n
           list == Names(h, s)
<1>0. ListSays(h, own, i, a)
  BY ListFacts
<1>1. /\ a \in Object /\ n \in Nat /\ Len(List(h, i)) = n
      /\ \A k \in 1 .. n : List(h, i)[k] = s.at[k]
      /\ list \in Seq(Object) /\ Len(list) = n
      /\ \A k \in 1 .. n : list[k] = h.cell[s.at[k]].object
  BY <1>0 DEF ListSays
<1>a. \A k \in 1 .. n : h.cell[s.at[k]].object # a
  <2>1. a \notin Range(list)
    OBVIOUS
  <2> HIDE DEF n, list, s
  <2>2. DOMAIN list = 1 .. n
    BY <1>1
  <2> QED BY <1>1, <2>1, <2>2 DEF Range
<1>b. FirstHit(h, own, a, gone, n) = Range(list) \cap gone /\ FirstHit(h, own, a, gone, 0) = {}
  <2> HIDE DEF n
  <2>1. DOMAIN list = 1 .. n
    <3>1. list \in Seq(Object) /\ Len(list) = n
      BY <1>1
    <3> HIDE DEF list
    <3> QED BY <3>1
  <2>2. FirstHit(h, own, a, gone, n) = {list[l] : l \in 1 .. n} \cap gone
    BY DEF FirstHit
  <2>3. {list[l] : l \in 1 .. n} = Range(list)
    <3> HIDE DEF list
    <3> QED BY <2>1 DEF Range
  <2>4. FirstHit(h, own, a, gone, 0) = {}
    BY DEF FirstHit
  <2> QED BY <2>2, <2>3, <2>4
<1> HIDE DEF n, list
<1>2. PICK f : IsSweepBothWays(h, i, gone, n, f) /\ SweptBothWays(h, i, gone) = f[n].heap
  <2>1. \E f : /\ IsSweepBothWays(h, i, gone, Len(List(h, i)), f)
               /\ SweptBothWays(h, i, gone) = f[Len(List(h, i))].heap
    BY <1>1, SweepBothWaysExists
  <2> QED BY <1>1, <2>1
<1>3. PICK kept : IsKept(list, gone, n, kept) /\ Graph!Without(list, gone) = kept[n]
  <2>1. \E kept : IsKept(list, gone, Len(list), kept) /\ Graph!Without(list, gone) = kept[Len(list)]
    BY <1>1, WithoutIs
  <2> QED BY <1>1, <2>1
<1> DEFINE T == {k \in Nat : k <= n => BothWaysAt(h, own, i, a, gone, kept, k, f[k])}
<1>4. 0 \in T
  <2>1. kept[0] = <<>> /\ f[0] = [heap |-> h, prev |-> -i]
    BY <1>2, <1>3 DEF IsKept, IsSweepBothWays
  <2>2. Reached(h, own, i, kept, 0, 0, f[0], own)
    BY <2>1, Started
  <2>3. BothNamed(h, own, f[0].heap, own, a, {})
    BY <2>1 DEF BothNamed
  <2>4. BothWaysAt(h, own, i, a, gone, kept, 0, f[0])
    BY <1>b, <2>2, <2>3 DEF BothWaysAt
  <2> QED BY <2>4
<1>5. ASSUME NEW k \in T, k \in Nat PROVE k + 1 \in T
  <2> SUFFICES ASSUME k + 1 <= n PROVE BothWaysAt(h, own, i, a, gone, kept, k + 1, f[k + 1])
    BY <1>5
  <2> DEFINE j == k + 1
  <2>1. k < n /\ j \in 1 .. n /\ j - 1 = k
    BY <1>1, <1>5
  <2>2. BothWaysAt(h, own, i, a, gone, kept, k, f[k])
    BY <1>1, <1>5
  <2> HIDE DEF j, s
  <2>3. f[j] = RoundBothWays(h, i, gone, f[j - 1], List(h, i)[j])
    BY <1>2, <2>1 DEF IsSweepBothWays
  <2>4. f[j] = RoundBothWays(h, i, gone, f[k], s.at[j])
    BY <1>1, <2>1, <2>3
  <2> DEFINE at == f[k]
             c == s.at[j]
             x == h.cell[c].object
  <2> HIDE DEF at
  <2>5. BothWaysAt(h, own, i, a, gone, kept, k + 1, RoundBothWays(h, i, gone, at, c))
    <3>1. k < own[a].n /\ c = own[a].at[k + 1]
      BY <2>1 DEF n, s, j
    <3>2. IsKept(Names(h, own[a]), gone, own[a].n, kept)
      BY <1>3 DEF list, n, s
    <3>3. BothWaysAt(h, own, i, a, gone, kept, k, at)
      BY <2>2 DEF at
    <3>4. x = h.cell[c].object /\ x # a
      BY <1>a, <2>1
    <3> HIDE DEF c, x
    <3> QED BY <1>5, <3>1, <3>2, <3>3, <3>4, BothWaysRound
  <2> QED BY <2>4, <2>5 DEF at, j
<1>6. n \in T
  <2> HIDE DEF T
  <2> QED BY <1>1, <1>4, <1>5, Induct
<1>7. BothWaysAt(h, own, i, a, gone, kept, n, f[n])
  BY <1>1, <1>6
<1>8. PICK m, gown :
         /\ Reached(h, own, i, kept, n, m, f[n], gown)
         /\ BothNamed(h, own, f[n].heap, gown, a, FirstHit(h, own, a, gone, n))
  BY <1>7 DEF BothWaysAt
<1>9. IsFinished(h, f[n].heap, gown, a, kept[n])
  <2>1. n = own[a].n
    BY DEF n
  <2> DEFINE at == f[n]
  <2>2. Reached(h, own, i, kept, n, m, at, gown)
    BY <1>8
  <2> HIDE DEF at
  <2>3. IsFinished(h, at.heap, gown, a, kept[n])
    BY <2>1, <2>2, Finished
  <2> QED BY <2>3 DEF at
<1>10. ErasedBothWays(h, own, a, gone, f[n].heap, gown)
  BY <1>b, <1>3, <1>8, <1>9 DEF ErasedBothWays, IsFinished, list
<1> QED BY <1>2, <1>10

LEMMA EraseBothWaysIs ==
    ASSUME NEW h, NEW own, IsSound(h, own), AddressesAreNear, NEW a \in Object, NEW gone,
           a \notin Range(Names(h, own[a]))
    PROVE  \E gown : ErasedBothWays(h, own, a, gone, EraseBothWays(h, a, gone), gown)
<1> DEFINE at == Find(h, a)
<1>1. h \in Heap /\ InOrder(h) /\ Linked(h, own)
  BY DEF IsSound
<1>2. CASE FoundAt(h, a, at) /\ HasNode(h, a)
  <2>1. at.found = TRUE /\ at.index \in 1 .. Len(h.node) /\ a = h.node[at.index].object
    BY <1>2 DEF FoundAt
  <2>2. EraseBothWays(h, a, gone) = SweptBothWays(h, at.index, gone)
    BY <2>1 DEF EraseBothWays
  <2> HIDE DEF at
  <2>3. \E gown : ErasedBothWays(h, own, a, gone, SweptBothWays(h, at.index, gone), gown)
    BY <2>1, SweptBoth
  <2> QED BY <2>2, <2>3
<1>3. CASE MissingAt(h, a, at) /\ ~HasNode(h, a)
  <2>1. EraseBothWays(h, a, gone) = h
    BY <1>3 DEF EraseBothWays, MissingAt
  <2> DEFINE list == Names(h, own[a])
  <2>2. list \in Seq(Object) /\ Len(list) = 0
    BY <1>1, <1>3, NamesFacts DEF Linked
  <2> HIDE DEF list
  <2>3. Graph!Without(list, gone) = list
    <3>1. list \in Seq(Object) /\ \A k \in 1 .. Len(list) : list[k] \notin gone
      BY <2>2
    <3> QED BY <3>1, WithoutNothing
  <2>4. Range(list) \cap gone = {}
    BY <2>2 DEF Range
  <2>5. BothNamed(h, own, h, own, a, {})
    BY DEF BothNamed
  <2>6. ErasedBothWays(h, own, a, gone, h, own)
    BY <2>3, <2>4, <2>5, SameNodesSelf DEF ErasedBothWays, list
  <2> QED BY <2>1, <2>6
<1> QED BY <1>1, <1>2, <1>3, FindIs

-----------------------------------------------------------------------------
(* sq_relation_erase() that frees what the list names.                     *)
RoundFreed(h, i, at, c) ==
    Visited(at, c, Object, Isolated(at.heap, c, h.node[i].object))

IsSweepFreed(h, i, n, f) ==
    /\ f[0] = [heap |-> h, prev |-> -i]
    /\ \A k \in 1 .. n : f[k] = RoundFreed(h, i, f[k - 1], List(h, i)[k])

(* no_reverse = -1: the loop that frees.                                   *)
LEMMA SweepFreedExists ==
    ASSUME NEW h, NEW i, Len(List(h, i)) \in Nat
    PROVE  \E f : /\ IsSweepFreed(h, i, Len(List(h, i)), f)
                  /\ SweptAndFreed(h, i) = f[Len(List(h, i))].heap
<1> DEFINE cells == List(h, i)
           n == Len(cells)
           Sweep(m, f) == f = [k \in 0 .. m |->
                                 IF k = 0 THEN [heap |-> h, prev |-> -i]
                                 ELSE RoundFreed(h, i, f[k - 1], cells[k])]
           T == {m \in Nat : \E f : Sweep(m, f)}
<1>1. 0 \in T
  <2>1. Sweep(0, [k \in 0 .. 0 |-> [heap |-> h, prev |-> -i]])
    OBVIOUS
  <2> QED BY <2>1
<1>2. ASSUME NEW m \in T, m \in Nat PROVE m + 1 \in T
  <2>1. PICK f : Sweep(m, f)
    BY <1>2
  <2> HIDE DEF cells
  <2> DEFINE g == [k \in 0 .. m + 1 |->
                     IF k = m + 1 THEN RoundFreed(h, i, f[m], cells[k]) ELSE f[k]]
  <2>2. \A k \in 0 .. m : f[k] = IF k = 0 THEN [heap |-> h, prev |-> -i]
                                ELSE RoundFreed(h, i, f[k - 1], cells[k])
    BY <2>1
  <2>3. \A k \in 0 .. m : g[k] = f[k]
    BY <1>2
  <2>4. g[m + 1] = RoundFreed(h, i, f[m], cells[m + 1])
    BY <1>2
  <2>5. g = [k \in 0 .. m + 1 |-> g[k]]
    OBVIOUS
  <2> HIDE DEF g
  <2>6. ASSUME NEW k \in 0 .. m + 1
        PROVE  g[k] = IF k = 0 THEN [heap |-> h, prev |-> -i]
                      ELSE RoundFreed(h, i, g[k - 1], cells[k])
    <3>1. CASE k = m + 1
      <4>1. k # 0 /\ k - 1 = m /\ m \in 0 .. m
        BY <1>2, <3>1
      <4>2. g[k - 1] = f[m]
        BY <2>3, <4>1
      <4> QED BY <2>4, <3>1, <4>1, <4>2
    <3>2. CASE k # m + 1
      <4>1. k \in 0 .. m /\ (k # 0 => k - 1 \in 0 .. m)
        BY <1>2, <3>2
      <4> QED BY <2>2, <2>3, <4>1
    <3> QED BY <3>1, <3>2
  <2>7. Sweep(m + 1, g)
    BY <2>5, <2>6
  <2>8. \E e : Sweep(m + 1, e)
    <3> HIDE DEF Sweep
    <3> QED BY <2>7
  <2>9. m + 1 \in Nat
    BY <1>2
  <2> HIDE DEF Sweep
  <2> QED BY <2>8, <2>9
<1>3. n \in T
  <2> HIDE DEF T, n
  <2>1. n \in Nat
    BY DEF n, cells
  <2> QED BY <1>1, <1>2, <2>1, Induct
<1> DEFINE sweep == CHOOSE f : Sweep(n, f)
<1>4. Sweep(n, sweep)
  BY <1>3
<1>5. SweptAndFreed(h, i) = sweep[n].heap
  BY DEF SweptAndFreed, RoundFreed
<1> HIDE DEF sweep
<1>6. IsSweepFreed(h, i, n, sweep)
  <2> HIDE DEF cells
  <2>1. 0 \in 0 .. n /\ \A k \in 1 .. n : k \in 0 .. n /\ k # 0
    <3>1. n \in Nat
      BY DEF cells
    <3> HIDE DEF n
    <3> QED BY <3>1
  <2>2. \A k \in 0 .. n : sweep[k] = IF k = 0 THEN [heap |-> h, prev |-> -i]
                                    ELSE RoundFreed(h, i, sweep[k - 1], cells[k])
    BY <1>4
  <2> HIDE DEF n
  <2> QED BY <2>1, <2>2 DEF IsSweepFreed, cells
<1> QED BY <1>5, <1>6

(* Those in P are freed: they list nothing, and no other than a lists      *)
(* them.                                                                   *)
FreedNamed(h, own, g, gown, a, P) ==
    \A o \in Object : o # a =>
        Names(g, gown[o]) = IF o \in P THEN <<>> ELSE Graph!Without(Names(h, own[o]), P)

FreedAt(h, own, i, a, kept, k, at) ==
    \E m, gown : /\ Reached(h, own, i, kept, k, m, at, gown)
                 /\ FreedNamed(h, own, at.heap, gown, a, FirstHit(h, own, a, Object, k))

(* What a lists can be freed: each is listed by those that it lists.       *)
CanFree(h, own, a) ==
    \A x \in Range(Names(h, own[a])) :
        /\ x # a /\ x \notin Range(Names(h, own[x]))
        /\ \A o \in Object :
              o # a /\ x \in Range(Names(h, own[o])) => o \in Range(Names(h, own[x]))

(* Without, of lists of objects.                                           *)
LEMMA EmptyWithout ==
    ASSUME NEW A
    PROVE  Graph!Without(<<>>, A) = <<>>
<1>1. Len(<<>>) = 0 /\ \A k \in 1 .. 0 : <<>>[k] \in A
  OBVIOUS
<1> QED BY <1>1, WithoutAll

LEMMA AllWithout ==
    ASSUME NEW list \in Seq(Object)
    PROVE  Graph!Without(list, Object) = <<>>
<1>1. Len(list) \in Nat /\ \A k \in 1 .. Len(list) : list[k] \in Object
  OBVIOUS
<1> QED BY <1>1, WithoutAll

LEMMA NotListed ==
    ASSUME NEW list \in Seq(Object), NEW A, \A x \in A : x \notin Range(list)
    PROVE  Graph!Without(list, A) = list
<1>1. \A k \in 1 .. Len(list) : list[k] \notin A
  BY DEF Range
<1> QED BY <1>1, WithoutNothing

(* What Isolated does to the lists G, by way of U, where R are those       *)
(* before the sweep.                                                       *)
AreFreed(R, G, a, P) ==
    \A o \in Object : o # a => G[o] = IF o \in P THEN <<>> ELSE Graph!Without(R[o], P)

LosesOne(G, U, x, a) ==
    \A o \in Object : U[o] = IF o = x THEN Graph!Without(G[x], {a}) ELSE G[o]

IsEmptied(U, B, x) ==
    \A o \in Object : B[o] = IF o = x THEN <<>>
                             ELSE IF o \in Range(U[x]) THEN Graph!Without(U[o], {x})
                             ELSE U[o]

ListsBack(R, a, x) ==
    /\ x # a /\ x \notin Range(R[x])
    /\ \A o \in Object : o # a /\ x \in Range(R[o]) => o \in Range(R[x])

LEMMA WithoutOneMore ==
    ASSUME NEW list \in Seq(Object), NEW P, NEW x
    PROVE  Graph!Without(Graph!Without(list, P), {x}) = Graph!Without(list, P \cup {x})
<1> DEFINE X == {x}
<1> HIDE DEF X
<1>1. Graph!Without(Graph!Without(list, P), X) = Graph!Without(list, P \cup X)
  BY WithoutBoth
<1> QED BY <1>1 DEF X

(* In the lists of RelationGraph: one more object is in no list.           *)
LEMMA IsolatedLists ==
    ASSUME NEW R \in [Object -> Seq(Object)], NEW G \in [Object -> Seq(Object)],
           NEW U \in [Object -> Seq(Object)], NEW B \in [Object -> Seq(Object)],
           NEW a \in Object, NEW P, NEW x \in Object, ListsBack(R, a, x),
           AreFreed(R, G, a, P), LosesOne(G, U, x, a), IsEmptied(U, B, x)
    PROVE  AreFreed(R, B, a, P \cup {x})
<1>1. SUFFICES ASSUME NEW o \in Object, o # a
               PROVE  B[o] = IF o \in P \cup {x} THEN <<>> ELSE Graph!Without(R[o], P \cup {x})
  BY DEF AreFreed
<1>a. x # a /\ (x \in Range(R[o]) => o \in Range(R[x]))
  BY <1>1 DEF ListsBack
<1>b. /\ G[o] = IF o \in P THEN <<>> ELSE Graph!Without(R[o], P)
      /\ G[x] = IF x \in P THEN <<>> ELSE Graph!Without(R[x], P)
  BY <1>1, <1>a DEF AreFreed
<1>c. (o # x => U[o] = G[o]) /\ U[x] = Graph!Without(G[x], {a})
  BY DEF LosesOne
<1>d. B[o] = IF o = x THEN <<>>
             ELSE IF o \in Range(U[x]) THEN Graph!Without(U[o], {x})
             ELSE U[o]
  BY DEF IsEmptied
<1>2. CASE o = x
  BY <1>2, <1>d
<1>3. CASE o # x /\ o \in P
  <2>1. U[o] = <<>> /\ (B[o] = Graph!Without(U[o], {x}) \/ B[o] = U[o])
    BY <1>3, <1>b, <1>c, <1>d
  <2>2. Graph!Without(<<>>, {x}) = <<>>
    BY EmptyWithout
  <2> QED BY <1>3, <2>1, <2>2
<1>4. CASE o # x /\ o \notin P
  <2>1. U[o] = Graph!Without(R[o], P)
    BY <1>4, <1>b, <1>c
  <2>2. Graph!Without(U[o], {x}) = Graph!Without(R[o], P \cup {x})
    <3> DEFINE list == R[o]
    <3>1. list \in Seq(Object)
      OBVIOUS
    <3> HIDE DEF list
    <3>2. Graph!Without(Graph!Without(list, P), {x}) = Graph!Without(list, P \cup {x})
      BY <3>1, WithoutOneMore
    <3> QED BY <2>1, <3>2 DEF list
  <2>3. CASE o \in Range(U[x])
    <3>1. B[o] = Graph!Without(U[o], {x})
      BY <1>4, <1>d, <2>3
    <3> QED BY <1>4, <2>2, <3>1
  <2>4. CASE o \notin Range(U[x])
    <3>1. B[o] = U[o]
      BY <1>4, <1>d, <2>4
    <3>2. x \notin Range(U[o])
      <4>1. SUFFICES ASSUME x \in Range(U[o]) PROVE FALSE
        OBVIOUS
      <4> DEFINE list == R[o]
                 other == R[x]
      <4>2. list \in Seq(Object) /\ other \in Seq(Object) /\ U[o] = Graph!Without(list, P)
        BY <2>1
      <4> HIDE DEF list, other
      <4>3. x \in Range(list) \ P
        BY <4>1, <4>2, WithoutTyped
      <4>4. o \in Range(other)
        BY <1>a, <4>3 DEF list, other
      <4>5. G[x] = Graph!Without(other, P)
        BY <1>b, <4>3 DEF other
      <4>6. o \in Range(Graph!Without(other, P))
        BY <1>4, <4>2, <4>4, WithoutTyped
      <4> DEFINE gx == G[x]
      <4>7. gx \in Seq(Object) /\ o \in Range(gx)
        BY <4>5, <4>6
      <4> HIDE DEF gx
      <4>8. o \in Range(Graph!Without(gx, {a}))
        BY <1>1, <4>7, WithoutTyped
      <4>9. U[x] = Graph!Without(gx, {a})
        BY <1>c DEF gx
      <4> QED BY <2>4, <4>8, <4>9
    <3>3. Graph!Without(U[o], {x}) = U[o]
      <4> DEFINE list == U[o]
      <4>1. list \in Seq(Object) /\ \A y \in {x} : y \notin Range(list)
        BY <3>2
      <4> HIDE DEF list
      <4>2. Graph!Without(list, {x}) = list
        BY <4>1, NotListed
      <4> QED BY <4>2 DEF list
    <3> QED BY <1>4, <2>2, <3>1, <3>3
  <2> QED BY <2>3, <2>4
<1> QED BY <1>2, <1>3, <1>4

IsIsolated(h, own, g, gown, a, b, bown, P) ==
    MayFree(g, gown, b, bown, a) /\ FreedNamed(h, own, b, bown, a, P)

(* What a cell names is taken from every list, while the rest of the list  *)
(* that is being walked stays.                                             *)
LEMMA IsolatedIs ==
    ASSUME NEW h, NEW own, IsSound(h, own), AddressesAreNear, NEW a \in Object, CanFree(h, own, a),
           NEW P, NEW g, NEW gown, IsSound(g, gown), FreedNamed(h, own, g, gown, a, P),
           NEW x, x \in Range(Names(h, own[a])), NEW c, g.cell[c].object = x
    PROVE  \E bown : IsIsolated(h, own, g, gown, a, Isolated(g, c, a), bown, P \cup {x})
<1> DEFINE R == Named(h, own)
           G == Named(g, gown)
           u == Unrelated(g, c, a)
           b == Isolated(g, c, a)
<1>1. \A o \in Object : R[o] = Names(h, own[o]) /\ G[o] = Names(g, gown[o])
  BY DEF Named
<1>2. R \in [Object -> Seq(Object)] /\ G \in [Object -> Seq(Object)]
  BY ListsAre
<1> HIDE DEF R, G
<1>3. /\ x # a /\ x \notin Range(R[x]) /\ x \in Object
      /\ \A o \in Object : o # a /\ x \in Range(R[o]) => o \in Range(R[x])
  <2> DEFINE list == R[a]
  <2>1. x \in Range(list) /\ list \in Seq(Object)
    BY <1>1, <1>2
  <2> HIDE DEF list
  <2>2. x \in Object
    BY <2>1 DEF Range
  <2> QED BY <1>1, <2>2 DEF CanFree
<1>4. \A o \in Object : o # a => G[o] = IF o \in P THEN <<>> ELSE Graph!Without(R[o], P)
  BY <1>1 DEF FreedNamed
<1>5. PICK uown : ErasedOneWay(g, gown, x, {a}, u, uown)
  <2>1. u = EraseOneWay(g, x, {a})
    BY DEF Unrelated
  <2> HIDE DEF u
  <2>2. \E uown : ErasedOneWay(g, gown, x, {a}, EraseOneWay(g, x, {a}), uown)
    BY <1>3, EraseOneWayIs
  <2> QED BY <2>1, <2>2
<1> DEFINE U == Named(u, uown)
<1>6. IsSound(u, uown) /\ SameNodes(g, u)
  BY <1>5 DEF ErasedOneWay
<1>b. b = EraseBothWays(u, x, Object)
  BY DEF Isolated
<1> HIDE DEF u, b
<1>7. (\A o \in Object : U[o] = Names(u, uown[o])) /\ U \in [Object -> Seq(Object)]
  BY <1>6, ListsAre DEF Named
<1> HIDE DEF U
<1>8. /\ \A o \in Object : U[o] = IF o = x THEN Graph!Without(G[x], {a}) ELSE G[o]
      /\ \A o \in Object : o # x => uown[o] = gown[o]
  <2>1. Names(u, uown[x]) = Graph!Without(Names(g, gown[x]), {a})
    BY <1>5 DEF ErasedOneWay
  <2>2. \A o \in Object : o # x => uown[o] = gown[o] /\ Names(u, uown[o]) = Names(g, gown[o])
    BY <1>5 DEF ErasedOneWay, OthersKept
  <2>3. U[x] = Graph!Without(G[x], {a})
    BY <1>1, <1>3, <1>7, <2>1
  <2>4. \A o \in Object : o # x => U[o] = G[o]
    BY <1>1, <1>7, <2>2
  <2> QED BY <2>2, <2>3, <2>4
<1>9. Range(U[x]) \subseteq Range(R[x]) \cup {} /\ a \notin Range(U[x])
  <2> DEFINE gx == G[x]
             rx == R[x]
  <2>1. gx \in Seq(Object) /\ rx \in Seq(Object) /\ (gx = <<>> \/ gx = Graph!Without(rx, P))
    BY <1>2, <1>3, <1>4
  <2>2. U[x] = Graph!Without(gx, {a})
    BY <1>3, <1>8
  <2> HIDE DEF gx, rx
  <2>3. Range(U[x]) = Range(gx) \ {a}
    BY <2>1, <2>2, WithoutTyped
  <2>4. Range(gx) \subseteq Range(rx)
    <3>1. CASE gx = <<>>
      BY <3>1 DEF Range
    <3>2. CASE gx = Graph!Without(rx, P)
      <4>1. Range(Graph!Without(rx, P)) = Range(rx) \ P
        BY <2>1, WithoutTyped
      <4> QED BY <3>2, <4>1
    <3> QED BY <2>1, <3>1, <3>2
  <2> QED BY <2>3, <2>4 DEF rx
<1>10. PICK bown : ErasedBothWays(u, uown, x, Object, b, bown)
  <2>1. x \notin Range(Names(u, uown[x]))
    BY <1>3, <1>7, <1>9
  <2>2. \E bown : ErasedBothWays(u, uown, x, Object, EraseBothWays(u, x, Object), bown)
    BY <1>3, <1>6, <2>1, EraseBothWaysIs
  <2> QED BY <1>b, <2>2
<1> DEFINE B == Named(b, bown)
<1>11. IsSound(b, bown) /\ SameNodes(u, b)
  BY <1>10 DEF ErasedBothWays
<1>12. (\A o \in Object : B[o] = Names(b, bown[o])) /\ B \in [Object -> Seq(Object)]
  BY <1>11, ListsAre DEF Named
<1> HIDE DEF B
<1>13. \A o \in Object : o # x =>
          /\ B[o] = IF o \in Range(U[x]) THEN Graph!Without(U[o], {x}) ELSE U[o]
          /\ o \notin Range(U[x]) => bown[o] = uown[o]
  <2>1. BothNamed(u, uown, b, bown, x, Range(Names(u, uown[x])) \cap Object)
    BY <1>10 DEF ErasedBothWays
  <2>2. Names(u, uown[x]) = U[x]
    BY <1>3, <1>7
  <2>3. \A o \in Object : o \in Range(U[x]) \cap Object <=> o \in Range(U[x])
    OBVIOUS
  <2>4. ASSUME NEW o \in Object, o # x
        PROVE  /\ Names(b, bown[o]) = IF o \in Range(U[x]) THEN Graph!Without(Names(u, uown[o]), {x})
                                      ELSE Names(u, uown[o])
               /\ o \notin Range(U[x]) => bown[o] = uown[o]
    BY <2>1, <2>2, <2>3, <2>4 DEF BothNamed
  <2> QED BY <1>7, <1>12, <2>4
<1>14. B[x] = <<>>
  <2>1. Names(b, bown[x]) = Graph!Without(U[x], Object)
    BY <1>3, <1>7, <1>10 DEF ErasedBothWays
  <2> DEFINE ux == U[x]
  <2>2. ux \in Seq(Object)
    BY <1>3, <1>7
  <2> HIDE DEF ux
  <2>3. Graph!Without(ux, Object) = <<>>
    BY <2>2, AllWithout
  <2> QED BY <1>3, <1>12, <2>1, <2>3 DEF ux
<1>15. \A o \in Object : B[o] = IF o = x THEN <<>>
                                ELSE IF o \in Range(U[x]) THEN Graph!Without(U[o], {x})
                                ELSE U[o]
  BY <1>13, <1>14
<1>16. AreFreed(R, B, a, P \cup {x})
  <2>1. ListsBack(R, a, x)
    BY <1>3 DEF ListsBack
  <2>2. AreFreed(R, G, a, P)
    BY <1>4 DEF AreFreed
  <2>3. LosesOne(G, U, x, a)
    BY <1>8 DEF LosesOne
  <2>4. IsEmptied(U, B, x)
    BY <1>15 DEF IsEmptied
  <2>5. /\ R \in [Object -> Seq(Object)] /\ G \in [Object -> Seq(Object)]
        /\ U \in [Object -> Seq(Object)] /\ B \in [Object -> Seq(Object)] /\ x \in Object
    BY <1>2, <1>3, <1>7, <1>12
  <2> QED BY <2>1, <2>2, <2>3, <2>4, <2>5, IsolatedLists
<1>17. FreedNamed(h, own, b, bown, a, P \cup {x})
  BY <1>1, <1>12, <1>16 DEF FreedNamed, AreFreed
<1>18. MayFree(g, gown, b, bown, a)
  <2>1. bown[a] = uown[a] /\ uown[a] = gown[a]
    BY <1>3, <1>8, <1>9, <1>13
  <2>2. B[a] = U[a] /\ U[a] = G[a]
    BY <1>3, <1>8, <1>9, <1>13
  <2>3. SameNodes(g, b)
    BY <1>6, <1>11 DEF SameNodes
  <2> QED BY <1>1, <1>11, <1>12, <2>1, <2>2, <2>3 DEF MayFree
<1>19. IsIsolated(h, own, g, gown, a, b, bown, P \cup {x})
  BY <1>17, <1>18 DEF IsIsolated
<1> QED BY <1>19 DEF b

LEMMA FreedKept ==
    ASSUME NEW h, NEW own, NEW a, NEW P, NEW b, NEW bown, FreedNamed(h, own, b, bown, a, P),
           NEW e, NEW eown, OthersKept(b, bown, e, eown, a)
    PROVE  FreedNamed(h, own, e, eown, a, P)
  BY DEF FreedNamed, OthersKept

(* A round of it.                                                          *)
LEMMA FreedRound ==
    ASSUME NEW h, NEW own, IsSound(h, own), AddressesAreNear, NEW i \in 1 .. Len(h.node),
           NEW a, a = h.node[i].object, CanFree(h, own, a), NEW kept,
           IsKept(Names(h, own[a]), Object, own[a].n, kept),
           NEW k \in Nat, k < own[a].n, NEW at, FreedAt(h, own, i, a, kept, k, at),
           NEW c, c = own[a].at[k + 1], NEW x, x = h.cell[c].object
    PROVE  FreedAt(h, own, i, a, kept, k + 1, RoundFreed(h, i, at, c))
<1> DEFINE b == Isolated(at.heap, c, a)
           g == at.heap
           next == Visited(at, c, Object, b)
           P == FirstHit(h, own, a, Object, k)
<1>1. PICK m, gown : /\ Reached(h, own, i, kept, k, m, at, gown)
                     /\ FreedNamed(h, own, g, gown, a, P)
  BY DEF FreedAt
<1>2. Round(h, own, i, Object, kept, k, m, at, gown)
  BY <1>1 DEF Round
<1>l. ListSays(h, own, i, a)
  BY ListFacts
<1>3. HitNext(h, own, a, Object, k, x)
  <2>1. own[a].n \in Nat
    BY <1>l DEF ListSays
  <2>2. x = h.cell[own[a].at[k + 1]].object /\ k \in Nat /\ k < own[a].n
    OBVIOUS
  <2> QED BY <2>1, <2>2, FirstHitNext
<1>4. RoundFreed(h, i, at, c) = next
  BY DEF RoundFreed
<1>5. RoundSays(h, own, i, kept, k, m, at, gown)
  BY <1>2, RoundFacts
<1>6. IsSound(g, gown) /\ g.cell[c].object = x
  BY <1>5 DEF RoundSays
<1>7. a \in Object /\ x \in Object /\ x \in Range(Names(h, own[a]))
  <2> DEFINE list == Names(h, own[a])
             j == k + 1
  <2>1. j \in 1 .. own[a].n
    BY <1>5 DEF RoundSays
  <2>2. list \in Seq(Object) /\ Len(list) = own[a].n /\ a \in Object
    BY <1>l DEF ListSays
  <2>3. list[j] = x
    BY <2>1 DEF Names
  <2> HIDE DEF list, j
  <2>4. j \in DOMAIN list /\ list[j] \in Object
    BY <2>1, <2>2
  <2>5. x \in Range(list)
    BY <2>3, <2>4 DEF Range
  <2> QED BY <2>2, <2>3, <2>4, <2>5 DEF list
<1> HIDE DEF P
<1>8. PICK bown : IsIsolated(h, own, g, gown, a, b, bown, P \cup {x})
  <2> HIDE DEF g, b
  <2>1. \E bown : IsIsolated(h, own, g, gown, a, Isolated(g, c, a), bown, P \cup {x})
    BY <1>1, <1>6, <1>7, IsolatedIs
  <2>2. b = Isolated(g, c, a)
    BY DEF b, g
  <2> QED BY <2>1, <2>2
<1> HIDE DEF b
<1>9. MayFree(g, gown, b, bown, a) /\ FreedNamed(h, own, b, bown, a, P \cup {x})
  BY <1>8 DEF IsIsolated
<1> DEFINE j == m + 1
           own2 == OwnedWithout(bown, a, j)
<1>10. IsHit(h, own, i, kept, k, a, next, b, bown, j)
  BY <1>2, <1>7, <1>9, Hit
<1> HIDE DEF next, j, g
<1>11. /\ j \in 1 .. bown[a].n /\ IsWithoutCell(b, bown, a, j, next.heap)
       /\ Reached(h, own, i, kept, k + 1, j - 1, next, own2)
  BY <1>10 DEF IsHit
<1>12. OthersKept(b, bown, next.heap, own2, a)
  <2>1. IsSound(b, bown)
    BY <1>9 DEF MayFree
  <2> QED BY <1>7, <1>11, <2>1, OthersAreKept
<1> HIDE DEF own2
<1>13. FreedNamed(h, own, next.heap, own2, a, P \cup {x})
  BY <1>9, <1>12, FreedKept
<1>14. FirstHit(h, own, a, Object, k + 1) = P \cup {x}
  BY <1>3, <1>7 DEF HitNext, P
<1>15. FreedAt(h, own, i, a, kept, k + 1, next)
  BY <1>11, <1>13, <1>14 DEF FreedAt
<1> QED BY <1>4, <1>15

ErasedFreed(h, own, a, g, gown) ==
    /\ IsSound(g, gown) /\ SameNodes(h, g)
    /\ Names(g, gown[a]) = <<>>
    /\ FreedNamed(h, own, g, gown, a, Range(Names(h, own[a])))

LEMMA FreedNothing ==
    ASSUME NEW h, NEW own, IsSound(h, own), NEW a
    PROVE  FreedNamed(h, own, h, own, a, {})
<1>1. ASSUME NEW o \in Object PROVE Graph!Without(Names(h, own[o]), {}) = Names(h, own[o])
  <2> DEFINE list == Names(h, own[o])
  <2>1. list \in Seq(Object)
    BY NamesFacts
  <2> HIDE DEF list
  <2>2. Graph!Without(list, {}) = list
    BY <2>1, NotListed
  <2> QED BY <2>2 DEF list
<1> QED BY <1>1 DEF FreedNamed

(* All that was listed is in no list, and lists nothing.                   *)
LEMMA SweptFreed ==
    ASSUME NEW h, NEW own, IsSound(h, own), AddressesAreNear, NEW i \in 1 .. Len(h.node),
           NEW a, a = h.node[i].object, CanFree(h, own, a)
    PROVE  \E gown : ErasedFreed(h, own, a, SweptAndFreed(h, i), gown)
<1> DEFINE s == own[a]
           n == s.n
           list == Names(h, s)
<1>0. ListSays(h, own, i, a)
  BY ListFacts
<1>1. /\ a \in Object /\ n \in Nat /\ Len(List(h, i)) = n
      /\ \A k \in 1 .. n : List(h, i)[k] = s.at[k]
      /\ list \in Seq(Object) /\ Len(list) = n
  BY <1>0 DEF ListSays
<1>a. FirstHit(h, own, a, Object, n) = Range(list) /\ FirstHit(h, own, a, Object, 0) = {}
  <2> HIDE DEF n
  <2>1. DOMAIN list = 1 .. n /\ Range(list) \subseteq Object
    <3>1. list \in Seq(Object) /\ Len(list) = n
      BY <1>1
    <3> HIDE DEF list
    <3> QED BY <3>1 DEF Range
  <2>2. FirstHit(h, own, a, Object, n) = {list[l] : l \in 1 .. n} \cap Object
    BY DEF FirstHit
  <2>3. {list[l] : l \in 1 .. n} = Range(list)
    <3> HIDE DEF list
    <3> QED BY <2>1 DEF Range
  <2>4. FirstHit(h, own, a, Object, 0) = {}
    BY DEF FirstHit
  <2> HIDE DEF list
  <2> QED BY <2>1, <2>2, <2>3, <2>4
<1> HIDE DEF n, list
<1>2. PICK f : IsSweepFreed(h, i, n, f) /\ SweptAndFreed(h, i) = f[n].heap
  <2>1. \E f : /\ IsSweepFreed(h, i, Len(List(h, i)), f)
               /\ SweptAndFreed(h, i) = f[Len(List(h, i))].heap
    BY <1>1, SweepFreedExists
  <2> QED BY <1>1, <2>1
<1>3. PICK kept : IsKept(list, Object, n, kept) /\ Graph!Without(list, Object) = kept[n]
  <2>1. \E kept : IsKept(list, Object, Len(list), kept) /\ Graph!Without(list, Object) = kept[Len(list)]
    BY <1>1, WithoutIs
  <2> QED BY <1>1, <2>1
<1> DEFINE T == {k \in Nat : k <= n => FreedAt(h, own, i, a, kept, k, f[k])}
<1>4. 0 \in T
  <2>1. kept[0] = <<>> /\ f[0] = [heap |-> h, prev |-> -i]
    BY <1>2, <1>3 DEF IsKept, IsSweepFreed
  <2>2. Reached(h, own, i, kept, 0, 0, f[0], own)
    BY <2>1, Started
  <2>3. FreedNamed(h, own, f[0].heap, own, a, {})
    BY <2>1, FreedNothing
  <2>4. FreedAt(h, own, i, a, kept, 0, f[0])
    BY <1>a, <2>2, <2>3 DEF FreedAt
  <2> QED BY <2>4
<1>5. ASSUME NEW k \in T, k \in Nat PROVE k + 1 \in T
  <2> SUFFICES ASSUME k + 1 <= n PROVE FreedAt(h, own, i, a, kept, k + 1, f[k + 1])
    BY <1>5
  <2> DEFINE j == k + 1
  <2>1. k < n /\ j \in 1 .. n /\ j - 1 = k
    BY <1>1, <1>5
  <2>2. FreedAt(h, own, i, a, kept, k, f[k])
    BY <1>1, <1>5
  <2> HIDE DEF j, s
  <2>3. f[j] = RoundFreed(h, i, f[j - 1], List(h, i)[j])
    BY <1>2, <2>1 DEF IsSweepFreed
  <2>4. f[j] = RoundFreed(h, i, f[k], s.at[j])
    BY <1>1, <2>1, <2>3
  <2> DEFINE at == f[k]
             c == s.at[j]
             x == h.cell[c].object
  <2> HIDE DEF at
  <2>5. FreedAt(h, own, i, a, kept, k + 1, RoundFreed(h, i, at, c))
    <3>1. k < own[a].n /\ c = own[a].at[k + 1]
      BY <2>1 DEF n, s, j
    <3>2. IsKept(Names(h, own[a]), Object, own[a].n, kept)
      BY <1>3 DEF list, n, s
    <3>3. FreedAt(h, own, i, a, kept, k, at)
      BY <2>2 DEF at
    <3>4. x = h.cell[c].object
      OBVIOUS
    <3> HIDE DEF c, x
    <3> QED BY <1>5, <3>1, <3>2, <3>3, <3>4, FreedRound
  <2> QED BY <2>4, <2>5 DEF at, j
<1>6. n \in T
  <2> HIDE DEF T
  <2> QED BY <1>1, <1>4, <1>5, Induct
<1>7. FreedAt(h, own, i, a, kept, n, f[n])
  BY <1>1, <1>6
<1>8. PICK m, gown :
         /\ Reached(h, own, i, kept, n, m, f[n], gown)
         /\ FreedNamed(h, own, f[n].heap, gown, a, FirstHit(h, own, a, Object, n))
  BY <1>7 DEF FreedAt
<1>9. IsFinished(h, f[n].heap, gown, a, kept[n])
  <2>1. n = own[a].n
    BY DEF n
  <2> DEFINE at == f[n]
  <2>2. Reached(h, own, i, kept, n, m, at, gown)
    BY <1>8
  <2> HIDE DEF at
  <2>3. IsFinished(h, at.heap, gown, a, kept[n])
    BY <2>1, <2>2, Finished
  <2> QED BY <2>3 DEF at
<1>10. kept[n] = <<>>
  BY <1>1, <1>3, AllWithout
<1>11. ErasedFreed(h, own, a, f[n].heap, gown)
  BY <1>a, <1>8, <1>9, <1>10 DEF ErasedFreed, IsFinished, list
<1> QED BY <1>2, <1>11

LEMMA EraseAndFreeIs ==
    ASSUME NEW h, NEW own, IsSound(h, own), AddressesAreNear, NEW a \in Object, CanFree(h, own, a)
    PROVE  \E gown : ErasedFreed(h, own, a, EraseAndFree(h, a), gown)
<1> DEFINE at == Find(h, a)
<1>1. h \in Heap /\ InOrder(h) /\ Linked(h, own)
  BY DEF IsSound
<1>2. CASE FoundAt(h, a, at) /\ HasNode(h, a)
  <2>1. at.found = TRUE /\ at.index \in 1 .. Len(h.node) /\ a = h.node[at.index].object
    BY <1>2 DEF FoundAt
  <2>2. EraseAndFree(h, a) = SweptAndFreed(h, at.index)
    BY <2>1 DEF EraseAndFree
  <2> HIDE DEF at
  <2>3. \E gown : ErasedFreed(h, own, a, SweptAndFreed(h, at.index), gown)
    BY <2>1, SweptFreed
  <2> QED BY <2>2, <2>3
<1>3. CASE MissingAt(h, a, at) /\ ~HasNode(h, a)
  <2>1. EraseAndFree(h, a) = h
    BY <1>3 DEF EraseAndFree, MissingAt
  <2> DEFINE list == Names(h, own[a])
  <2>2. list \in Seq(Object) /\ Len(list) = 0
    BY <1>1, <1>3, NamesFacts DEF Linked
  <2> HIDE DEF list
  <2>3. list = <<>> /\ Range(list) = {}
    BY <2>2 DEF Range
  <2>4. ErasedFreed(h, own, a, h, own)
    BY <2>3, FreedNothing, SameNodesSelf DEF ErasedFreed, list
  <2> QED BY <2>1, <2>4
<1> QED BY <1>1, <1>2, <1>3, FindIs

-----------------------------------------------------------------------------
(* A cell comes from the pool and goes in front of a list.                 *)
Taken(h, own) == IF h.freed # NULL THEN Removed(own[NULL], 1) ELSE own[NULL]

OwnedWith(h, own, a) ==
    [o \in Owner |-> IF o = a THEN Fronted(PoolTop(h), own[a])
                     ELSE IF o = NULL THEN Taken(h, own)
                     ELSE own[o]]

TopSays(h, own, c, p, u) ==
    /\ c \in Cell /\ c \in 1 .. p.allocated
    /\ p \in Heap /\ p.node = h.node /\ p.cell = h.cell /\ p.capacity = h.capacity
    /\ p.allocated \in Nat /\ 1 .. h.allocated \subseteq 1 .. p.allocated
    /\ p.n_used = h.n_used + 1 /\ p.n_freed = u.n /\ p.n_used = p.allocated - p.n_freed
    /\ u.n \in Nat /\ IsPath(h.cell, p.freed, u)
    /\ \A o \in Object : \A k \in 1 .. own[o].n : own[o].at[k] # c
    /\ \A l \in 1 .. u.n :
          /\ u.at[l] \in 1 .. h.allocated /\ u.at[l] \in Cell /\ u.at[l] # c
          /\ \A o \in Object : \A k \in 1 .. own[o].n : own[o].at[k] # u.at[l]
    /\ \A l, m \in 1 .. u.n : u.at[l] = u.at[m] => l = m
    /\ \A x \in 1 .. p.allocated :
          \/ x = c
          \/ \E l \in 1 .. u.n : u.at[l] = x
          \/ \E o \in Object : \E k \in 1 .. own[o].n : own[o].at[k] = x

(* The pool hands out a cell: a freed one, or a new one.                   *)
LEMMA TopIs ==
    ASSUME NEW h, NEW own, IsSound(h, own), h.n_used < MaxCells,
           NEW c, c = PoolTop(h), NEW p, p = PoolTaken(h), NEW u, u = Taken(h, own)
    PROVE  TopSays(h, own, c, p, u)
<1> DEFINE t == own[NULL]
           N == h.allocated
<1>1. h \in Heap /\ OwnedOnce(h, own) /\ Counted(h, own) /\ IsPath(h.cell, h.freed, t)
  BY DEF IsSound, Linked
<1>2. NULL \in Owner /\ Object \subseteq Owner /\ NULL \notin Object /\ NULL \notin Cell /\ MaxCells \in Nat
  BY Sizes DEF Owner
<1>3. N \in Nat /\ N <= MaxCells /\ 1 .. N \subseteq Cell /\ h.n_used \in Int /\ h.n_freed \in Int
  BY <1>1, HeapFacts, Sizes DEF Heap
<1>4. t.n \in Nat /\ \A k \in 1 .. t.n : t.at[k] \in 1 .. N /\ t.at[k] \in Cell
  BY <1>2, OwnedFacts
<1>5. /\ h.n_freed = t.n /\ h.n_used = N - t.n
      /\ h.freed = IF t.n = 0 THEN NULL ELSE t.at[1]
      /\ \A k \in 1 .. t.n : h.cell[t.at[k]].next = IF k = t.n THEN NULL ELSE t.at[k + 1]
  BY <1>1 DEF Counted, IsPath
<1>6. \A o, q \in Owner : \A k \in 1 .. own[o].n, l \in 1 .. own[q].n :
         own[o].at[k] = own[q].at[l] => o = q /\ k = l
  BY <1>1 DEF OwnedOnce
<1>7. \A x \in 1 .. N : \E o \in Owner : \E k \in 1 .. own[o].n : own[o].at[k] = x
  BY <1>1 DEF OwnedOnce
<1>8. \A o \in Object : \A k \in 1 .. own[o].n : own[o].at[k] \in 1 .. N
  BY <1>2, OwnedFacts
<1>9. \A o \in Object : \A k \in 1 .. own[o].n, l \in 1 .. t.n : own[o].at[k] # t.at[l]
  BY <1>2, <1>6
<1>10. \A k, l \in 1 .. t.n : t.at[k] = t.at[l] => k = l
  BY <1>2, <1>6
<1>11. \A x \in 1 .. N : \/ \E l \in 1 .. t.n : t.at[l] = x
                         \/ \E o \in Object : \E k \in 1 .. own[o].n : own[o].at[k] = x
  BY <1>7 DEF Owner
<1>12. CASE t.n = 0
  <2>1. h.freed = NULL /\ c = N + 1 /\ u = t
    BY <1>5, <1>12 DEF PoolTop, Taken
  <2>2. p = [h EXCEPT !.allocated = N + 1, !.n_used = h.n_used + 1]
    BY <1>1, <2>1 DEF PoolTaken, Heap
  <2>3. h.n_used = N /\ N + 1 \in 0 .. MaxCells /\ c \in Cell
    BY <1>2, <1>3, <1>5, <1>12, <2>1 DEF Cell
  <2>4. /\ p \in Heap /\ p.node = h.node /\ p.cell = h.cell /\ p.capacity = h.capacity
        /\ p.allocated = N + 1 /\ p.n_used = h.n_used + 1 /\ p.n_freed = h.n_freed /\ p.freed = h.freed
    <3>1. h.n_used + 1 \in Int
      BY <1>3
    <3> HIDE DEF N
    <3> QED BY <1>1, <2>2, <2>3, <3>1 DEF Heap
  <2>5. c \notin 1 .. N /\ c \in 1 .. N + 1 /\ 1 .. N \subseteq 1 .. N + 1 /\ N + 1 \in Nat
    BY <1>3, <2>1
  <2>6. \A x \in 1 .. N + 1 : x = c \/ x \in 1 .. N
    BY <1>3, <2>1
  <2>7. p.n_freed = u.n /\ p.n_used = p.allocated - p.n_freed /\ u.n = 0
    BY <1>3, <1>4, <1>5, <1>12, <2>1, <2>4
  <2>8. 1 .. u.n = {}
    BY <2>7
  <2>9. IsPath(h.cell, p.freed, u)
    BY <1>1, <2>1, <2>4
  <2>10. \A o \in Object : \A k \in 1 .. own[o].n : own[o].at[k] # c
    BY <1>8, <2>5
  <2>11. \A x \in 1 .. N + 1 : x = c \/ \E o \in Object : \E k \in 1 .. own[o].n : own[o].at[k] = x
    BY <1>11, <1>12, <2>6
  <2> HIDE DEF N, t
  <2> QED BY <2>3, <2>4, <2>5, <2>7, <2>8, <2>9, <2>10, <2>11 DEF TopSays, N
<1>13. CASE t.n # 0
  <2>1. h.freed = t.at[1] /\ 1 \in 1 .. t.n /\ t.at[1] \in Cell /\ h.freed # NULL
    BY <1>2, <1>4, <1>5, <1>13
  <2>2. c = t.at[1] /\ u = Removed(t, 1)
    BY <2>1 DEF PoolTop, Taken
  <2>3. /\ u.n = t.n - 1 /\ u.n \in Nat
        /\ \A l \in 1 .. u.n : l + 1 \in 1 .. t.n /\ l # t.n /\ l + 1 # 1 /\ u.at[l] = t.at[l + 1]
    <3>1. u.n = t.n - 1 /\ \A l \in 1 .. t.n - 1 : u.at[l] = IF l < 1 THEN t.at[l] ELSE t.at[l + 1]
      <4> HIDE DEF t
      <4> QED BY <2>2, RemovedIs
    <3> QED BY <1>4, <1>13, <3>1
  <2>4. p = [h EXCEPT !.freed = h.cell[c].next, !.n_freed = h.n_freed - 1, !.n_used = h.n_used + 1]
    BY <1>1, <2>1, <2>2 DEF PoolTaken, Heap
  <2>5. h.cell[c].next \in Pointer /\ h.cell[c].next = IF 1 = t.n THEN NULL ELSE t.at[2]
    BY <1>1, <1>5, <2>1, <2>2, HeapFacts
  <2>6. /\ p \in Heap /\ p.node = h.node /\ p.cell = h.cell /\ p.capacity = h.capacity
        /\ p.allocated = N /\ p.n_used = h.n_used + 1 /\ p.n_freed = h.n_freed - 1
        /\ p.freed = h.cell[c].next
    <3>1. h.n_used + 1 \in Int /\ h.n_freed - 1 \in Int
      BY <1>3
    <3> QED BY <1>1, <2>4, <2>5, <3>1 DEF Heap
  <2>7. p.n_freed = u.n /\ p.n_used = p.allocated - p.n_freed
    BY <1>3, <1>4, <1>5, <2>3, <2>6
  <2> HIDE DEF t, N
  <2>8. IsPath(h.cell, p.freed, u)
    <3>1. p.freed = IF u.n = 0 THEN NULL ELSE u.at[1]
      <4>1. CASE t.n = 1
        BY <2>3, <2>5, <2>6, <4>1
      <4>2. CASE t.n # 1
        <5>1. u.n # 0 /\ 1 \in 1 .. u.n
          BY <1>4, <2>3, <4>2
        <5>2. u.at[1] = t.at[1 + 1]
          BY <2>3, <5>1
        <5> QED BY <2>5, <2>6, <4>2, <5>1, <5>2
      <4> QED BY <4>1, <4>2
    <3>2. ASSUME NEW l \in 1 .. u.n PROVE h.cell[u.at[l]].next = IF l = u.n THEN NULL ELSE u.at[l + 1]
      <4>1. h.cell[t.at[l + 1]].next = IF l + 1 = t.n THEN NULL ELSE t.at[l + 1 + 1]
        BY <1>5, <2>3
      <4>2. l + 1 = t.n <=> l = u.n
        BY <1>4, <2>3
      <4>3. l # u.n => l + 1 \in 1 .. u.n
        BY <1>4, <2>3
      <4>4. l # u.n => u.at[l + 1] = t.at[l + 1 + 1]
        BY <2>3, <4>3
      <4> QED BY <2>3, <4>1, <4>2, <4>4
    <3> QED BY <3>1, <3>2 DEF IsPath
  <2>9. \A o \in Object : \A k \in 1 .. own[o].n : own[o].at[k] # c
    BY <1>9, <2>1, <2>2
  <2>10. \A l \in 1 .. u.n :
            /\ u.at[l] \in 1 .. N /\ u.at[l] \in Cell /\ u.at[l] # c
            /\ \A o \in Object : \A k \in 1 .. own[o].n : own[o].at[k] # u.at[l]
    BY <1>4, <1>9, <1>10, <2>1, <2>2, <2>3
  <2>11. \A l, m \in 1 .. u.n : u.at[l] = u.at[m] => l = m
    <3>1. ASSUME NEW l \in 1 .. u.n, NEW m \in 1 .. u.n, u.at[l] = u.at[m] PROVE l = m
      <4>1. l + 1 = m + 1
        BY <1>10, <2>3, <3>1
      <4> QED BY <4>1
    <3> QED BY <3>1
  <2>12. ASSUME NEW l \in 1 .. t.n PROVE t.at[l] = c \/ \E m \in 1 .. u.n : u.at[m] = t.at[l]
    <3>1. CASE l = 1
      BY <2>2, <3>1
    <3>2. CASE l # 1
      <4>1. l - 1 \in 1 .. u.n /\ l - 1 + 1 = l
        BY <1>4, <2>3, <3>2
      <4> QED BY <2>3, <4>1
    <3> QED BY <3>1, <3>2
  <2>13. \A x \in 1 .. N : \/ x = c
                           \/ \E l \in 1 .. u.n : u.at[l] = x
                           \/ \E o \in Object : \E k \in 1 .. own[o].n : own[o].at[k] = x
    BY <1>11, <2>12
  <2>14. c \in 1 .. N /\ c \in Cell
    BY <1>4, <2>1, <2>2
  <2> QED BY <1>3, <2>3, <2>6, <2>7, <2>8, <2>9, <2>10, <2>11, <2>13, <2>14 DEF TopSays, N
<1> QED BY <1>12, <1>13

IsPrepended(h, i, o, c, p, g) ==
    /\ g \in Heap /\ SameNodes(h, g) /\ g.capacity = h.capacity
    /\ g.allocated = p.allocated /\ g.freed = p.freed
    /\ g.n_freed = p.n_freed /\ g.n_used = p.n_used
    /\ \A j \in 1 .. Len(h.node) : g.node[j].next = IF j = i THEN c ELSE h.node[j].next
    /\ g.cell[c].object = o /\ g.cell[c].next = h.node[i].next
    /\ \A d \in Cell : d # c => g.cell[d] = h.cell[d]

(* A cell in front of a list, field by field.                              *)
LEMMA PrependedIs ==
    ASSUME NEW h \in Heap, NEW i \in 1 .. Len(h.node), NEW o \in Object,
           NEW c \in Cell, c = PoolTop(h), NEW p \in Heap, p = PoolTaken(h),
           p.node = h.node, p.cell = h.cell, p.capacity = h.capacity
    PROVE  IsPrepended(h, i, o, c, p, Prepend(h, i, o))
<1> DEFINE s == [h.cell EXCEPT ![c] = [object |-> o, next |-> h.node[i].next]]
           r == [h.node EXCEPT ![i].next = c]
           g == Prepend(h, i, o)
<1>1. h.cell \in [Cell -> [object : Owner, next : Pointer]] /\ h.node \in Seq(Node) /\ h.node[i] \in Node
  BY DEF Heap
<1>2. h.node[i].next \in Pointer /\ o \in Owner /\ c \in Pointer
  BY NodeFacts DEF Owner, Pointer
<1>3. /\ s \in [Cell -> [object : Owner, next : Pointer]]
      /\ s[c].object = o /\ s[c].next = h.node[i].next
      /\ \A d \in Cell : d # c => s[d] = h.cell[d]
  BY <1>1, <1>2
<1>4. [h.node[i] EXCEPT !.next = c] \in Node
  BY <1>1, <1>2 DEF Node
<1>5. r \in Seq(Node) /\ Len(r) = Len(h.node)
  BY <1>1, <1>4
<1>6. \A j \in 1 .. Len(h.node) :
         r[j].object = h.node[j].object /\ r[j].next = IF j = i THEN c ELSE h.node[j].next
  BY <1>1 DEF Node
<1>7. g = [p EXCEPT !.cell = s, !.node = r]
  BY DEF Prepend, Heap
<1> HIDE DEF s, r
<1>8. /\ g \in Heap /\ g.cell = s /\ g.node = r /\ g.capacity = p.capacity
      /\ g.allocated = p.allocated /\ g.freed = p.freed
      /\ g.n_freed = p.n_freed /\ g.n_used = p.n_used
  BY <1>3, <1>5, <1>7 DEF Heap
<1> HIDE DEF g
<1>9. SameNodes(h, g)
  BY <1>5, <1>6, <1>8 DEF SameNodes
<1>10. IsPrepended(h, i, o, c, p, g)
  BY <1>3, <1>6, <1>8, <1>9 DEF IsPrepended
<1> QED BY <1>10 DEF g

(* It has one owner, as have the others...                                 *)
LEMMA PrependedOwned ==
    ASSUME NEW h, NEW own, IsSound(h, own), NEW a \in Object,
           NEW c, c = PoolTop(h), NEW p, NEW u, u = Taken(h, own), TopSays(h, own, c, p, u)
    PROVE  OwnedOnce(p, OwnedWith(h, own, a))
<1> DEFINE own2 == OwnedWith(h, own, a)
           N == p.allocated
<1>1. /\ c \in 1 .. N /\ N \in Nat /\ 1 .. h.allocated \subseteq 1 .. N /\ u.n \in Nat
      /\ \A o \in Object : \A k \in 1 .. own[o].n : own[o].at[k] # c
      /\ \A l \in 1 .. u.n :
            /\ u.at[l] \in 1 .. h.allocated /\ u.at[l] # c
            /\ \A o \in Object : \A k \in 1 .. own[o].n : own[o].at[k] # u.at[l]
      /\ \A l, m \in 1 .. u.n : u.at[l] = u.at[m] => l = m
      /\ \A x \in 1 .. N : \/ x = c
                           \/ \E l \in 1 .. u.n : u.at[l] = x
                           \/ \E o \in Object : \E k \in 1 .. own[o].n : own[o].at[k] = x
  BY DEF TopSays
<1>2. a \in Owner /\ a # NULL /\ NULL \in Owner /\ Object \subseteq Owner /\ NULL \notin Object
  BY Sizes DEF Owner
<1>3. \A o \in Object : own[o].n \in Nat /\ \A k \in 1 .. own[o].n : own[o].at[k] \in 1 .. h.allocated
  BY <1>2, OwnedFacts
<1>4. \A o, q \in Object : \A k \in 1 .. own[o].n, l \in 1 .. own[q].n :
         own[o].at[k] = own[q].at[l] => o = q /\ k = l
  BY <1>2 DEF IsSound, OwnedOnce
<1>5. /\ own2[a] = Fronted(c, own[a]) /\ own2[NULL] = u
      /\ \A o \in Object : o # a => own2[o] = own[o]
  BY <1>2 DEF OwnedWith
<1>6. /\ own2[a].n = own[a].n + 1
      /\ \A l \in 1 .. own[a].n + 1 : own2[a].at[l] = IF l = 1 THEN c ELSE own[a].at[l - 1]
  BY <1>5, FrontedIs
<1> HIDE DEF own2, N
<1>7. ASSUME NEW l \in 1 .. own2[a].n
      PROVE  \/ l = 1 /\ own2[a].at[l] = c
             \/ l # 1 /\ l - 1 \in 1 .. own[a].n /\ own2[a].at[l] = own[a].at[l - 1]
  <2>1. l = 1 \/ (l # 1 /\ l - 1 \in 1 .. own[a].n)
    BY <1>2, <1>3, <1>6
  <2> QED BY <1>6, <2>1
<1>8. ASSUME NEW o \in Owner
      PROVE  own2[o].n \in Nat /\ \A l \in 1 .. own2[o].n : own2[o].at[l] \in 1 .. N
  <2>1. CASE o = a
    <3>1. own2[a].n \in Nat
      BY <1>3, <1>6
    <3>2. \A l \in 1 .. own2[a].n : own2[a].at[l] \in 1 .. N
      BY <1>1, <1>3, <1>7
    <3> QED BY <2>1, <3>1, <3>2
  <2>2. CASE o = NULL
    BY <1>1, <1>5, <2>2
  <2>3. CASE o # a /\ o # NULL
    <3>1. o \in Object /\ own2[o] = own[o]
      BY <1>5, <2>3 DEF Owner
    <3> QED BY <1>1, <1>3, <3>1
  <2> QED BY <2>1, <2>2, <2>3
(* Where a cell comes from: c, a freed one or one of another list.         *)
<1>9. ASSUME NEW o \in Object, NEW l \in 1 .. own2[o].n
      PROVE  \/ o = a /\ l = 1 /\ own2[o].at[l] = c
             \/ \E k \in 1 .. own[o].n : own2[o].at[l] = own[o].at[k] /\ k = IF o = a THEN l - 1 ELSE l
  <2>1. CASE o = a
    BY <1>7, <2>1
  <2>2. CASE o # a
    BY <1>5, <2>2
  <2> QED BY <2>1, <2>2
<1>10. ASSUME NEW o \in Object, NEW q \in Object, NEW l \in 1 .. own2[o].n, NEW m \in 1 .. own2[q].n,
              own2[o].at[l] = own2[q].at[m]
       PROVE  o = q /\ l = m
  <2>1. CASE o = a /\ l = 1 /\ own2[o].at[l] = c
    BY <1>1, <1>9, <1>10, <2>1
  <2>2. CASE q = a /\ m = 1 /\ own2[q].at[m] = c
    BY <1>1, <1>9, <1>10, <2>2
  <2>3. ASSUME NEW k \in 1 .. own[o].n, own2[o].at[l] = own[o].at[k], k = IF o = a THEN l - 1 ELSE l,
               NEW j \in 1 .. own[q].n, own2[q].at[m] = own[q].at[j], j = IF q = a THEN m - 1 ELSE m
        PROVE  o = q /\ l = m
    <3>0. own[o].at[k] = own[q].at[j]
      BY <1>10, <2>3
    <3>1. o = q /\ k = j
      BY <1>4, <3>0
    <3>2. l \in Nat /\ m \in Nat
      BY <1>2, <1>8
    <3> QED BY <2>3, <3>1, <3>2
  <2> QED BY <1>9, <2>1, <2>2, <2>3
<1>11. ASSUME NEW o \in Owner, NEW q \in Owner, NEW l \in 1 .. own2[o].n, NEW m \in 1 .. own2[q].n,
              own2[o].at[l] = own2[q].at[m]
       PROVE  o = q /\ l = m
  <2>1. ASSUME NEW r \in Object, NEW k \in 1 .. own2[r].n, NEW j \in 1 .. u.n PROVE own2[r].at[k] # u.at[j]
    BY <1>1, <1>9, <2>1
  <2>2. CASE o = NULL /\ q = NULL
    BY <1>1, <1>5, <1>11, <2>2
  <2>3. CASE o = NULL /\ q # NULL
    <3>1. q \in Object
      BY <2>3 DEF Owner
    <3> QED BY <1>5, <1>11, <2>1, <2>3, <3>1
  <2>4. CASE o # NULL /\ q = NULL
    <3>1. o \in Object
      BY <2>4 DEF Owner
    <3> QED BY <1>5, <1>11, <2>1, <2>4, <3>1
  <2>5. CASE o # NULL /\ q # NULL
    <3>1. o \in Object /\ q \in Object
      BY <2>5 DEF Owner
    <3> QED BY <1>10, <1>11, <3>1
  <2> QED BY <2>2, <2>3, <2>4, <2>5
<1>12. ASSUME NEW x \in 1 .. N PROVE \E o \in Owner : \E l \in 1 .. own2[o].n : own2[o].at[l] = x
  <2>1. CASE x = c
    <3>1. 1 \in 1 .. own2[a].n /\ own2[a].at[1] = c
      BY <1>2, <1>3, <1>6
    <3> QED BY <1>2, <2>1, <3>1
  <2>2. CASE \E l \in 1 .. u.n : u.at[l] = x
    BY <1>2, <1>5, <2>2
  <2>3. ASSUME NEW o \in Object, NEW k \in 1 .. own[o].n, own[o].at[k] = x
        PROVE  \E l \in 1 .. own2[o].n : own2[o].at[l] = x
    <3>1. CASE o = a
      <4>1. k + 1 \in 1 .. own[a].n + 1 /\ k + 1 # 1 /\ k + 1 - 1 = k
        BY <1>3, <3>1
      <4>2. own2[a].at[k + 1] = x
        BY <1>6, <2>3, <3>1, <4>1
      <4> QED BY <1>6, <3>1, <4>1, <4>2
    <3>2. CASE o # a
      BY <1>5, <2>3, <3>2
    <3> QED BY <3>1, <3>2
  <2> QED BY <1>1, <1>2, <2>1, <2>2, <2>3 DEF N
<1> QED BY <1>8, <1>11, <1>12 DEF OwnedOnce, own2, N

IsLonger(h, own, a, o, g, gown) ==
    /\ IsSound(g, gown) /\ SameNodes(h, g) /\ g.n_used = h.n_used + 1
    /\ Names(g, gown[a]) = <<o>> \o Names(h, own[a])
    /\ OthersKept(h, own, g, gown, a)

(* ...the lists lead along their cells...                                  *)
LEMMA PrependedPaths ==
    ASSUME NEW h, NEW own, IsSound(h, own), NEW i \in 1 .. Len(h.node), NEW a, a = h.node[i].object,
           NEW o \in Object, NEW c, c = PoolTop(h), NEW p, NEW u, u = Taken(h, own),
           TopSays(h, own, c, p, u), NEW g, IsPrepended(h, i, o, c, p, g)
    PROVE  Linked(g, OwnedWith(h, own, a))
<1> DEFINE own2 == OwnedWith(h, own, a)
           s == own[a]
<1>1. h \in Heap /\ InOrder(h) /\ Linked(h, own)
  BY DEF IsSound
<1>2. a \in Object /\ a \in Owner /\ a # NULL /\ NULL \in Owner /\ Object \subseteq Owner /\ NULL \notin Object
  BY <1>1, NodeFacts, Sizes DEF Owner
<1>3. \A q \in Object : own[q].n \in Nat /\ \A k \in 1 .. own[q].n : own[q].at[k] \in Cell
  BY <1>2, OwnedFacts
<1>4. /\ c \in Cell /\ IsPath(h.cell, p.freed, u)
      /\ \A q \in Object : \A k \in 1 .. own[q].n : own[q].at[k] # c
      /\ \A l \in 1 .. u.n : u.at[l] \in Cell /\ u.at[l] # c
  BY DEF TopSays
<1>5. /\ g \in Heap /\ SameNodes(h, g) /\ g.freed = p.freed
      /\ \A j \in 1 .. Len(h.node) : g.node[j].next = IF j = i THEN c ELSE h.node[j].next
      /\ g.cell[c].object = o /\ g.cell[c].next = h.node[i].next
      /\ \A d \in Cell : d # c => g.cell[d] = h.cell[d]
  BY DEF IsPrepended
<1>6. InOrder(g) /\ \A q : HasNode(g, q) <=> HasNode(h, q)
  BY <1>1, <1>5, SameNodesFacts
<1>7. /\ own2[a] = Fronted(c, s) /\ own2[NULL] = u
      /\ \A q \in Object : q # a => own2[q] = own[q]
  BY <1>2 DEF OwnedWith
<1>8. own2[a].n = s.n + 1 /\ \A l \in 1 .. s.n + 1 : own2[a].at[l] = IF l = 1 THEN c ELSE s.at[l - 1]
  BY <1>7, FrontedIs
<1> HIDE DEF own2
<1>9. IsPath(g.cell, g.freed, own2[NULL])
  BY <1>4, <1>5, <1>7 DEF IsPath
<1>10. ASSUME NEW j \in 1 .. Len(h.node), j # i
       PROVE  IsPath(g.cell, g.node[j].next, own2[h.node[j].object])
  <2>1. h.node[j].object \in Object /\ h.node[j].object # a
    BY <1>1, <1>10, NodeFacts, OneNode
  <2> DEFINE t == own[h.node[j].object]
  <2>2. own2[h.node[j].object] = t /\ g.node[j].next = h.node[j].next
    BY <1>5, <1>7, <1>10, <2>1
  <2>3. IsPath(h.cell, h.node[j].next, t)
    BY <1>1 DEF Linked
  <2>4. \A l \in 1 .. t.n : t.at[l] \in Cell /\ t.at[l] # c
    BY <1>3, <1>4, <2>1
  <2>5. \A l \in 1 .. t.n : g.cell[t.at[l]] = h.cell[t.at[l]]
    BY <1>5, <2>4
  <2> HIDE DEF t
  <2>6. IsPath(g.cell, g.node[j].next, t)
    BY <2>2, <2>3, <2>5 DEF IsPath
  <2> QED BY <2>2, <2>6
<1>11. IsPath(g.cell, g.node[i].next, own2[a])
  <2> DEFINE v == own2[a]
  <2>1. s.n \in Nat /\ v.n = s.n + 1 /\ \A l \in 1 .. v.n : v.at[l] = IF l = 1 THEN c ELSE s.at[l - 1]
    BY <1>2, <1>3, <1>8
  <2>2. /\ h.node[i].next = IF s.n = 0 THEN NULL ELSE s.at[1]
        /\ \A l \in 1 .. s.n : h.cell[s.at[l]].next = IF l = s.n THEN NULL ELSE s.at[l + 1]
    BY <1>1 DEF Linked, IsPath
  <2>3. \A l \in 1 .. s.n : s.at[l] \in Cell /\ s.at[l] # c
    BY <1>2, <1>3, <1>4
  <2>4. \A l \in 1 .. s.n : g.cell[s.at[l]] = h.cell[s.at[l]]
    BY <1>5, <2>3
  <2>5. g.node[i].next = c
    BY <1>5
  <2> HIDE DEF v, s
  <2>6. ASSUME NEW l \in 1 .. v.n PROVE g.cell[v.at[l]].next = IF l = v.n THEN NULL ELSE v.at[l + 1]
    <3>1. CASE l = 1
      <4>1. v.at[l] = c /\ (l = v.n <=> s.n = 0)
        BY <2>1, <3>1
      <4>2. l # v.n => v.at[l + 1] = s.at[1]
        BY <2>1, <3>1
      <4> QED BY <1>5, <2>2, <4>1, <4>2
    <3>2. CASE l # 1
      <4>1. l - 1 \in 1 .. s.n /\ v.at[l] = s.at[l - 1]
        BY <2>1, <3>2
      <4>2. g.cell[v.at[l]].next = IF l - 1 = s.n THEN NULL ELSE s.at[l - 1 + 1]
        BY <2>2, <2>4, <4>1
      <4>3. l = v.n <=> l - 1 = s.n
        BY <2>1, <4>1
      <4>4. l # v.n => v.at[l + 1] = s.at[l - 1 + 1]
        <5>1. l + 1 - 1 = l - 1 + 1 /\ l + 1 # 1
          BY <2>1, <4>1
        <5>2. l # v.n => l + 1 \in 1 .. v.n
          BY <2>1
        <5> QED BY <2>1, <5>1, <5>2
      <4> QED BY <4>2, <4>3, <4>4
    <3> QED BY <3>1, <3>2
  <2>7. g.node[i].next = IF v.n = 0 THEN NULL ELSE v.at[1]
    BY <2>1, <2>5
  <2> QED BY <2>6, <2>7 DEF IsPath, v
<1>12. ASSUME NEW j \in 1 .. Len(g.node) PROVE IsPath(g.cell, g.node[j].next, own2[g.node[j].object])
  BY <1>5, <1>10, <1>11 DEF SameNodes
<1>13. ASSUME NEW q \in Object, ~HasNode(g, q) PROVE own2[q].n = 0
  <2>1. ~HasNode(h, q) /\ q # a
    BY <1>6, <1>13 DEF HasNode
  <2> QED BY <1>1, <1>7, <2>1 DEF Linked
<1>14. ASSUME NEW q \in Object, NEW l \in 1 .. own2[q].n PROVE g.cell[own2[q].at[l]].object \in Object
  <2>1. \A k \in 1 .. own[q].n : g.cell[own[q].at[k]].object \in Object
    <3>1. \A k \in 1 .. own[q].n : own[q].at[k] \in Cell /\ own[q].at[k] # c
      BY <1>3, <1>4
    <3>2. \A k \in 1 .. own[q].n : h.cell[own[q].at[k]].object \in Object
      BY <1>1 DEF Linked
    <3> QED BY <1>5, <3>1, <3>2
  <2>2. CASE q = a
    <3>1. s.n \in Nat /\ l \in 1 .. s.n + 1
      BY <1>2, <1>3, <1>8, <2>2
    <3>2. l = 1 \/ l - 1 \in 1 .. s.n
      BY <3>1
    <3>3. own2[q].at[l] = IF l = 1 THEN c ELSE s.at[l - 1]
      BY <1>8, <2>2, <3>1
    <3> QED BY <1>5, <2>1, <2>2, <3>2, <3>3
  <2>3. CASE q # a
    BY <1>7, <2>1, <2>3
  <2> QED BY <2>2, <2>3
<1> QED BY <1>9, <1>12, <1>13, <1>14 DEF Linked, own2

(* ...and one list has one more object, in front.                          *)
LEMMA PrependedNames ==
    ASSUME NEW h, NEW own, IsSound(h, own), NEW a \in Object,
           NEW o \in Object, NEW c, c = PoolTop(h), NEW g, IsSound(g, OwnedWith(h, own, a)),
           g.cell[c].object = o, \A q \in Object : \A k \in 1 .. own[q].n : own[q].at[k] # c,
           \A d \in Cell : d # c => g.cell[d] = h.cell[d]
    PROVE  /\ Names(g, OwnedWith(h, own, a)[a]) = <<o>> \o Names(h, own[a])
           /\ OthersKept(h, own, g, OwnedWith(h, own, a), a)
<1> DEFINE own2 == OwnedWith(h, own, a)
           s == own[a]
<1>1. a \in Owner /\ a # NULL /\ Object \subseteq Owner /\ NULL \notin Object
  BY Sizes DEF Owner
<1>2. own2[a] = Fronted(c, s) /\ \A q \in Object : q # a => own2[q] = own[q]
  BY <1>1 DEF OwnedWith
<1>3. \A q \in Object : own[q].n \in Nat /\ \A k \in 1 .. own[q].n : own[q].at[k] \in Cell
  BY <1>1, OwnedFacts
<1>4. ASSUME NEW q \in Object PROVE \A k \in 1 .. own[q].n : g.cell[own[q].at[k]] = h.cell[own[q].at[k]]
  BY <1>3
<1>5. OthersKept(h, own, g, own2, a)
  <2> HIDE DEF own2
  <2>1. ASSUME NEW q \in Object, q # a PROVE own2[q] = own[q] /\ Names(g, own2[q]) = Names(h, own[q])
    <3>1. Names(g, own[q]) = Names(h, own[q])
      BY <1>4 DEF Names
    <3> QED BY <1>2, <2>1, <3>1
  <2> QED BY <2>1 DEF OthersKept
<1>6. own2[a].n = s.n + 1 /\ \A l \in 1 .. s.n + 1 : own2[a].at[l] = IF l = 1 THEN c ELSE s.at[l - 1]
  BY <1>2, FrontedIs
<1>7. /\ Names(g, own2[a]) \in Seq(Object) /\ Len(Names(g, own2[a])) = s.n + 1
      /\ \A k \in 1 .. s.n + 1 : Names(g, own2[a])[k] = g.cell[own2[a].at[k]].object
  <2> HIDE DEF own2
  <2> QED BY <1>6, NamesFacts DEF own2
<1>8. /\ Names(h, s) \in Seq(Object) /\ Len(Names(h, s)) = s.n
      /\ \A k \in 1 .. s.n : Names(h, s)[k] = h.cell[s.at[k]].object
  <2> HIDE DEF s, own2
  <2>1. /\ Names(h, own[a]) \in Seq(Object) /\ Len(Names(h, own[a])) = own[a].n
        /\ \A k \in 1 .. own[a].n : Names(h, own[a])[k] = h.cell[own[a].at[k]].object
    BY NamesFacts
  <2> QED BY <2>1 DEF s
<1> DEFINE x == Names(g, own2[a])
           y == Names(h, s)
<1>9. s.n \in Nat /\ \A l \in 1 .. s.n : g.cell[s.at[l]] = h.cell[s.at[l]]
  BY <1>3, <1>4
<1>10. \A l \in 1 .. s.n + 1 : x[l] = IF l = 1 THEN o ELSE y[l - 1]
  <2>1. ASSUME NEW l \in 1 .. s.n + 1 PROVE x[l] = IF l = 1 THEN o ELSE y[l - 1]
    <3>1. CASE l = 1
      BY <1>6, <1>7, <3>1
    <3>2. CASE l # 1
      <4>1. l - 1 \in 1 .. s.n
        BY <1>9, <3>2
      <4>2. own2[a].at[l] = s.at[l - 1]
        BY <1>6, <3>2
      <4>3. x[l] = g.cell[s.at[l - 1]].object
        <5> HIDE DEF own2, s
        <5> QED BY <1>7, <4>2
      <4>4. y[l - 1] = h.cell[s.at[l - 1]].object
        <5> HIDE DEF own2, s
        <5> QED BY <1>8, <4>1
      <4> HIDE DEF s, own2, x, y
      <4> QED BY <1>9, <3>2, <4>1, <4>3, <4>4
    <3> QED BY <3>1, <3>2
  <2> QED BY <2>1
<1> HIDE DEF x, y, s
<1>11. x = <<o>> \o y
  <2>1. /\ <<o>> \o y \in Seq(Object) /\ Len(<<o>> \o y) = s.n + 1 /\ (<<o>> \o y)[1] = o
        /\ \A l \in 2 .. s.n + 1 : (<<o>> \o y)[l] = y[l - 1]
    <3>1. y \in Seq(Object) /\ Len(y) = s.n
      BY <1>8 DEF y
    <3> QED BY <3>1, Prepended
  <2>2. \A l \in 1 .. s.n + 1 : x[l] = (<<o>> \o y)[l]
    <3>1. \A l \in 1 .. s.n + 1 : l = 1 \/ l \in 2 .. s.n + 1
      BY <1>9
    <3>2. \A l \in 2 .. s.n + 1 : l # 1 /\ l \in 1 .. s.n + 1
      BY <1>9
    <3>3. 1 \in 1 .. s.n + 1
      BY <1>9
    <3> HIDE DEF x, y
    <3> DEFINE z == <<o>> \o y
    <3> HIDE DEF z
    <3>4. z[1] = o /\ \A l \in 2 .. s.n + 1 : z[l] = y[l - 1]
      BY <2>1 DEF z
    <3>5. \A l \in 1 .. s.n + 1 : x[l] = z[l]
      BY <1>10, <3>1, <3>2, <3>3, <3>4
    <3> QED BY <3>5 DEF z
  <2>3. x \in Seq(Object) /\ Len(x) = s.n + 1
    BY <1>7 DEF x
  <2> DEFINE z == <<o>> \o y
  <2> HIDE DEF z
  <2>4. z \in Seq(Object) /\ Len(z) = s.n + 1 /\ \A l \in 1 .. s.n + 1 : x[l] = z[l]
    BY <2>1, <2>2 DEF z
  <2>5. x = z
    BY <2>3, <2>4
  <2> QED BY <2>5 DEF z
<1> QED BY <1>5, <1>11 DEF x, y, s

(* Whatever is added to a list, its node is there and the pool not empty.  *)
LEMMA PrependIs ==
    ASSUME NEW h, NEW own, IsSound(h, own), h.n_used < MaxCells, NEW i \in 1 .. Len(h.node),
           NEW a, a = h.node[i].object, NEW o \in Object
    PROVE  \E gown : IsLonger(h, own, a, o, Prepend(h, i, o), gown)
<1> DEFINE c == PoolTop(h)
           p == PoolTaken(h)
           u == Taken(h, own)
           g == Prepend(h, i, o)
           own2 == OwnedWith(h, own, a)
<1>1. TopSays(h, own, c, p, u)
  BY TopIs
<1>2. h \in Heap /\ a \in Object /\ Counted(h, own) /\ a # NULL
  BY NodeFacts DEF IsSound
<1>3. /\ c \in Cell /\ p \in Heap /\ p.node = h.node /\ p.cell = h.cell /\ p.capacity = h.capacity
      /\ p.n_freed = u.n /\ p.n_used = p.allocated - p.n_freed /\ p.n_used = h.n_used + 1
      /\ \A q \in Object : \A k \in 1 .. own[q].n : own[q].at[k] # c
  BY <1>1 DEF TopSays
<1>4. IsPrepended(h, i, o, c, p, g)
  BY <1>2, <1>3, PrependedIs
<1>5. OwnedOnce(p, own2)
  BY <1>1, <1>2, PrependedOwned
<1>6. Linked(g, own2)
  <2> HIDE DEF c, p, u, g
  <2> QED BY <1>1, <1>2, <1>4, PrependedPaths DEF c, u
<1>7. own2[NULL] = u
  BY <1>2 DEF OwnedWith, Owner
<1> HIDE DEF g, own2, u, p
<1>8. /\ g \in Heap /\ SameNodes(h, g) /\ g.capacity = h.capacity
      /\ g.allocated = p.allocated /\ g.n_freed = p.n_freed /\ g.n_used = p.n_used
      /\ g.cell[c].object = o /\ \A d \in Cell : d # c => g.cell[d] = h.cell[d]
  BY <1>4 DEF IsPrepended
<1>9. InOrder(g)
  BY <1>2, <1>8, SameNodesFacts DEF IsSound
<1>10. OwnedOnce(g, own2)
  BY <1>5, <1>8 DEF OwnedOnce
<1>11. Counted(g, own2)
  BY <1>2, <1>3, <1>7, <1>8 DEF Counted, SameNodes
<1>12. IsSound(g, own2)
  BY <1>6, <1>8, <1>9, <1>10, <1>11 DEF IsSound
<1>13. Names(g, own2[a]) = <<o>> \o Names(h, own[a]) /\ OthersKept(h, own, g, own2, a)
  <2> HIDE DEF c
  <2> QED BY <1>2, <1>3, <1>8, <1>12, PrependedNames DEF own2, c
<1>14. IsLonger(h, own, a, o, g, own2)
  BY <1>3, <1>8, <1>12, <1>13 DEF IsLonger
<1> QED BY <1>14 DEF g

-----------------------------------------------------------------------------
(* Nodes come and go while the lists stay.                                 *)
NodesChange(h, own, g) ==
    /\ g \in Heap /\ g.cell = h.cell /\ g.allocated = h.allocated /\ g.freed = h.freed
    /\ g.n_freed = h.n_freed /\ g.n_used = h.n_used
    /\ g.capacity >= Len(g.node) /\ InOrder(g)
    /\ \A j \in 1 .. Len(g.node) :
          \/ g.node[j].next = NULL /\ own[g.node[j].object].n = 0
          \/ \E i \in 1 .. Len(h.node) : g.node[j] = h.node[i]
    /\ \A o \in Object : HasNode(h, o) => HasNode(g, o) \/ own[o].n = 0

SameLists(h, own, g) ==
    /\ IsSound(g, own) /\ g.n_used = h.n_used
    /\ \A o \in Object : Names(g, own[o]) = Names(h, own[o])

(* The nodes change and the cells do not.                                  *)
LEMMA NodesChanged ==
    ASSUME NEW h, NEW own, IsSound(h, own), NEW g, NodesChange(h, own, g)
    PROVE  SameLists(h, own, g)
<1>1. /\ g \in Heap /\ g.cell = h.cell /\ g.allocated = h.allocated /\ g.freed = h.freed
      /\ g.n_freed = h.n_freed /\ g.n_used = h.n_used
      /\ g.capacity >= Len(g.node) /\ InOrder(g)
  BY DEF NodesChange
<1>2. h \in Heap /\ OwnedOnce(h, own) /\ Linked(h, own) /\ Counted(h, own)
  BY DEF IsSound
<1>3. OwnedOnce(g, own)
  BY <1>1, <1>2 DEF OwnedOnce
<1>4. ASSUME NEW j \in 1 .. Len(g.node) PROVE IsPath(g.cell, g.node[j].next, own[g.node[j].object])
  <2>1. CASE g.node[j].next = NULL /\ own[g.node[j].object].n = 0
    BY <2>1 DEF IsPath
  <2>2. ASSUME NEW i \in 1 .. Len(h.node), g.node[j] = h.node[i]
        PROVE  IsPath(g.cell, g.node[j].next, own[g.node[j].object])
    BY <1>1, <1>2, <2>2 DEF Linked
  <2> QED BY <2>1, <2>2 DEF NodesChange
<1>5. \A o \in Object : ~HasNode(g, o) => own[o].n = 0
  BY <1>2 DEF NodesChange, Linked
<1>6. Linked(g, own)
  BY <1>1, <1>2, <1>4, <1>5 DEF Linked
<1>7. Counted(g, own)
  BY <1>1, <1>2 DEF Counted
<1>8. IsSound(g, own)
  BY <1>1, <1>3, <1>6, <1>7 DEF IsSound
<1>9. \A o \in Object : Names(g, own[o]) = Names(h, own[o])
  BY <1>1 DEF Names
<1> QED BY <1>1, <1>8, <1>9 DEF SameLists

(* A node is inserted where the search says that it belongs: the nodes     *)
(* stay in order.                                                          *)
LEMMA Inserted ==
    ASSUME NEW S, NEW s \in Seq(S), NEW i \in 1 .. Len(s) + 1, NEW e
    PROVE  /\ Len(InsertAt(s, i, e)) = Len(s) + 1
           /\ \A j \in 1 .. Len(s) + 1 :
                 InsertAt(s, i, e)[j] = IF j < i THEN s[j] ELSE IF j = i THEN e ELSE s[j - 1]
<1> DEFINE x == SubSeq(s, 1, i - 1)
           y == SubSeq(s, i, Len(s))
           T == S \cup {e}
<1>1. Len(s) \in Nat /\ i \in Nat /\ i >= 1 /\ i <= Len(s) + 1
  OBVIOUS
<1>2. x \in Seq(S) /\ Len(x) = i - 1 /\ \A j \in 1 .. i - 1 : x[j] = s[j]
  BY <1>1
<1>3. y \in Seq(S) /\ Len(y) = Len(s) - i + 1 /\ \A j \in 1 .. Len(s) - i + 1 : y[j] = s[i + j - 1]
  BY <1>1
<1> HIDE DEF x, y
<1>4. x \in Seq(T) /\ y \in Seq(T) /\ <<e>> \in Seq(T) /\ Len(<<e>>) = 1 /\ <<e>>[1] = e
  BY <1>2, <1>3
<1> DEFINE z == x \o <<e>>
<1>5. z \in Seq(T) /\ Len(z) = i /\ \A j \in 1 .. i : z[j] = IF j < i THEN s[j] ELSE e
  BY <1>1, <1>2, <1>4
<1> HIDE DEF z, T
<1>6. /\ Len(z \o y) = Len(s) + 1
      /\ \A j \in 1 .. Len(s) + 1 : (z \o y)[j] = IF j <= i THEN z[j] ELSE y[j - i]
  <2>1. z \in Seq(T) /\ y \in Seq(T)
    BY <1>4, <1>5
  <2>2. /\ Len(z \o y) = Len(z) + Len(y)
        /\ \A j \in 1 .. Len(z) + Len(y) :
              (z \o y)[j] = IF j <= Len(z) THEN z[j] ELSE y[j - Len(z)]
    BY <2>1
  <2>3. Len(z) = i /\ Len(y) = Len(s) - i + 1
    BY <1>3, <1>5
  <2>4. Len(z) + Len(y) = Len(s) + 1
    BY <1>1, <2>3
  <2> QED BY <2>2, <2>3, <2>4
<1>7. InsertAt(s, i, e) = z \o y
  BY DEF InsertAt, z, x, y
<1>8. ASSUME NEW j \in 1 .. Len(s) + 1
      PROVE  (z \o y)[j] = IF j < i THEN s[j] ELSE IF j = i THEN e ELSE s[j - 1]
  <2>1. CASE j <= i
    <3>1. j \in 1 .. i
      BY <1>1, <2>1
    <3> QED BY <1>1, <1>5, <1>6, <2>1, <3>1
  <2>2. CASE ~(j <= i)
    <3>1. j - i \in 1 .. Len(s) - i + 1 /\ i + (j - i) - 1 = j - 1 /\ ~(j < i) /\ j # i
      BY <1>1, <2>2
    <3>2. (z \o y)[j] = y[j - i]
      BY <1>6, <2>2
    <3> QED BY <1>3, <3>1, <3>2
  <2> QED BY <2>1, <2>2
<1> QED BY <1>6, <1>7, <1>8

(* A slot may hold what is no node.                                        *)
Slot == [object : Owner, next : Pointer]

IsSlotAt(h, i, g) ==
    /\ g = [h EXCEPT !.node = g.node, !.capacity = g.capacity]
    /\ g.capacity \in Nat /\ g.capacity >= Len(h.node) + 1
    /\ g.node \in Seq(Slot) /\ Len(g.node) = Len(h.node) + 1
    /\ \A j \in 1 .. Len(h.node) + 1 :
          j # i => g.node[j] = IF j < i THEN h.node[j] ELSE h.node[j - 1]

LEMMA SlotAtIs ==
    ASSUME NEW h \in Heap, NEW i \in 1 .. Len(h.node) + 1
    PROVE  IsSlotAt(h, i, SlotAt(h, i))
<1> DEFINE n == Len(h.node)
           stale == IF i <= n THEN h.node[i] ELSE [object |-> NULL, next |-> NULL]
           r == InsertAt(h.node, i, stale)
           cap == IF h.capacity > n THEN h.capacity
                  ELSE IF 2 * h.capacity > n THEN 2 * h.capacity ELSE 2 * (n + 1)
           g == SlotAt(h, i)
<1>1. h.node \in Seq(Node) /\ n \in Nat /\ h.capacity \in Nat /\ i \in Nat
  BY DEF Heap
<1>2. Node \subseteq Slot /\ [object |-> NULL, next |-> NULL] \in Slot
  BY DEF Node, Slot, Owner, Pointer
<1>3. \A j \in 1 .. n : h.node[j] \in Slot
  BY <1>1, <1>2
<1>4. stale \in Slot
  <2>1. CASE i <= n
    <3>1. i \in 1 .. n
      BY <1>1, <2>1
    <3> QED BY <1>3, <2>1, <3>1
  <2>2. CASE ~(i <= n)
    BY <1>2, <2>2
  <2> QED BY <2>1, <2>2
<1> HIDE DEF stale
<1>5. /\ Len(r) = n + 1
      /\ \A j \in 1 .. n + 1 : r[j] = IF j < i THEN h.node[j] ELSE IF j = i THEN stale ELSE h.node[j - 1]
  BY <1>1, Inserted
<1>6. \A j \in 1 .. n + 1 : r[j] \in Slot
  <2>1. ASSUME NEW j \in 1 .. n + 1 PROVE r[j] \in Slot
    <3>1. (j < i => j \in 1 .. n) /\ (j > i => j - 1 \in 1 .. n) /\ (j < i \/ j = i \/ j > i)
      BY <1>1
    <3> HIDE DEF r, n
    <3> QED BY <1>3, <1>4, <1>5, <3>1
  <2> QED BY <2>1
<1>7. r \in Seq(Slot)
  <2>1. r \in Seq(Slot)
    <3>1. SubSeq(h.node, 1, i - 1) \in Seq(Slot) /\ SubSeq(h.node, i, n) \in Seq(Slot)
      <4>1. SubSeq(h.node, 1, i - 1) \in Seq(Node) /\ SubSeq(h.node, i, n) \in Seq(Node)
        BY <1>1
      <4>2. Seq(Node) \subseteq Seq(Slot)
        BY <1>2
      <4> QED BY <4>1, <4>2
    <3>2. <<stale>> \in Seq(Slot)
      BY <1>4
    <3> QED BY <3>1, <3>2 DEF InsertAt
  <2> QED BY <2>1
<1>8. g = [h EXCEPT !.node = r, !.capacity = cap]
  BY DEF SlotAt, stale, Heap
<1>9. cap \in Nat /\ cap >= n + 1
  BY <1>1
<1> HIDE DEF cap, r
<1>10. g.node = r /\ g.capacity = cap
  BY <1>8 DEF Heap
<1> HIDE DEF g
<1>11. \A j \in 1 .. n + 1 : j # i => r[j] = IF j < i THEN h.node[j] ELSE h.node[j - 1]
  BY <1>5
<1>12. IsSlotAt(h, i, g)
  BY <1>5, <1>7, <1>8, <1>9, <1>10, <1>11 DEF IsSlotAt
<1> QED BY <1>12 DEF g

HasItsNode(h, own, o, f) ==
    /\ SameLists(h, own, f.heap)
    /\ f.index \in 1 .. Len(f.heap.node) /\ f.heap.node[f.index].object = o
    /\ \A q \in Object : HasNode(h, q) => HasNode(f.heap, q)

NewNode(h, o, i) == [SlotAt(h, i) EXCEPT !.node[i] = [object |-> o, next |-> NULL]]

LEMMA NewNodeIs ==
    ASSUME NEW h, NEW own, IsSound(h, own), NEW o \in Object, NEW at, MissingAt(h, o, at),
           ~HasNode(h, o), NEW i, i = at.index
    PROVE  HasItsNode(h, own, o, [heap |-> NewNode(h, o, i), index |-> i])
<1> DEFINE n == Len(h.node)
           e == [object |-> o, next |-> NULL]
           k == SlotAt(h, i)
           g == NewNode(h, o, i)
<1>1. h \in Heap /\ InOrder(h) /\ n \in Nat /\ own[o].n = 0
  BY HeapFacts DEF IsSound, Linked
<1>2. /\ i \in 1 .. n + 1 /\ i \in Nat
      /\ \A j \in 1 .. n : (j < i => h.node[j].object < o) /\ (j >= i => h.node[j].object > o)
  BY <1>1 DEF MissingAt
<1>3. IsSlotAt(h, i, k)
  BY <1>1, <1>2, SlotAtIs
<1> HIDE DEF k
<1>4. /\ k = [h EXCEPT !.node = k.node, !.capacity = k.capacity]
      /\ k.capacity \in Nat /\ k.capacity >= n + 1
      /\ k.node \in Seq(Slot) /\ Len(k.node) = n + 1
      /\ \A j \in 1 .. n + 1 : j # i => k.node[j] = IF j < i THEN h.node[j] ELSE h.node[j - 1]
  BY <1>3 DEF IsSlotAt
<1> DEFINE r == [k.node EXCEPT ![i] = e]
<1>5. e \in Node /\ e.next = NULL /\ e.object = o /\ e \in Slot
  BY Sizes DEF Node, Pointer, Slot, Owner
<1> HIDE DEF e
<1>6. r \in Seq(Slot) /\ Len(r) = n + 1 /\ r[i] = e /\ \A j \in 1 .. n + 1 : j # i => r[j] = k.node[j]
  BY <1>2, <1>4, <1>5
<1>7. g = [h EXCEPT !.node = r, !.capacity = k.capacity]
  <2>1. g = [k EXCEPT !.node = r]
    <3>1. g = [k EXCEPT !.node = [k.node EXCEPT ![i] = e]]
      BY DEF NewNode, k, e
    <3> QED BY <3>1
  <2> HIDE DEF r, g
  <2>2. \A y, x : [[h EXCEPT !.node = y, !.capacity = x] EXCEPT !.node = r] = [h EXCEPT !.node = r, !.capacity = x]
    BY <1>1 DEF Heap
  <2>3. [k EXCEPT !.node = r] = [h EXCEPT !.node = r, !.capacity = k.capacity]
    BY <1>4, <2>2
  <2> QED BY <2>1, <2>3
<1> HIDE DEF r
<1>8. ASSUME NEW j \in 1 .. n + 1
      PROVE  \/ j = i /\ r[j] = e
             \/ j < i /\ j \in 1 .. n /\ r[j] = h.node[j]
             \/ j > i /\ j - 1 \in 1 .. n /\ j - 1 >= i /\ r[j] = h.node[j - 1]
  <2>1. \/ j = i
        \/ j < i /\ j \in 1 .. n /\ j # i
        \/ j > i /\ j - 1 \in 1 .. n /\ j - 1 >= i /\ j # i /\ ~(j < i)
    BY <1>1, <1>2
  <2> QED BY <1>4, <1>6, <2>1
<1>9. \A j \in 1 .. n : h.node[j] \in Node
  BY <1>1 DEF Heap
<1>10. r \in Seq(Node)
  <2>1. \A j \in 1 .. n + 1 : r[j] \in Node
    BY <1>5, <1>8, <1>9
  <2> QED BY <1>6, <2>1
<1>11. /\ g \in Heap /\ g.node = r /\ g.capacity = k.capacity /\ g.cell = h.cell
       /\ g.allocated = h.allocated /\ g.freed = h.freed /\ g.n_freed = h.n_freed /\ g.n_used = h.n_used
  BY <1>1, <1>4, <1>7, <1>10 DEF Heap
<1> HIDE DEF g
<1>12. InOrder(g)
  <2>1. ASSUME NEW j \in 1 .. n + 1, NEW l \in 1 .. n + 1, j < l PROVE r[j].object < r[l].object
    <3>1. /\ \A m \in 1 .. n : h.node[m].object \in Nat
          /\ \A m, q \in 1 .. n : m < q => h.node[m].object < h.node[q].object
      BY <1>1, NodeFacts DEF InOrder
    <3>2. o \in Nat /\ e.object = o
      BY <1>5, Sizes
    <3>3. CASE j = i
      <4>1. l - 1 \in 1 .. n /\ l - 1 >= i /\ r[l] = h.node[l - 1]
        BY <1>8, <2>1, <3>3
      <4> QED BY <1>2, <1>6, <3>2, <3>3, <4>1
    <3>4. CASE j < i
      <4>1. j \in 1 .. n /\ r[j] = h.node[j]
        BY <1>1, <1>2, <1>8, <3>4
      <4>2. CASE l = i
        BY <1>2, <1>6, <3>2, <3>4, <4>1, <4>2
      <4>3. CASE l < i
        <5>1. l \in 1 .. n /\ r[l] = h.node[l]
          BY <1>1, <1>2, <1>8, <4>3
        <5> QED BY <2>1, <3>1, <4>1, <5>1
      <4>4. CASE l > i
        <5>1. l - 1 \in 1 .. n /\ l - 1 >= i /\ r[l] = h.node[l - 1]
          BY <1>1, <1>2, <1>8, <4>4
        <5>2. j < l - 1
          BY <1>2, <3>4, <4>1, <5>1
        <5> QED BY <3>1, <4>1, <5>1, <5>2
      <4> QED BY <1>2, <4>2, <4>3, <4>4
    <3>5. CASE j > i
      <4>1. j - 1 \in 1 .. n /\ r[j] = h.node[j - 1] /\ l - 1 \in 1 .. n /\ r[l] = h.node[l - 1] /\ j - 1 < l - 1
        BY <1>2, <1>8, <2>1, <3>5
      <4> QED BY <3>1, <4>1
    <3> QED BY <1>2, <3>3, <3>4, <3>5
  <2> QED BY <1>6, <1>11, <2>1 DEF InOrder
<1>13. \A j \in 1 .. n : \E l \in 1 .. n + 1 : r[l] = h.node[j]
  <2>1. ASSUME NEW j \in 1 .. n PROVE \E l \in 1 .. n + 1 : r[l] = h.node[j]
    <3>1. CASE j < i
      <4>1. j \in 1 .. n + 1 /\ j # i
        BY <1>2, <3>1
      <4> QED BY <1>4, <1>6, <3>1, <4>1
    <3>2. CASE j >= i
      <4>1. j + 1 \in 1 .. n + 1 /\ j + 1 # i /\ ~(j + 1 < i) /\ j + 1 - 1 = j
        BY <1>1, <1>2, <3>2
      <4>2. r[j + 1] = h.node[j]
        BY <1>4, <1>6, <4>1
      <4> QED BY <4>1, <4>2
    <3> QED BY <1>2, <3>1, <3>2
  <2> QED BY <2>1
<1>14. \A q : HasNode(h, q) => HasNode(g, q)
  <2>1. \A q : (\E j \in 1 .. n : h.node[j].object = q) => \E l \in 1 .. n + 1 : r[l].object = q
    BY <1>13
  <2> QED BY <1>6, <1>11, <2>1 DEF HasNode
<1>15. NodesChange(h, own, g)
  <2>1. \A j \in 1 .. n + 1 : \/ r[j].next = NULL /\ own[r[j].object].n = 0
                              \/ \E l \in 1 .. n : r[j] = h.node[l]
    BY <1>1, <1>5, <1>8
  <2> HIDE DEF n
  <2>2. Len(g.node) = n + 1 /\ g.node = r
    BY <1>6, <1>11
  <2>3. g.capacity >= Len(g.node)
    BY <1>4, <1>11, <2>2
  <2> QED BY <1>11, <1>12, <1>14, <2>1, <2>2, <2>3 DEF NodesChange, n
<1>16. SameLists(h, own, g)
  BY <1>15, NodesChanged
<1>17. i \in 1 .. Len(g.node) /\ g.node[i].object = o
  BY <1>2, <1>5, <1>6, <1>11
<1>18. HasItsNode(h, own, o, [heap |-> g, index |-> i])
  BY <1>14, <1>16, <1>17 DEF HasItsNode
<1> QED BY <1>18 DEF g

(* The node of an object is found or made.                                 *)
LEMMA WithNodeIs ==
    ASSUME NEW h, NEW own, IsSound(h, own), AddressesAreNear, NEW o \in Object
    PROVE  HasItsNode(h, own, o, WithNode(h, o))
<1> DEFINE at == Find(h, o)
<1>1. h \in Heap /\ InOrder(h)
  BY DEF IsSound
<1>2. CASE FoundAt(h, o, at) /\ HasNode(h, o)
  <2>1. at.found /\ at.index \in 1 .. Len(h.node) /\ h.node[at.index].object = o
    BY <1>2 DEF FoundAt
  <2>2. WithNode(h, o) = [heap |-> h, index |-> at.index]
    BY <2>1 DEF WithNode
  <2> HIDE DEF at
  <2>3. SameLists(h, own, h)
    BY DEF SameLists
  <2> QED BY <2>1, <2>2, <2>3 DEF HasItsNode
<1>3. CASE MissingAt(h, o, at) /\ ~HasNode(h, o)
  <2>1. at.found = FALSE
    BY <1>3 DEF MissingAt
  <2>2. WithNode(h, o) = [heap |-> NewNode(h, o, at.index), index |-> at.index]
    BY <2>1 DEF WithNode, NewNode
  <2> HIDE DEF at
  <2> DEFINE i == at.index
  <2> HIDE DEF i
  <2>3. HasItsNode(h, own, o, [heap |-> NewNode(h, o, i), index |-> i])
    BY <1>3, NewNodeIs DEF i
  <2> QED BY <2>2, <2>3 DEF i
<1> QED BY <1>1, <1>2, <1>3, FindIs

(* sq_relation_add() puts each of two objects in front of the other's list. *)
IsAdded(h, own, a, b, g, gown) ==
    /\ IsSound(g, gown)
    /\ Names(g, gown[a]) = <<b>> \o Names(h, own[a])
    /\ Names(g, gown[b]) = <<a>> \o Names(h, own[b])
    /\ \A o \in Object : o # a /\ o # b => Names(g, gown[o]) = Names(h, own[o])

(* Two objects are related.                                                *)
LEMMA AddedIs ==
    ASSUME NEW h, NEW own, IsSound(h, own), AddressesAreNear, NEW a \in Object, NEW b \in Object,
           a # b, h.n_used + 2 <= MaxCells,
           NEW f, f = WithNode(h, a), NEW m, m = Prepend(f.heap, f.index, b),
           NEW t, t = WithNode(m, b)
    PROVE  \E gown : IsAdded(h, own, a, b, Prepend(t.heap, t.index, a), gown)
<1>0. h.n_used \in Int /\ MaxCells \in Nat
  BY Sizes DEF IsSound, Heap
<1>1. HasItsNode(h, own, a, f)
  BY WithNodeIs
<1>2. /\ IsSound(f.heap, own) /\ f.heap.n_used = h.n_used
      /\ \A o \in Object : Names(f.heap, own[o]) = Names(h, own[o])
      /\ f.index \in 1 .. Len(f.heap.node) /\ f.heap.node[f.index].object = a
  BY <1>1 DEF HasItsNode, SameLists
<1>3. PICK mown : IsLonger(f.heap, own, a, b, m, mown)
  <2> DEFINE x == f.heap
             i == f.index
  <2>1. IsSound(x, own) /\ x.n_used < MaxCells /\ i \in 1 .. Len(x.node) /\ a = x.node[i].object
    BY <1>0, <1>2
  <2> HIDE DEF x, i
  <2>2. \E mown : IsLonger(x, own, a, b, Prepend(x, i, b), mown)
    BY <2>1, PrependIs
  <2> QED BY <2>2 DEF x, i
<1>4. /\ IsSound(m, mown) /\ m.n_used = h.n_used + 1
      /\ Names(m, mown[a]) = <<b>> \o Names(h, own[a])
      /\ \A o \in Object : o # a => Names(m, mown[o]) = Names(h, own[o])
  BY <1>2, <1>3 DEF IsLonger, OthersKept
<1>5. HasItsNode(m, mown, b, t)
  BY <1>4, WithNodeIs
<1>6. /\ IsSound(t.heap, mown) /\ t.heap.n_used = m.n_used
      /\ \A o \in Object : Names(t.heap, mown[o]) = Names(m, mown[o])
      /\ t.index \in 1 .. Len(t.heap.node) /\ t.heap.node[t.index].object = b
  BY <1>5 DEF HasItsNode, SameLists
<1> DEFINE g == Prepend(t.heap, t.index, a)
<1>7. PICK gown : IsLonger(t.heap, mown, b, a, g, gown)
  <2> DEFINE x == t.heap
             i == t.index
  <2>1. IsSound(x, mown) /\ x.n_used < MaxCells /\ i \in 1 .. Len(x.node) /\ b = x.node[i].object
    BY <1>0, <1>4, <1>6
  <2> HIDE DEF x, i
  <2>2. \E gown : IsLonger(x, mown, b, a, Prepend(x, i, a), gown)
    BY <2>1, PrependIs
  <2> QED BY <2>2 DEF x, i
<1> HIDE DEF g
<1>8. /\ IsSound(g, gown) /\ Names(g, gown[b]) = <<a>> \o Names(t.heap, mown[b])
      /\ \A o \in Object : o # b => Names(g, gown[o]) = Names(t.heap, mown[o])
  BY <1>7 DEF IsLonger, OthersKept
<1>9. IsAdded(h, own, a, b, g, gown)
  <2>1. Names(t.heap, mown[b]) = Names(h, own[b])
    BY <1>4, <1>6
  <2>2. Names(g, gown[a]) = <<b>> \o Names(h, own[a])
    BY <1>4, <1>6, <1>8
  <2>3. \A o \in Object : o # a /\ o # b => Names(g, gown[o]) = Names(h, own[o])
    BY <1>4, <1>6, <1>8
  <2> QED BY <1>8, <2>1, <2>2, <2>3 DEF IsAdded
<1> QED BY <1>9 DEF g

-----------------------------------------------------------------------------
(* Nodes without a cell are removed.                                       *)
KeptNodes(h, k, r) ==
    /\ r \in Seq(Node) /\ Len(r) <= k
    /\ \A j \in 1 .. Len(r) : \E i \in 1 .. k : r[j] = h.node[i]
    /\ \A j, l \in 1 .. Len(r) : j < l => r[j].object < r[l].object
    /\ \A i \in 1 .. k : h.node[i].next = NULL \/ \E j \in 1 .. Len(r) : r[j] = h.node[i]

LEMMA KeptOneMore ==
    ASSUME NEW h \in Heap, InOrder(h), NEW k \in Nat, k < Len(h.node), NEW r, KeptNodes(h, k, r),
           NEW x, x = h.node[k + 1]
    PROVE  KeptNodes(h, k + 1, IF x.next = NULL THEN r ELSE Append(r, x))
<1> DEFINE n == Len(r)
<1>1. /\ r \in Seq(Node) /\ n \in Nat /\ n <= k
      /\ \A j \in 1 .. n : \E i \in 1 .. k : r[j] = h.node[i]
      /\ \A j, l \in 1 .. n : j < l => r[j].object < r[l].object
      /\ \A i \in 1 .. k : h.node[i].next = NULL \/ \E j \in 1 .. n : r[j] = h.node[i]
  BY DEF KeptNodes
<1>2. /\ Len(h.node) \in Nat /\ k + 1 \in 1 .. Len(h.node) /\ 1 .. k \subseteq 1 .. k + 1
      /\ \A i \in 1 .. k : i \in 1 .. Len(h.node) /\ i < k + 1
      /\ \A i \in 1 .. k + 1 : i \in 1 .. k \/ i = k + 1
  BY HeapFacts
<1>3. x \in Node
  BY <1>2 DEF Heap
<1>4. CASE x.next = NULL
  <2>1. \A i \in 1 .. k + 1 : h.node[i].next = NULL \/ \E j \in 1 .. n : r[j] = h.node[i]
    BY <1>1, <1>2, <1>4
  <2>2. \A j \in 1 .. n : \E i \in 1 .. k + 1 : r[j] = h.node[i]
    BY <1>1, <1>2
  <2>3. n <= k + 1
    BY <1>1
  <2> QED BY <1>1, <1>4, <2>1, <2>2, <2>3 DEF KeptNodes
<1>5. CASE x.next # NULL
  <2> DEFINE q == Append(r, x)
  <2>1. /\ q \in Seq(Node) /\ Len(q) = n + 1 /\ q[n + 1] = x
        /\ \A j \in 1 .. n : q[j] = r[j]
    BY <1>1, <1>3
  <2> HIDE DEF q, n
  <2>2. \A j \in 1 .. n + 1 : j \in 1 .. n \/ j = n + 1
    BY <1>1
  <2>3. 1 .. n \subseteq 1 .. n + 1 /\ n + 1 \in 1 .. n + 1 /\ n + 1 <= k + 1
    BY <1>1
  <2>4. ASSUME NEW j \in 1 .. n + 1 PROVE \E i \in 1 .. k + 1 : q[j] = h.node[i]
    <3>1. CASE j \in 1 .. n
      BY <1>1, <1>2, <2>1, <3>1
    <3>2. CASE j = n + 1
      <4>1. k + 1 \in 1 .. k + 1
        OBVIOUS
      <4> QED BY <2>1, <3>2, <4>1
    <3> QED BY <2>2, <3>1, <3>2
  <2>5. ASSUME NEW i \in 1 .. k + 1, h.node[i].next # NULL PROVE \E j \in 1 .. n + 1 : q[j] = h.node[i]
    <3>1. CASE i \in 1 .. k
      BY <1>1, <2>1, <2>3, <2>5, <3>1
    <3>2. CASE i = k + 1
      BY <2>1, <2>3, <3>2
    <3> QED BY <1>2, <3>1, <3>2
  <2>6. ASSUME NEW j \in 1 .. n + 1, NEW l \in 1 .. n + 1, j < l PROVE q[j].object < q[l].object
    <3>1. j \in 1 .. n
      BY <1>1, <2>6
    <3>2. CASE l \in 1 .. n
      BY <1>1, <2>1, <2>6, <3>1, <3>2
    <3>3. CASE l = n + 1
      <4>1. PICK i \in 1 .. k : r[j] = h.node[i]
        BY <1>1, <3>1
      <4>2. h.node[i].object < h.node[k + 1].object
        BY <1>2 DEF InOrder
      <4> QED BY <2>1, <3>1, <3>3, <4>1, <4>2
    <3> QED BY <2>2, <3>2, <3>3
  <2>7. KeptNodes(h, k + 1, q)
    BY <2>1, <2>3, <2>4, <2>5, <2>6 DEF KeptNodes
  <2> QED BY <1>5, <2>7 DEF q
<1> QED BY <1>4, <1>5

KeepsNodes(h, n, f) ==
    /\ f[0] = <<>>
    /\ \A k \in 1 .. n : f[k] = IF h.node[k].next = NULL THEN f[k - 1] ELSE Append(f[k - 1], h.node[k])

(* The nodes that are left when the empty ones are removed: those with a   *)
(* list, in their order.                                                   *)
LEMMA KeepsNodesExists ==
    ASSUME NEW h, Len(h.node) \in Nat
    PROVE  \E f : /\ KeepsNodes(h, Len(h.node), f)
                  /\ RemoveEmptyNodes(h) = [h EXCEPT !.node = f[Len(h.node)]]
<1> DEFINE n == Len(h.node)
           Kept(m, f) == f = [k \in 0 .. m |->
                                IF k = 0 THEN <<>>
                                ELSE IF h.node[k].next = NULL THEN f[k - 1]
                                ELSE Append(f[k - 1], h.node[k])]
           T == {m \in Nat : \E f : Kept(m, f)}
<1>1. 0 \in T
  <2>1. Kept(0, [k \in 0 .. 0 |-> <<>>])
    OBVIOUS
  <2> QED BY <2>1
<1>2. ASSUME NEW m \in T, m \in Nat PROVE m + 1 \in T
  <2>1. PICK f : Kept(m, f)
    BY <1>2
  <2> DEFINE next(k) == IF h.node[k].next = NULL THEN f[m] ELSE Append(f[m], h.node[k])
             g == [k \in 0 .. m + 1 |-> IF k = m + 1 THEN next(k) ELSE f[k]]
  <2>2. \A k \in 0 .. m : f[k] = IF k = 0 THEN <<>>
                                ELSE IF h.node[k].next = NULL THEN f[k - 1]
                                ELSE Append(f[k - 1], h.node[k])
    BY <2>1
  <2>3. \A k \in 0 .. m : g[k] = f[k]
    BY <1>2
  <2>4. g[m + 1] = IF h.node[m + 1].next = NULL THEN f[m] ELSE Append(f[m], h.node[m + 1])
    BY <1>2
  <2>5. g = [k \in 0 .. m + 1 |-> g[k]]
    OBVIOUS
  <2> HIDE DEF g
  <2>6. ASSUME NEW k \in 0 .. m + 1
        PROVE  g[k] = IF k = 0 THEN <<>>
                      ELSE IF h.node[k].next = NULL THEN g[k - 1]
                      ELSE Append(g[k - 1], h.node[k])
    <3>1. CASE k = m + 1
      <4>1. k # 0 /\ k - 1 = m /\ m \in 0 .. m
        BY <1>2, <3>1
      <4>2. g[k - 1] = f[m]
        BY <2>3, <4>1
      <4> QED BY <2>4, <3>1, <4>1, <4>2
    <3>2. CASE k # m + 1
      <4>1. k \in 0 .. m /\ (k # 0 => k - 1 \in 0 .. m)
        BY <1>2, <3>2
      <4> QED BY <2>2, <2>3, <4>1
    <3> QED BY <3>1, <3>2
  <2>7. Kept(m + 1, g)
    BY <2>5, <2>6
  <2> QED BY <1>2, <2>7
<1>3. n \in T
  <2> HIDE DEF T, n
  <2>1. n \in Nat
    BY DEF n
  <2> QED BY <1>1, <1>2, <2>1, Induct
<1> DEFINE kept == CHOOSE f : Kept(n, f)
<1>4. Kept(n, kept)
  BY <1>3
<1>5. RemoveEmptyNodes(h) = [h EXCEPT !.node = kept[n]]
  BY DEF RemoveEmptyNodes
<1> HIDE DEF kept
<1>6. KeepsNodes(h, n, kept)
  <2>1. 0 \in 0 .. n /\ \A k \in 1 .. n : k \in 0 .. n /\ k # 0
    OBVIOUS
  <2>2. \A k \in 0 .. n : kept[k] = IF k = 0 THEN <<>>
                                   ELSE IF h.node[k].next = NULL THEN kept[k - 1]
                                   ELSE Append(kept[k - 1], h.node[k])
    BY <1>4
  <2> QED BY <2>1, <2>2 DEF KeepsNodes
<1> QED BY <1>5, <1>6

(* No list changes by it.                                                  *)
LEMMA RemoveEmptyIs ==
    ASSUME NEW h, NEW own, IsSound(h, own)
    PROVE  SameLists(h, own, RemoveEmptyNodes(h))
<1> DEFINE n == Len(h.node)
           g == RemoveEmptyNodes(h)
<1>1. h \in Heap /\ InOrder(h) /\ Linked(h, own) /\ Counted(h, own) /\ n \in Nat
  BY HeapFacts DEF IsSound
<1>2. PICK f : KeepsNodes(h, n, f) /\ g = [h EXCEPT !.node = f[n]]
  BY <1>1, KeepsNodesExists
<1> HIDE DEF g, n
<1> DEFINE T == {k \in Nat : k <= n => KeptNodes(h, k, f[k])}
<1>3. 0 \in T
  <2>1. f[0] = <<>>
    BY <1>2 DEF KeepsNodes
  <2>2. KeptNodes(h, 0, <<>>)
    BY DEF KeptNodes
  <2> QED BY <2>1, <2>2
<1>4. ASSUME NEW k \in T, k \in Nat PROVE k + 1 \in T
  <2> SUFFICES ASSUME k + 1 <= n PROVE KeptNodes(h, k + 1, f[k + 1])
    BY <1>4
  <2> DEFINE j == k + 1
             r == f[k]
             x == h.node[j]
  <2>1. k < n /\ j \in 1 .. n /\ j - 1 = k
    BY <1>1, <1>4
  <2>2. KeptNodes(h, k, r)
    BY <1>1, <1>4
  <2> HIDE DEF r
  <2>3. f[j] = IF x.next = NULL THEN r ELSE Append(r, x)
    <3> HIDE DEF j
    <3>1. f[j] = IF h.node[j].next = NULL THEN f[j - 1] ELSE Append(f[j - 1], h.node[j])
      BY <1>2, <2>1 DEF KeepsNodes
    <3> QED BY <2>1, <3>1 DEF r
  <2>4. x = h.node[k + 1]
    OBVIOUS
  <2> HIDE DEF x
  <2>5. KeptNodes(h, k + 1, IF x.next = NULL THEN r ELSE Append(r, x))
    BY <1>1, <1>4, <2>1, <2>2, <2>4, KeptOneMore DEF n
  <2> QED BY <2>3, <2>5
<1>5. n \in T
  <2> HIDE DEF T
  <2> QED BY <1>1, <1>3, <1>4, Induct
<1>6. KeptNodes(h, n, f[n])
  BY <1>1, <1>5
<1> DEFINE r == f[n]
<1>7. /\ r \in Seq(Node) /\ Len(r) <= n
      /\ \A j \in 1 .. Len(r) : \E i \in 1 .. n : r[j] = h.node[i]
      /\ \A j, l \in 1 .. Len(r) : j < l => r[j].object < r[l].object
      /\ \A i \in 1 .. n : h.node[i].next = NULL \/ \E j \in 1 .. Len(r) : r[j] = h.node[i]
  BY <1>6 DEF KeptNodes
<1>8. g = [h EXCEPT !.node = r]
  BY <1>2
<1> HIDE DEF r
<1>9. /\ g \in Heap /\ g.node = r /\ g.capacity = h.capacity /\ g.cell = h.cell
      /\ g.allocated = h.allocated /\ g.freed = h.freed /\ g.n_freed = h.n_freed /\ g.n_used = h.n_used
  BY <1>1, <1>7, <1>8 DEF Heap
<1>10. InOrder(g)
  BY <1>7, <1>9 DEF InOrder
<1>11. ASSUME NEW o \in Object, HasNode(h, o) PROVE HasNode(g, o) \/ own[o].n = 0
  <2>1. PICK i \in 1 .. n : h.node[i].object = o
    BY <1>11 DEF HasNode, n
  <2>2. CASE h.node[i].next = NULL
    <3>1. IsPath(h.cell, h.node[i].next, own[o])
      BY <1>1, <2>1 DEF Linked, n
    <3>2. own[o].n \in Nat /\ \A k \in 1 .. own[o].n : own[o].at[k] \in Cell
      BY OwnedFacts DEF Owner
    <3>3. own[o].n # 0 => 1 \in 1 .. own[o].n
      BY <3>2
    <3> QED BY <2>2, <3>1, <3>2, <3>3, Sizes DEF IsPath
  <2>3. CASE h.node[i].next # NULL
    <3>1. PICK j \in 1 .. Len(r) : r[j] = h.node[i]
      BY <1>7, <2>3
    <3> QED BY <1>9, <2>1, <3>1 DEF HasNode
  <2> QED BY <2>2, <2>3
<1>12. g.capacity >= Len(g.node)
  <2>1. h.capacity \in Nat /\ h.capacity >= n /\ Len(r) \in Nat /\ Len(r) <= n
    BY <1>1, <1>7 DEF Counted, n, Heap
  <2> QED BY <1>1, <1>9, <2>1
<1>13. NodesChange(h, own, g)
  BY <1>7, <1>9, <1>10, <1>11, <1>12 DEF NodesChange, n
<1>14. SameLists(h, own, g)
  BY <1>13, NodesChanged
<1> QED BY <1>14 DEF g

-----------------------------------------------------------------------------
(* All lists are emptied, one node after the other.                        *)
ClearsNodes(h, n, f) ==
    f[0] = h /\ \A k \in 1 .. n : f[k] = Swept(f[k - 1], k, Object)

(* All nodes are emptied, one after the other.                             *)
LEMMA ClearsNodesExists ==
    ASSUME NEW h, Len(h.node) \in Nat
    PROVE  \E f : ClearsNodes(h, Len(h.node), f) /\ Cleared(h) = f[Len(h.node)]
<1> DEFINE n == Len(h.node)
           Clears(m, f) == f = [k \in 0 .. m |-> IF k = 0 THEN h ELSE Swept(f[k - 1], k, Object)]
           T == {m \in Nat : \E f : Clears(m, f)}
<1>1. 0 \in T
  <2>1. Clears(0, [k \in 0 .. 0 |-> h])
    OBVIOUS
  <2> QED BY <2>1
<1>2. ASSUME NEW m \in T, m \in Nat PROVE m + 1 \in T
  <2>1. PICK f : Clears(m, f)
    BY <1>2
  <2> DEFINE g == [k \in 0 .. m + 1 |-> IF k = m + 1 THEN Swept(f[m], k, Object) ELSE f[k]]
  <2>2. \A k \in 0 .. m : f[k] = IF k = 0 THEN h ELSE Swept(f[k - 1], k, Object)
    BY <2>1
  <2>3. \A k \in 0 .. m : g[k] = f[k]
    BY <1>2
  <2>4. g[m + 1] = Swept(f[m], m + 1, Object)
    BY <1>2
  <2>5. g = [k \in 0 .. m + 1 |-> g[k]]
    OBVIOUS
  <2> HIDE DEF g
  <2>6. ASSUME NEW k \in 0 .. m + 1
        PROVE  g[k] = IF k = 0 THEN h ELSE Swept(g[k - 1], k, Object)
    <3>1. CASE k = m + 1
      <4>1. k # 0 /\ k - 1 = m /\ m \in 0 .. m
        BY <1>2, <3>1
      <4>2. g[k - 1] = f[m]
        BY <2>3, <4>1
      <4> QED BY <2>4, <3>1, <4>1, <4>2
    <3>2. CASE k # m + 1
      <4>1. k \in 0 .. m /\ (k # 0 => k - 1 \in 0 .. m)
        BY <1>2, <3>2
      <4> QED BY <2>2, <2>3, <4>1
    <3> QED BY <3>1, <3>2
  <2>7. Clears(m + 1, g)
    BY <2>5, <2>6
  <2> QED BY <1>2, <2>7
<1>3. n \in T
  <2> HIDE DEF T, n
  <2>1. n \in Nat
    BY DEF n
  <2> QED BY <1>1, <1>2, <2>1, Induct
<1> DEFINE cleared == CHOOSE f : Clears(n, f)
<1>4. Clears(n, cleared)
  BY <1>3
<1>5. Cleared(h) = cleared[n]
  BY DEF Cleared
<1> HIDE DEF cleared
<1>6. ClearsNodes(h, n, cleared)
  <2>1. 0 \in 0 .. n /\ \A k \in 1 .. n : k \in 0 .. n /\ k # 0
    OBVIOUS
  <2>2. \A k \in 0 .. n : cleared[k] = IF k = 0 THEN h ELSE Swept(cleared[k - 1], k, Object)
    BY <1>4
  <2> QED BY <2>1, <2>2 DEF ClearsNodes
<1> QED BY <1>5, <1>6

ClearedTo(h, k, g, gown) ==
    /\ IsSound(g, gown) /\ SameNodes(h, g)
    /\ \A i \in 1 .. k : Names(g, gown[h.node[i].object]) = <<>>

LEMMA ClearedOneMore ==
    ASSUME NEW h \in Heap, NEW k \in Nat, k < Len(h.node), NEW g, NEW gown, ClearedTo(h, k, g, gown),
           NEW j, j = k + 1
    PROVE  \E eown : ClearedTo(h, j, Swept(g, j, Object), eown)
<1> DEFINE a == h.node[j].object
           e == Swept(g, j, Object)
<1>1. /\ IsSound(g, gown) /\ SameNodes(h, g)
      /\ \A i \in 1 .. k : Names(g, gown[h.node[i].object]) = <<>>
  BY DEF ClearedTo
<1>2. Len(h.node) \in Nat /\ j \in 1 .. Len(h.node)
  BY HeapFacts
<1>3. j \in 1 .. Len(g.node) /\ a = g.node[j].object /\ a \in Object
  BY <1>1, <1>2, NodeFacts DEF SameNodes
<1> HIDE DEF a, e
<1>4. PICK eown : ErasedOneWay(g, gown, a, Object, e, eown)
  BY <1>1, <1>3, SweptOneWay DEF e
<1>5. /\ IsSound(e, eown) /\ SameNodes(g, e)
      /\ Names(e, eown[a]) = Graph!Without(Names(g, gown[a]), Object)
      /\ \A o \in Object : o # a => Names(e, eown[o]) = Names(g, gown[o])
  BY <1>4 DEF ErasedOneWay, OthersKept
<1>6. Names(e, eown[a]) = <<>>
  <2> DEFINE list == Names(g, gown[a])
  <2>1. list \in Seq(Object)
    BY <1>1, <1>3, NamesFacts
  <2> HIDE DEF list
  <2>2. Graph!Without(list, Object) = <<>>
    BY <2>1, AllWithout
  <2> QED BY <1>5, <2>2 DEF list
<1>7. SameNodes(h, e)
  BY <1>1, <1>5 DEF SameNodes
<1>8. ASSUME NEW i \in 1 .. j PROVE Names(e, eown[h.node[i].object]) = <<>>
  <2>1. CASE h.node[i].object = a
    BY <1>6, <2>1
  <2>2. CASE h.node[i].object # a
    <3>1. i # j
      BY <2>2 DEF a
    <3>2. i \in 1 .. k /\ i \in 1 .. Len(h.node)
      BY <1>2, <3>1
    <3>3. h.node[i].object \in Object
      BY <3>2, NodeFacts
    <3> QED BY <1>1, <1>5, <2>2, <3>2, <3>3
  <2> QED BY <2>1, <2>2
<1>9. ClearedTo(h, j, e, eown)
  BY <1>5, <1>7, <1>8 DEF ClearedTo
<1> QED BY <1>9 DEF e

IsCleared(g, gown) == IsSound(g, gown) /\ \A o \in Object : Names(g, gown[o]) = <<>>

(* No list is left.                                                        *)
LEMMA ClearedIs ==
    ASSUME NEW h, NEW own, IsSound(h, own)
    PROVE  \E gown : IsCleared(Cleared(h), gown)
<1> DEFINE n == Len(h.node)
           g == Cleared(h)
<1>1. h \in Heap /\ n \in Nat
  BY HeapFacts DEF IsSound
<1>2. PICK f : ClearsNodes(h, n, f) /\ g = f[n]
  BY <1>1, ClearsNodesExists
<1> HIDE DEF g, n
<1> DEFINE T == {k \in Nat : k <= n => \E gown : ClearedTo(h, k, f[k], gown)}
<1>3. 0 \in T
  <2>1. f[0] = h
    BY <1>2 DEF ClearsNodes
  <2>2. ClearedTo(h, 0, h, own)
    BY SameNodesSelf DEF ClearedTo
  <2> QED BY <2>1, <2>2
<1>4. ASSUME NEW k \in T, k \in Nat PROVE k + 1 \in T
  <2> DEFINE j == k + 1
             e == f[k]
  <2> SUFFICES ASSUME k + 1 <= n PROVE \E gown : ClearedTo(h, j, f[j], gown)
    BY <1>4
  <2>1. k < n /\ j \in 1 .. n /\ j - 1 = k /\ j = k + 1
    BY <1>1, <1>4
  <2>2. PICK gown : ClearedTo(h, k, e, gown)
    BY <1>1, <1>4
  <2> HIDE DEF j, e
  <2>3. f[j] = Swept(e, j, Object)
    <3>1. f[j] = Swept(f[j - 1], j, Object)
      BY <1>2, <2>1 DEF ClearsNodes
    <3> QED BY <2>1, <3>1 DEF e
  <2>4. \E eown : ClearedTo(h, j, Swept(e, j, Object), eown)
    BY <1>1, <1>4, <2>1, <2>2, ClearedOneMore DEF n
  <2> QED BY <2>3, <2>4
<1>5. n \in T
  <2> HIDE DEF T
  <2> QED BY <1>1, <1>3, <1>4, Induct
<1>6. PICK gown : ClearedTo(h, n, f[n], gown)
  BY <1>1, <1>5
<1>7. /\ IsSound(g, gown) /\ SameNodes(h, g)
      /\ \A i \in 1 .. n : Names(g, gown[h.node[i].object]) = <<>>
  BY <1>2, <1>6 DEF ClearedTo
<1>8. ASSUME NEW o \in Object PROVE Names(g, gown[o]) = <<>>
  <2>1. CASE HasNode(g, o)
    <3>1. PICK i \in 1 .. Len(g.node) : g.node[i].object = o
      BY <2>1 DEF HasNode
    <3>2. i \in 1 .. n /\ h.node[i].object = o
      BY <1>7, <3>1 DEF SameNodes, n
    <3> QED BY <1>7, <3>2
  <2>2. CASE ~HasNode(g, o)
    <3>1. gown[o].n = 0
      BY <1>7, <2>2 DEF IsSound, Linked
    <3> QED BY <3>1 DEF Names
  <2> QED BY <2>1, <2>2
<1>9. IsCleared(g, gown)
  BY <1>7, <1>8 DEF IsCleared
<1> QED BY <1>9 DEF g

-----------------------------------------------------------------------------
(* The list of one object goes behind that of another, which takes over    *)
(* both.                                                                   *)
Joined(s, t) ==
    [n |-> s.n + t.n, at |-> [l \in 1 .. s.n + t.n |-> IF l <= s.n THEN s.at[l] ELSE t.at[l - s.n]]]

OwnedJoined(own, old, new) ==
    [o \in Owner |-> IF o = new THEN Joined(own[old], own[new])
                     ELSE IF o = old THEN [n |-> 0, at |-> <<>>]
                     ELSE own[o]]

(* sq_relation_replace(): the cells of one list go behind those of         *)
(* another.                                                                *)
LEMMA JoinedIs ==
    ASSUME NEW s, NEW t
    PROVE  /\ Joined(s, t).n = s.n + t.n
           /\ \A l \in 1 .. s.n + t.n :
                 Joined(s, t).at[l] = IF l <= s.n THEN s.at[l] ELSE t.at[l - s.n]
  BY DEF Joined

(* The object old at i, new at j, and the cells of their lists.            *)
Two(h, own, i, j, old, new) ==
    /\ IsSound(h, own) /\ i \in 1 .. Len(h.node) /\ j \in 1 .. Len(h.node)
    /\ h.node[i].object = old /\ h.node[j].object = new /\ old # new
    /\ own[old].n # 0

IsJoined(h, i, j, last, t) ==
    /\ t \in Heap /\ SameNodes(h, t) /\ t.capacity = h.capacity
    /\ t.allocated = h.allocated /\ t.freed = h.freed
    /\ t.n_freed = h.n_freed /\ t.n_used = h.n_used
    /\ \A k \in 1 .. Len(h.node) :
          t.node[k].next = IF k = j THEN h.node[i].next ELSE IF k = i THEN NULL ELSE h.node[k].next
    /\ \A d \in Cell : t.cell[d].object = h.cell[d].object
    /\ \A d \in Cell : t.cell[d].next = IF d = last THEN h.node[j].next ELSE h.cell[d].next

TwoSay(h, own, i, j, old, new) ==
    /\ h \in Heap /\ i \in 1 .. Len(h.node) /\ j \in 1 .. Len(h.node) /\ i # j
    /\ old \in Object /\ old \in Owner /\ old # NULL
    /\ new \in Object /\ new \in Owner /\ new # NULL
    /\ own[old].n \in Nat /\ own[old].n # 0 /\ own[old].n \in 1 .. own[old].n
    /\ own[new].n \in Nat
    /\ \A k \in 1 .. own[old].n : own[old].at[k] \in Cell
    /\ \A k \in 1 .. own[new].n : own[new].at[k] \in Cell
    /\ IsPath(h.cell, h.node[i].next, own[old])
    /\ IsPath(h.cell, h.node[j].next, own[new])

LEMMA TwoFacts ==
    ASSUME NEW h, NEW own, NEW i, NEW j, NEW old, NEW new, Two(h, own, i, j, old, new)
    PROVE  TwoSay(h, own, i, j, old, new)
<1>1. /\ IsSound(h, own) /\ i \in 1 .. Len(h.node) /\ j \in 1 .. Len(h.node)
      /\ h.node[i].object = old /\ h.node[j].object = new /\ old # new /\ own[old].n # 0
  BY DEF Two
<1>2. h \in Heap /\ Linked(h, own)
  BY <1>1 DEF IsSound
<1>3. /\ old \in Object /\ old \in Owner /\ old # NULL
      /\ new \in Object /\ new \in Owner /\ new # NULL
  BY <1>1, <1>2, NodeFacts
<1>4. /\ own[old].n \in Nat /\ own[new].n \in Nat
      /\ \A k \in 1 .. own[old].n : own[old].at[k] \in Cell
      /\ \A k \in 1 .. own[new].n : own[new].at[k] \in Cell
  BY <1>1, <1>3, OwnedFacts
<1>5. own[old].n \in 1 .. own[old].n
  BY <1>1, <1>4
<1>6. IsPath(h.cell, h.node[i].next, own[old]) /\ IsPath(h.cell, h.node[j].next, own[new])
  BY <1>1, <1>2 DEF Linked
<1> QED BY <1>1, <1>2, <1>3, <1>4, <1>5, <1>6 DEF TwoSay

TakenOverSays(h, i, j, new, t) ==
    /\ t \in Heap /\ t = [h EXCEPT !.node = t.node] /\ Len(t.node) = Len(h.node)
    /\ \A k \in 1 .. Len(h.node) :
          /\ t.node[k].object = IF k = j THEN new ELSE h.node[k].object
          /\ t.node[k].next = IF k = j THEN h.node[i].next ELSE IF k = i THEN NULL ELSE h.node[k].next

(* The node of the new object takes over the old node's list.              *)
LEMMA TakenOverIs ==
    ASSUME NEW h \in Heap, NEW i \in 1 .. Len(h.node), NEW j \in 1 .. Len(h.node), i # j,
           NEW new \in Object
    PROVE  TakenOverSays(h, i, j, new, TakenOver(h, i, j, new))
<1> DEFINE e == [object |-> new, next |-> h.node[i].next]
           r == [h.node EXCEPT ![j] = e]
           q == [r EXCEPT ![i].next = NULL]
           t == TakenOver(h, i, j, new)
<1>1. h.node \in Seq(Node) /\ h.node[i] \in Node /\ h.node[i].next \in Pointer
  BY NodeFacts DEF Heap
<1>2. e \in Node /\ e.object = new /\ e.next = h.node[i].next
  BY <1>1 DEF Node
<1> HIDE DEF e
<1>3. r \in Seq(Node) /\ Len(r) = Len(h.node) /\ r[j] = e /\ \A k \in 1 .. Len(h.node) : k # j => r[k] = h.node[k]
  BY <1>1, <1>2
<1>4. t = [h EXCEPT !.node = q]
  <2>1. t = [[h EXCEPT !.node = r] EXCEPT !.node[i].next = NULL]
    BY DEF TakenOver, e, Heap
  <2> HIDE DEF r
  <2> QED BY <2>1 DEF Heap
<1> HIDE DEF r
<1>5. r[i] \in Node
  BY <1>3
<1>6. [r[i] EXCEPT !.next = NULL] \in Node
  BY <1>5 DEF Node, Pointer
<1>7. q \in Seq(Node) /\ Len(q) = Len(h.node)
  BY <1>3, <1>6
<1>8. \A k \in 1 .. Len(h.node) :
         q[k].object = r[k].object /\ q[k].next = IF k = i THEN NULL ELSE r[k].next
  BY <1>3 DEF Node
<1> HIDE DEF q
<1>9. t \in Heap /\ t.node = q
  BY <1>4, <1>7 DEF Heap
<1> HIDE DEF t
<1>10. \A k \in 1 .. Len(h.node) :
          /\ q[k].object = IF k = j THEN new ELSE h.node[k].object
          /\ q[k].next = IF k = j THEN h.node[i].next ELSE IF k = i THEN NULL ELSE h.node[k].next
  BY <1>2, <1>3, <1>8
<1>11. TakenOverSays(h, i, j, new, t)
  BY <1>4, <1>7, <1>9, <1>10 DEF TakenOverSays
<1> QED BY <1>11 DEF t

LEMMA AppendedIs ==
    ASSUME NEW h, NEW own, NEW i, NEW j, NEW old, NEW new, Two(h, own, i, j, old, new),
           NEW last, last = own[old].at[own[old].n]
    PROVE  LET g == Appended(h, i, j)
           IN  /\ g \in Heap /\ g = [h EXCEPT !.cell = g.cell]
               /\ \A d \in Cell :
                     /\ g.cell[d].object = h.cell[d].object
                     /\ g.cell[d].next = IF d = last THEN h.node[j].next ELSE h.cell[d].next
<1> DEFINE g == Appended(h, i, j)
           s == own[old]
           q == h.node[j].next
<1>0. TwoSay(h, own, i, j, old, new)
  BY TwoFacts
<1>1. /\ h \in Heap /\ i \in 1 .. Len(h.node) /\ j \in 1 .. Len(h.node)
      /\ s.n \in Nat /\ s.n # 0 /\ s.n \in 1 .. s.n /\ last \in Cell /\ q \in Pointer
      /\ IsPath(h.cell, h.node[i].next, s)
  BY <1>0, NodeFacts DEF TwoSay
<1>2. h.cell[last].next = NULL
  BY <1>1 DEF IsPath
<1>3. CASE q = NULL
  <2>1. g = h
    BY <1>3 DEF Appended
  <2>2. h = [h EXCEPT !.cell = h.cell]
    BY <1>1 DEF Heap
  <2> HIDE DEF g, q
  <2> QED BY <1>1, <1>2, <1>3, <2>1, <2>2 DEF g, q
<1>4. CASE q # NULL
  <2>1. List(h, i) = Places(s) /\ h.node[i].object = old
    BY ListIs DEF Two
  <2>2. Len(Places(s)) = s.n /\ Places(s)[s.n] = last /\ Places(s) # <<>>
    BY <1>1 DEF Places
  <2>3. g = SetNext(h, last, q)
    BY <1>4, <2>1, <2>2 DEF Appended
  <2> HIDE DEF g, q
  <2>4. /\ g \in Heap /\ g = [h EXCEPT !.cell = g.cell]
        /\ \A d \in Cell :
              /\ g.cell[d].object = h.cell[d].object
              /\ g.cell[d].next = IF d = last THEN q ELSE h.cell[d].next
    BY <1>1, <2>3, SetNextIs
  <2> QED BY <2>4 DEF g, q
<1> QED BY <1>3, <1>4

(* What the joined list owns.                                              *)
LEMMA JoinedTo ==
    ASSUME NEW h, NEW own, NEW i, NEW j, NEW old, NEW new, Two(h, own, i, j, old, new),
           NEW last, last = own[old].at[own[old].n]
    PROVE  IsJoined(h, i, j, last, TakenOver(Appended(h, i, j), i, j, new))
<1> DEFINE g == Appended(h, i, j)
           t == TakenOver(g, i, j, new)
<1>0. TwoSay(h, own, i, j, old, new)
  BY TwoFacts
<1>1. /\ h \in Heap /\ i \in 1 .. Len(h.node) /\ j \in 1 .. Len(h.node) /\ i # j
      /\ new \in Object /\ h.node[j].object = new
  BY <1>0 DEF TwoSay, Two
<1>2. /\ g \in Heap /\ g = [h EXCEPT !.cell = g.cell]
      /\ \A d \in Cell :
            /\ g.cell[d].object = h.cell[d].object
            /\ g.cell[d].next = IF d = last THEN h.node[j].next ELSE h.cell[d].next
  BY AppendedIs
<1> HIDE DEF g
<1>3. /\ g.node = h.node /\ g.capacity = h.capacity /\ g.allocated = h.allocated
      /\ g.freed = h.freed /\ g.n_freed = h.n_freed /\ g.n_used = h.n_used
  BY <1>1, <1>2 DEF Heap
<1>4. TakenOverSays(g, i, j, new, t)
  BY <1>1, <1>2, <1>3, TakenOverIs
<1> HIDE DEF t
<1>5. /\ t \in Heap /\ t = [g EXCEPT !.node = t.node] /\ Len(t.node) = Len(h.node)
      /\ \A k \in 1 .. Len(h.node) :
            /\ t.node[k].object = IF k = j THEN new ELSE h.node[k].object
            /\ t.node[k].next = IF k = j THEN h.node[i].next ELSE IF k = i THEN NULL ELSE h.node[k].next
  BY <1>3, <1>4 DEF TakenOverSays
<1>6. /\ t.capacity = g.capacity /\ t.allocated = g.allocated /\ t.cell = g.cell
      /\ t.freed = g.freed /\ t.n_freed = g.n_freed /\ t.n_used = g.n_used
  BY <1>2, <1>5 DEF Heap
<1>7. SameNodes(h, t)
  BY <1>1, <1>5 DEF SameNodes
<1>8. IsJoined(h, i, j, last, t)
  BY <1>2, <1>3, <1>5, <1>6, <1>7 DEF IsJoined
<1> QED BY <1>8 DEF t, g

LEMMA JoinedOwned ==
    ASSUME NEW h, NEW own, IsSound(h, own), NEW old \in Object, NEW new \in Object, old # new
    PROVE  OwnedOnce(h, OwnedJoined(own, old, new))
<1> DEFINE own2 == OwnedJoined(own, old, new)
           N == h.allocated
           s == own[old]
           t == own[new]
           from(o, l) == IF o = new /\ l <= s.n THEN old ELSE o
           at(o, l) == IF o = new /\ ~(l <= s.n) THEN l - s.n ELSE l
<1>1. OwnedOnce(h, own) /\ old \in Owner /\ new \in Owner
  BY DEF IsSound, Owner
<1>2. \A o \in Owner : own[o].n \in Nat /\ \A l \in 1 .. own[o].n : own[o].at[l] \in 1 .. N
  BY <1>1 DEF OwnedOnce
<1>3. /\ own2[new] = Joined(s, t) /\ own2[old] = [n |-> 0, at |-> <<>>]
      /\ \A o \in Owner : o # old /\ o # new => own2[o] = own[o]
  BY <1>1 DEF OwnedJoined
<1>4. /\ own2[new].n = s.n + t.n /\ own2[old].n = 0
      /\ \A l \in 1 .. s.n + t.n : own2[new].at[l] = IF l <= s.n THEN s.at[l] ELSE t.at[l - s.n]
  BY <1>3, JoinedIs
<1> HIDE DEF own2
<1>5. s.n \in Nat /\ t.n \in Nat
  BY <1>1, <1>2
<1>6. ASSUME NEW o \in Owner, NEW l \in 1 .. own2[o].n
      PROVE  /\ from(o, l) \in Owner /\ at(o, l) \in 1 .. own[from(o, l)].n /\ l \in Nat
             /\ own2[o].at[l] = own[from(o, l)].at[at(o, l)] /\ o # old
  <2>1. CASE o = new
    <3>1. l \in 1 .. s.n + t.n /\ l \in Nat
      BY <1>4, <1>5, <2>1
    <3>2. own2[o].at[l] = IF l <= s.n THEN s.at[l] ELSE t.at[l - s.n]
      BY <1>4, <2>1, <3>1
    <3>3. (l <= s.n => l \in 1 .. s.n) /\ (~(l <= s.n) => l - s.n \in 1 .. t.n)
      BY <1>5, <3>1
    <3> QED BY <1>1, <2>1, <3>1, <3>2, <3>3
  <2>2. CASE o = old
    BY <1>4, <2>2
  <2>3. CASE o # old /\ o # new
    <3>1. own2[o] = own[o] /\ own[o].n \in Nat
      BY <1>2, <1>3, <2>3
    <3> QED BY <2>3, <3>1
  <2> QED BY <2>1, <2>2, <2>3
<1>7. ASSUME NEW o \in Owner
      PROVE  own2[o].n \in Nat /\ \A l \in 1 .. own2[o].n : own2[o].at[l] \in 1 .. N
  <2>1. own2[o].n \in Nat
    <3>1. CASE o = new
      BY <1>4, <1>5, <3>1
    <3>2. CASE o = old
      BY <1>4, <3>2
    <3>3. CASE o # old /\ o # new
      BY <1>2, <1>3, <3>3
    <3> QED BY <3>1, <3>2, <3>3
  <2> HIDE DEF from, at
  <2> QED BY <1>2, <1>6, <2>1
<1>8. ASSUME NEW o \in Owner, NEW p \in Owner, NEW l \in 1 .. own2[o].n, NEW m \in 1 .. own2[p].n,
             own2[o].at[l] = own2[p].at[m]
      PROVE  o = p /\ l = m
  <2>1. from(o, l) = from(p, m) /\ at(o, l) = at(p, m)
    <3> HIDE DEF from, at
    <3>1. own[from(o, l)].at[at(o, l)] = own[from(p, m)].at[at(p, m)]
      BY <1>6, <1>8
    <3>2. /\ from(o, l) \in Owner /\ at(o, l) \in 1 .. own[from(o, l)].n
          /\ from(p, m) \in Owner /\ at(p, m) \in 1 .. own[from(p, m)].n
      BY <1>6
    <3> QED BY <1>1, <3>1, <3>2 DEF OwnedOnce
  <2>2. l \in Nat /\ m \in Nat /\ o # old /\ p # old
    <3> HIDE DEF from, at
    <3> QED BY <1>6
  <2> HIDE DEF s, t
  <2> QED BY <1>5, <2>1, <2>2
<1>9. ASSUME NEW c \in 1 .. N PROVE \E o \in Owner : \E l \in 1 .. own2[o].n : own2[o].at[l] = c
  <2>0. PICK o \in Owner : \E m \in 1 .. own[o].n : own[o].at[m] = c
    BY <1>1 DEF OwnedOnce
  <2>1. PICK m \in 1 .. own[o].n : own[o].at[m] = c
    BY <2>0
  <2>2. CASE o = old
    <3>1. m \in 1 .. s.n + t.n /\ m <= s.n
      BY <1>5, <2>1, <2>2
    <3>2. own2[new].at[m] = c
      BY <1>4, <2>1, <2>2, <3>1
    <3> QED BY <1>1, <1>4, <3>1, <3>2
  <2>3. CASE o = new
    <3> DEFINE x == s.n + m
    <3>1. x \in 1 .. s.n + t.n /\ ~(x <= s.n) /\ x - s.n = m
      BY <1>5, <2>1, <2>3
    <3> HIDE DEF x
    <3>2. own2[new].at[x] = c
      BY <1>4, <2>1, <2>3, <3>1
    <3> QED BY <1>1, <1>4, <3>1, <3>2
  <2>4. CASE o # old /\ o # new
    BY <1>3, <2>1, <2>4
  <2> QED BY <2>2, <2>3, <2>4
<1> QED BY <1>7, <1>8, <1>9 DEF OwnedOnce, own2

(* The pointers lead along it.                                             *)
LEMMA JoinedPaths ==
    ASSUME NEW h, NEW own, NEW i, NEW j, NEW old, NEW new, Two(h, own, i, j, old, new),
           NEW last, last = own[old].at[own[old].n], NEW g, IsJoined(h, i, j, last, g)
    PROVE  Linked(g, OwnedJoined(own, old, new))
<1> DEFINE own2 == OwnedJoined(own, old, new)
           s == own[old]
           t == own[new]
<1>0. TwoSay(h, own, i, j, old, new)
  BY TwoFacts
<1>1. /\ IsSound(h, own) /\ h \in Heap /\ InOrder(h) /\ Linked(h, own)
      /\ h.node[i].object = old /\ h.node[j].object = new /\ old # new
  BY DEF Two, IsSound
<1>2. /\ i \in 1 .. Len(h.node) /\ j \in 1 .. Len(h.node) /\ i # j
      /\ old \in Object /\ old \in Owner /\ old # NULL
      /\ new \in Object /\ new \in Owner /\ new # NULL
      /\ s.n \in Nat /\ s.n # 0 /\ s.n \in 1 .. s.n /\ t.n \in Nat
      /\ \A k \in 1 .. s.n : s.at[k] \in Cell
      /\ \A k \in 1 .. t.n : t.at[k] \in Cell
      /\ h.node[i].next = IF s.n = 0 THEN NULL ELSE s.at[1]
      /\ h.node[j].next = IF t.n = 0 THEN NULL ELSE t.at[1]
      /\ \A k \in 1 .. s.n : h.cell[s.at[k]].next = IF k = s.n THEN NULL ELSE s.at[k + 1]
      /\ \A k \in 1 .. t.n : h.cell[t.at[k]].next = IF k = t.n THEN NULL ELSE t.at[k + 1]
  BY <1>0 DEF TwoSay, IsPath
<1>3. /\ g \in Heap /\ SameNodes(h, g) /\ g.freed = h.freed
      /\ \A k \in 1 .. Len(h.node) :
            g.node[k].next = IF k = j THEN h.node[i].next ELSE IF k = i THEN NULL ELSE h.node[k].next
      /\ \A d \in Cell : g.cell[d].object = h.cell[d].object
      /\ \A d \in Cell : g.cell[d].next = IF d = last THEN h.node[j].next ELSE h.cell[d].next
  BY DEF IsJoined
<1>4. \A o : HasNode(g, o) <=> HasNode(h, o)
  BY <1>1, <1>3, SameNodesFacts
<1>5. \A o, p \in Owner : \A l \in 1 .. own[o].n, m \in 1 .. own[p].n :
         own[o].at[l] = own[p].at[m] => o = p /\ l = m
  BY <1>1 DEF IsSound, OwnedOnce
<1>6. /\ own2[new] = Joined(s, t) /\ own2[old].n = 0
      /\ \A o \in Owner : o # old /\ o # new => own2[o] = own[o]
  BY <1>1, <1>2 DEF OwnedJoined
<1>7. /\ own2[new].n = s.n + t.n
      /\ \A l \in 1 .. s.n + t.n : own2[new].at[l] = IF l <= s.n THEN s.at[l] ELSE t.at[l - s.n]
  BY <1>6, JoinedIs
<1> HIDE DEF own2
<1>8. last = s.at[s.n] /\ last \in Cell
  BY <1>2
<1>9. /\ \A l \in 1 .. s.n : s.at[l] = last => l = s.n
      /\ \A l \in 1 .. t.n : t.at[l] # last
      /\ \A o \in Owner : o # old => \A l \in 1 .. own[o].n : own[o].at[l] # last
  BY <1>1, <1>2, <1>5, <1>8
(* The lists of others than old and new lead where they led.               *)
<1>10. ASSUME NEW o \in Owner, o # old, o # new, NEW first, IsPath(h.cell, first, own[o])
       PROVE  IsPath(g.cell, first, own2[o])
  <2> DEFINE u == own[o]
  <2>1. own2[o] = u /\ \A l \in 1 .. u.n : u.at[l] \in Cell /\ u.at[l] # last
    BY <1>1, <1>6, <1>9, <1>10, OwnedFacts
  <2>2. /\ first = IF u.n = 0 THEN NULL ELSE u.at[1]
        /\ \A k \in 1 .. u.n : h.cell[u.at[k]].next = IF k = u.n THEN NULL ELSE u.at[k + 1]
    BY <1>10 DEF IsPath
  <2> HIDE DEF u
  <2>3. \A k \in 1 .. u.n : g.cell[u.at[k]].next = IF k = u.n THEN NULL ELSE u.at[k + 1]
    BY <1>3, <2>1, <2>2
  <2> QED BY <2>1, <2>2, <2>3 DEF IsPath
<1>11. IsPath(g.cell, g.freed, own2[NULL])
  <2>1. NULL \in Owner /\ IsPath(h.cell, h.freed, own[NULL])
    BY <1>1 DEF Owner, Linked
  <2> QED BY <1>2, <1>3, <1>10, <2>1
<1>12. IsPath(g.cell, g.node[j].next, own2[new])
  <2> DEFINE u == own2[new]
  <2>1. u.n = s.n + t.n /\ \A l \in 1 .. u.n : u.at[l] = IF l <= s.n THEN s.at[l] ELSE t.at[l - s.n]
    BY <1>7
  <2> HIDE DEF u, s, t
  <2>2. g.node[j].next = s.at[1]
    BY <1>2, <1>3
  <2>3. 1 \in 1 .. u.n /\ u.n # 0 /\ u.at[1] = s.at[1]
    BY <1>2, <2>1
  <2>4. ASSUME NEW l \in 1 .. u.n PROVE g.cell[u.at[l]].next = IF l = u.n THEN NULL ELSE u.at[l + 1]
    <3>1. CASE l < s.n
      <4>1. l \in 1 .. s.n /\ l # s.n /\ l # u.n /\ l + 1 \in 1 .. u.n /\ l + 1 <= s.n /\ l <= s.n
        BY <1>2, <2>1, <3>1
      <4>2. u.at[l] = s.at[l] /\ u.at[l + 1] = s.at[l + 1]
        BY <2>1, <4>1
      <4>3. s.at[l] # last /\ s.at[l] \in Cell
        BY <1>2, <1>9, <4>1
      <4> QED BY <1>2, <1>3, <4>1, <4>2, <4>3
    <3>2. CASE l = s.n
      <4>1. u.at[l] = last
        BY <1>2, <1>8, <2>1, <3>2
      <4>2. g.cell[last].next = IF t.n = 0 THEN NULL ELSE t.at[1]
        BY <1>2, <1>3, <1>8
      <4>3. l = u.n <=> t.n = 0
        BY <1>2, <2>1, <3>2
      <4> DEFINE x == l + 1
      <4>4. l # u.n => x \in 1 .. u.n /\ ~(x <= s.n) /\ x - s.n = 1
        BY <1>2, <2>1, <3>2
      <4> HIDE DEF x
      <4>5. l # u.n => u.at[x] = t.at[1]
        BY <2>1, <4>4
      <4> QED BY <4>1, <4>2, <4>3, <4>5 DEF x
    <3>3. CASE l > s.n
      <4> DEFINE m == l - s.n
                 x == l + 1
      <4>1. m \in 1 .. t.n /\ ~(l <= s.n) /\ (l = u.n <=> m = t.n)
        BY <1>2, <2>1, <3>3
      <4>2. u.at[l] = t.at[m]
        BY <2>1, <4>1
      <4>3. l # u.n => x \in 1 .. u.n /\ ~(x <= s.n) /\ x - s.n = m + 1
        <5>1. l \in Nat /\ u.n \in Nat /\ s.n \in Nat /\ l <= u.n /\ l >= 1
          BY <1>2, <2>1
        <5> QED BY <3>3, <5>1
      <4> HIDE DEF m, x
      <4>4. l # u.n => u.at[x] = t.at[m + 1]
        BY <2>1, <4>3
      <4>5. t.at[m] # last /\ t.at[m] \in Cell
        BY <1>2, <1>9, <4>1
      <4>6. g.cell[t.at[m]].next = IF m = t.n THEN NULL ELSE t.at[m + 1]
        BY <1>2, <1>3, <4>1, <4>5
      <4> QED BY <4>1, <4>2, <4>4, <4>6 DEF x
    <3> QED BY <1>2, <2>1, <3>1, <3>2, <3>3
  <2> QED BY <2>2, <2>3, <2>4 DEF IsPath, u
<1>13. IsPath(g.cell, g.node[i].next, own2[old])
  BY <1>2, <1>3, <1>6 DEF IsPath
<1>14. ASSUME NEW k \in 1 .. Len(h.node), k # i, k # j
       PROVE  IsPath(g.cell, g.node[k].next, own2[h.node[k].object])
  <2> DEFINE o == h.node[k].object
  <2>1. o \in Owner /\ o # old /\ o # new
    BY <1>1, <1>2, <1>14, NodeFacts, OneNode
  <2>2. IsPath(h.cell, h.node[k].next, own[o]) /\ g.node[k].next = h.node[k].next
    BY <1>1, <1>3, <1>14 DEF Linked
  <2> HIDE DEF o
  <2>3. IsPath(g.cell, g.node[k].next, own2[o])
    BY <1>10, <2>1, <2>2
  <2> QED BY <2>3 DEF o
<1>15. ASSUME NEW k \in 1 .. Len(g.node) PROVE IsPath(g.cell, g.node[k].next, own2[g.node[k].object])
  BY <1>1, <1>3, <1>12, <1>13, <1>14 DEF SameNodes
<1>16. ASSUME NEW o \in Object, ~HasNode(g, o) PROVE own2[o].n = 0
  <2>1. ~HasNode(h, o) /\ o # old /\ o # new /\ o \in Owner
    BY <1>1, <1>2, <1>4, <1>16 DEF HasNode, Owner
  <2> QED BY <1>1, <1>6, <2>1 DEF Linked
<1>17. ASSUME NEW o \in Object, NEW l \in 1 .. own2[o].n PROVE g.cell[own2[o].at[l]].object \in Object
  <2>1. o \in Owner
    BY DEF Owner
  <2>2. \A p \in Object : \A k \in 1 .. own[p].n : g.cell[own[p].at[k]].object \in Object
    <3>1. ASSUME NEW p \in Object, NEW k \in 1 .. own[p].n PROVE g.cell[own[p].at[k]].object \in Object
      <4>1. own[p].at[k] \in Cell /\ h.cell[own[p].at[k]].object \in Object
        BY <1>1, OwnedFacts DEF Linked, Owner
      <4> QED BY <1>3, <4>1
    <3> QED BY <3>1
  <2>3. CASE o = old
    BY <1>6, <2>3
  <2>4. CASE o = new
    <3>1. l \in 1 .. s.n + t.n /\ own2[o].at[l] = IF l <= s.n THEN s.at[l] ELSE t.at[l - s.n]
      BY <1>7, <2>4
    <3>2. (l <= s.n => l \in 1 .. s.n) /\ (~(l <= s.n) => l - s.n \in 1 .. t.n)
      BY <1>2, <3>1
    <3>3. (\A k \in 1 .. s.n : g.cell[s.at[k]].object \in Object)
          /\ \A k \in 1 .. t.n : g.cell[t.at[k]].object \in Object
      BY <1>2, <2>2
    <3> HIDE DEF s, t
    <3> QED BY <3>1, <3>2, <3>3
  <2>5. CASE o # old /\ o # new
    BY <1>6, <2>1, <2>2, <2>5
  <2> QED BY <2>3, <2>4, <2>5
<1> QED BY <1>11, <1>15, <1>16, <1>17 DEF Linked, own2

IsTaken(h, own, old, new, t, town) ==
    /\ IsSound(t, town) /\ SameNodes(h, t)
    /\ Names(t, town[new]) = Names(h, own[old]) \o Names(h, own[new])
    /\ Names(t, town[old]) = <<>>
    /\ \A o \in Object : o # old /\ o # new => Names(t, town[o]) = Names(h, own[o])

(* What it names.                                                          *)
LEMMA JoinedNames ==
    ASSUME NEW h, NEW own, IsSound(h, own), NEW old \in Object, NEW new \in Object, old # new,
           NEW g, \A d \in Cell : g.cell[d].object = h.cell[d].object
    PROVE  LET own2 == OwnedJoined(own, old, new)
           IN  /\ Names(g, own2[new]) = Names(h, own[old]) \o Names(h, own[new])
               /\ Names(g, own2[old]) = <<>>
               /\ \A o \in Object : o # old /\ o # new => Names(g, own2[o]) = Names(h, own[o])
<1> DEFINE own2 == OwnedJoined(own, old, new)
           s == own[old]
           t == own[new]
           x == Names(h, s)
           y == Names(h, t)
           z == Names(g, own2[new])
<1>1. Object \subseteq Owner
  BY DEF Owner
<1>2. /\ own2[new] = Joined(s, t) /\ own2[old].n = 0
      /\ \A o \in Owner : o # old /\ o # new => own2[o] = own[o]
  BY <1>1 DEF OwnedJoined
<1>3. \A o \in Object : own[o].n \in Nat /\ \A k \in 1 .. own[o].n : own[o].at[k] \in Cell
  BY <1>1, OwnedFacts
<1>4. ASSUME NEW o \in Object, o # old, o # new PROVE Names(g, own2[o]) = Names(h, own[o])
  <2>1. own2[o] = own[o]
    BY <1>1, <1>2, <1>4
  <2>2. \A k \in 1 .. own[o].n : g.cell[own[o].at[k]].object = h.cell[own[o].at[k]].object
    BY <1>3
  <2>3. Names(g, own[o]) = Names(h, own[o])
    BY <2>2 DEF Names
  <2> QED BY <2>1, <2>3
<1>5. Names(g, own2[old]) = <<>>
  <2> HIDE DEF own2
  <2> QED BY <1>2 DEF Names
<1>6. /\ x \in Seq(Object) /\ Len(x) = s.n /\ \A k \in 1 .. s.n : x[k] = h.cell[s.at[k]].object
      /\ y \in Seq(Object) /\ Len(y) = t.n /\ \A k \in 1 .. t.n : y[k] = h.cell[t.at[k]].object
  <2>1. ASSUME NEW o \in Object
        PROVE  /\ Names(h, own[o]) \in Seq(Object) /\ Len(Names(h, own[o])) = own[o].n
               /\ \A k \in 1 .. own[o].n : Names(h, own[o])[k] = h.cell[own[o].at[k]].object
    BY NamesFacts
  <2> QED BY <2>1
<1>7. s.n \in Nat /\ t.n \in Nat
  BY <1>3
<1>8. /\ own2[new].n = s.n + t.n
      /\ \A l \in 1 .. s.n + t.n : own2[new].at[l] = IF l <= s.n THEN s.at[l] ELSE t.at[l - s.n]
  BY <1>2, JoinedIs
<1>9. /\ \A k \in 1 .. s.n : g.cell[s.at[k]].object = x[k]
      /\ \A k \in 1 .. t.n : g.cell[t.at[k]].object = y[k]
  <2>1. /\ \A k \in 1 .. s.n : s.at[k] \in Cell
        /\ \A k \in 1 .. t.n : t.at[k] \in Cell
    BY <1>3
  <2> HIDE DEF s, t, x, y
  <2> QED BY <1>6, <2>1
<1>10. z = [l \in 1 .. s.n + t.n |-> g.cell[own2[new].at[l]].object]
  <2> HIDE DEF own2
  <2> QED BY <1>8 DEF Names
<1> HIDE DEF own2, s, t, x, y, z
<1>11. \A l \in 1 .. s.n + t.n : z[l] = IF l <= s.n THEN x[l] ELSE y[l - s.n]
  <2>1. ASSUME NEW l \in 1 .. s.n + t.n PROVE z[l] = IF l <= s.n THEN x[l] ELSE y[l - s.n]
    <3>1. z[l] = g.cell[IF l <= s.n THEN s.at[l] ELSE t.at[l - s.n]].object
      BY <1>8, <1>10
    <3>2. (l <= s.n => l \in 1 .. s.n) /\ (~(l <= s.n) => l - s.n \in 1 .. t.n)
      BY <1>7
    <3> QED BY <1>9, <3>1, <3>2
  <2> QED BY <2>1
<1>12. z = x \o y
  <2>1. x \in Seq(Object) /\ y \in Seq(Object) /\ Len(x) = s.n /\ Len(y) = t.n
    BY <1>6
  <2>2. /\ x \o y \in Seq(Object) /\ Len(x \o y) = s.n + t.n
        /\ \A l \in 1 .. s.n + t.n : (x \o y)[l] = IF l <= s.n THEN x[l] ELSE y[l - s.n]
    BY <2>1
  <2>3. \A l \in 1 .. s.n + t.n : z[l] = (x \o y)[l]
    BY <1>11, <2>2
  <2> DEFINE w == x \o y
             n == s.n + t.n
  <2>4. n \in Nat /\ w \in Seq(Object) /\ Len(w) = n /\ \A l \in 1 .. n : z[l] = w[l]
    BY <1>7, <2>2, <2>3
  <2>5. z = [l \in 1 .. n |-> z[l]]
    BY <1>10
  <2> HIDE DEF w, n
  <2>6. w = [l \in 1 .. n |-> w[l]]
    BY <2>4
  <2>7. z = w
    BY <2>4, <2>5, <2>6
  <2> QED BY <2>7 DEF w
<1> QED BY <1>4, <1>5, <1>12 DEF own2, s, t, x, y, z

(* So the heap is sound.                                                   *)
LEMMA JoinedSound ==
    ASSUME NEW h, NEW own, NEW i, NEW j, NEW old, NEW new, Two(h, own, i, j, old, new)
    PROVE  IsTaken(h, own, old, new, TakenOver(Appended(h, i, j), i, j, new), OwnedJoined(own, old, new))
<1> DEFINE g == TakenOver(Appended(h, i, j), i, j, new)
           last == own[old].at[own[old].n]
           own2 == OwnedJoined(own, old, new)
<1>0. TwoSay(h, own, i, j, old, new) /\ IsJoined(h, i, j, last, g)
  BY TwoFacts, JoinedTo
<1> HIDE DEF g, last
<1>1. /\ IsSound(h, own) /\ h \in Heap /\ InOrder(h) /\ Counted(h, own) /\ old # new
      /\ old \in Object /\ new \in Object /\ old # NULL /\ new # NULL
  BY <1>0 DEF Two, TwoSay, IsSound
<1>2. Linked(g, own2)
  BY <1>0, JoinedPaths DEF last
<1>3. OwnedOnce(h, own2)
  BY <1>1, JoinedOwned
<1>4. own2[NULL] = own[NULL]
  BY <1>1 DEF OwnedJoined, Owner
<1> HIDE DEF own2
<1>5. /\ g \in Heap /\ SameNodes(h, g) /\ g.capacity = h.capacity
      /\ g.allocated = h.allocated /\ g.n_freed = h.n_freed /\ g.n_used = h.n_used
      /\ \A d \in Cell : g.cell[d].object = h.cell[d].object
  BY <1>0 DEF IsJoined
<1>6. OwnedOnce(g, own2)
  BY <1>3, <1>5 DEF OwnedOnce
<1>7. InOrder(g)
  BY <1>1, <1>5, SameNodesFacts
<1>8. Counted(g, own2)
  BY <1>1, <1>4, <1>5 DEF Counted, SameNodes
<1>9. IsSound(g, own2)
  BY <1>2, <1>5, <1>6, <1>7, <1>8 DEF IsSound
<1>10. /\ Names(g, own2[new]) = Names(h, own[old]) \o Names(h, own[new])
       /\ Names(g, own2[old]) = <<>>
       /\ \A o \in Object : o # old /\ o # new => Names(g, own2[o]) = Names(h, own[o])
  BY <1>1, <1>5, JoinedNames DEF own2
<1>11. IsTaken(h, own, old, new, g, own2)
  BY <1>5, <1>9, <1>10 DEF IsTaken
<1> QED BY <1>11 DEF g, own2

-----------------------------------------------------------------------------
(* The new object is named where the old one was.                          *)
IsRenamed(h, own, old, new, P, g) ==
    /\ IsSound(g, own)
    /\ \A o \in Object :
          Names(g, own[o]) = IF o \in P THEN Graph!Renamed(Names(h, own[o]), old, new)
                             ELSE Names(h, own[o])

CellsOf(h, o) == IF Find(h, o).found THEN Range(List(h, Find(h, o).index)) ELSE {}

(* The cells that RenamedIn() visits for an object are those of its list.  *)
LEMMA CellsAre ==
    ASSUME NEW h, NEW own, IsSound(h, own), AddressesAreNear, NEW o \in Object
    PROVE  CellsOf(h, o) = {own[o].at[k] : k \in 1 .. own[o].n}
<1>1. h \in Heap /\ InOrder(h) /\ Linked(h, own)
  BY DEF IsSound
<1>2. Range(Places(own[o])) = {own[o].at[k] : k \in 1 .. own[o].n}
  BY DEF Range, Places
<1>3. CASE FoundAt(h, o, Find(h, o))
  <2>1. Find(h, o).found /\ Find(h, o).index \in 1 .. Len(h.node) /\ h.node[Find(h, o).index].object = o
    BY <1>3 DEF FoundAt
  <2>2. List(h, Find(h, o).index) = Places(own[o])
    BY <2>1, ListIs
  <2> QED BY <1>2, <2>1, <2>2 DEF CellsOf
<1>4. CASE MissingAt(h, o, Find(h, o)) /\ ~HasNode(h, o)
  <2>1. ~Find(h, o).found /\ own[o].n = 0
    BY <1>1, <1>4 DEF MissingAt, Linked
  <2> QED BY <2>1 DEF CellsOf
<1> QED BY <1>1, <1>3, <1>4, FindIs

LEMMA RenamedInIs ==
    ASSUME NEW h, NEW own, IsSound(h, own), AddressesAreNear, NEW j \in 1 .. Len(h.node),
           NEW new, new = h.node[j].object, NEW old \in Object,
           NEW P, P = Range(Names(h, own[new]))
    PROVE  IsRenamed(h, own, old, new, P, RenamedIn(h, j, old, new))
<1> DEFINE g == RenamedIn(h, j, old, new)
           others == {h.cell[c].object : c \in Range(List(h, j))}
           renamed == {c \in UNION {CellsOf(h, o) : o \in others} : h.cell[c].object = old}
<1>1. h \in Heap /\ OwnedOnce(h, own) /\ Linked(h, own) /\ Counted(h, own) /\ InOrder(h) /\ new \in Object
  BY NodeFacts DEF IsSound
<1>2. Object \subseteq Owner
  BY DEF Owner
<1>3. \A o \in Object : own[o].n \in Nat /\ \A k \in 1 .. own[o].n : own[o].at[k] \in Cell
  BY <1>2, OwnedFacts
<1>4. others = P
  <2> DEFINE v == own[new]
  <2> HIDE DEF v
  <2>1. List(h, j) = Places(v)
    BY ListIs DEF v
  <2>2. Range(Places(v)) = {v.at[k] : k \in 1 .. v.n}
    BY DEF Range, Places
  <2>3. Range(Names(h, v)) = {h.cell[v.at[k]].object : k \in 1 .. v.n}
    BY DEF Range, Names
  <2>4. others = {h.cell[c].object : c \in {v.at[k] : k \in 1 .. v.n}}
    BY <2>1, <2>2
  <2>5. others = {h.cell[v.at[k]].object : k \in 1 .. v.n}
    BY <2>4
  <2>6. P = Range(Names(h, v))
    BY DEF v
  <2> QED BY <2>3, <2>5, <2>6
<1>5. P \subseteq Object
  BY <1>1, NamesFacts DEF Range
<1>6. g = [h EXCEPT !.cell = [c \in DOMAIN h.cell |->
              IF c \in renamed THEN [h.cell[c] EXCEPT !.object = new] ELSE h.cell[c]]]
  BY DEF RenamedIn, CellsOf
<1>7. \A o \in Object : CellsOf(h, o) = {own[o].at[k] : k \in 1 .. own[o].n}
  BY CellsAre
<1>8. \A c : c \in renamed <=>
         h.cell[c].object = old /\ \E o \in P : \E k \in 1 .. own[o].n : own[o].at[k] = c
  <2> DEFINE U == UNION {CellsOf(h, o) : o \in others}
  <2>1. \A c : c \in renamed <=> c \in U /\ h.cell[c].object = old
    <3> HIDE DEF others
    <3> QED OBVIOUS
  <2>2. \A c : c \in U <=> \E o \in P : c \in CellsOf(h, o)
    <3> HIDE DEF others
    <3> QED BY <1>4
  <2>3. \A o \in P : \A c : c \in CellsOf(h, o) <=> \E k \in 1 .. own[o].n : own[o].at[k] = c
    BY <1>5, <1>7
  <2> HIDE DEF U, renamed
  <2> QED BY <2>1, <2>2, <2>3
<1> HIDE DEF renamed, others
<1> DEFINE s == [c \in Cell |-> IF c \in renamed THEN [h.cell[c] EXCEPT !.object = new] ELSE h.cell[c]]
<1>9. h.cell \in [Cell -> [object : Owner, next : Pointer]]
  BY <1>1 DEF Heap
<1>10. /\ s \in [Cell -> [object : Owner, next : Pointer]]
       /\ \A c \in Cell : /\ s[c].object = IF c \in renamed THEN new ELSE h.cell[c].object
                          /\ s[c].next = h.cell[c].next
  <2>1. new \in Owner
    BY <1>1, <1>2
  <2> QED BY <1>9, <2>1
<1>11. g = [h EXCEPT !.cell = s]
  BY <1>6, <1>9
<1> HIDE DEF s
<1>12. /\ g \in Heap /\ g.cell = s /\ g.node = h.node /\ g.capacity = h.capacity
       /\ g.allocated = h.allocated /\ g.freed = h.freed /\ g.n_freed = h.n_freed /\ g.n_used = h.n_used
  BY <1>1, <1>10, <1>11 DEF Heap
<1> HIDE DEF g
<1>13. ASSUME NEW o \in Owner, NEW first, IsPath(h.cell, first, own[o]) PROVE IsPath(g.cell, first, own[o])
  <2>1. \A k \in 1 .. own[o].n : own[o].at[k] \in Cell
    BY OwnedFacts
  <2>2. \A k \in 1 .. own[o].n : g.cell[own[o].at[k]].next = h.cell[own[o].at[k]].next
    BY <1>10, <1>12, <2>1
  <2> QED BY <1>13, <2>2 DEF IsPath
<1>14. IsPath(g.cell, g.freed, own[NULL])
  BY <1>1, <1>12, <1>13 DEF Linked, Owner
<1>15. ASSUME NEW k \in 1 .. Len(g.node) PROVE IsPath(g.cell, g.node[k].next, own[g.node[k].object])
  <2>1. k \in 1 .. Len(h.node) /\ g.node[k] = h.node[k]
    BY <1>12
  <2>2. IsPath(h.cell, h.node[k].next, own[h.node[k].object]) /\ h.node[k].object \in Owner
    BY <1>1, <2>1, NodeFacts DEF Linked
  <2> QED BY <1>13, <2>1, <2>2
<1>16. \A o \in Object : ~HasNode(g, o) => own[o].n = 0
  BY <1>1, <1>12 DEF HasNode, Linked
<1>17. \A o \in Object : \A k \in 1 .. own[o].n :
          g.cell[own[o].at[k]].object = IF own[o].at[k] \in renamed THEN new ELSE h.cell[own[o].at[k]].object
  BY <1>3, <1>10, <1>12
<1>18. \A o \in Object : \A k \in 1 .. own[o].n : g.cell[own[o].at[k]].object \in Object
  BY <1>1, <1>17 DEF Linked
<1>19. Linked(g, own)
  BY <1>14, <1>15, <1>16, <1>18 DEF Linked
<1>20. OwnedOnce(g, own) /\ Counted(g, own) /\ InOrder(g)
  BY <1>1, <1>12 DEF OwnedOnce, Counted, InOrder
<1>21. IsSound(g, own)
  BY <1>12, <1>19, <1>20 DEF IsSound
<1>22. ASSUME NEW o \in Object
       PROVE  Names(g, own[o]) = IF o \in P THEN Graph!Renamed(Names(h, own[o]), old, new)
                                 ELSE Names(h, own[o])
  <2> DEFINE n == own[o].n
             x == Names(h, own[o])
  <2>1. ASSUME NEW k \in 1 .. n PROVE own[o].at[k] \in renamed <=> o \in P /\ h.cell[own[o].at[k]].object = old
    <3>1. \A p \in Object : \A l \in 1 .. own[p].n : own[p].at[l] = own[o].at[k] => p = o
      <4>1. \A p \in Object : \A l \in 1 .. own[p].n, m \in 1 .. own[o].n :
               own[p].at[l] = own[o].at[m] => p = o
        BY <1>1, <1>2 DEF OwnedOnce
      <4> QED BY <4>1
    <3> QED BY <1>5, <1>8, <3>1
  <2>2. Names(g, own[o]) = [k \in 1 .. n |-> g.cell[own[o].at[k]].object]
        /\ x = [k \in 1 .. n |-> h.cell[own[o].at[k]].object]
    BY DEF Names
  <2>3. CASE o \notin P
    <3>1. \A k \in 1 .. n : g.cell[own[o].at[k]].object = h.cell[own[o].at[k]].object
      BY <1>17, <2>1, <2>3
    <3> QED BY <2>2, <2>3, <3>1
  <2>4. CASE o \in P
    <3>1. \A k \in 1 .. n :
             g.cell[own[o].at[k]].object
             = IF h.cell[own[o].at[k]].object = old THEN new ELSE h.cell[own[o].at[k]].object
      BY <1>17, <2>1, <2>4
    <3>2. Graph!Renamed(x, old, new)
          = [k \in 1 .. n |-> IF h.cell[own[o].at[k]].object = old THEN new ELSE h.cell[own[o].at[k]].object]
      <4>1. DOMAIN x = 1 .. n /\ \A k \in 1 .. n : x[k] = h.cell[own[o].at[k]].object
        BY <2>2
      <4> HIDE DEF x, n
      <4> QED BY <4>1 DEF Graph!Renamed
    <3> QED BY <2>2, <2>4, <3>1, <3>2
  <2> QED BY <2>3, <2>4
<1>23. IsRenamed(h, own, old, new, P, g)
  BY <1>21, <1>22 DEF IsRenamed
<1> QED BY <1>23 DEF g

-----------------------------------------------------------------------------
(* The lists of a sound heap, and what the operations make of them.        *)
ListsSay(h, own, lists) ==
    /\ lists = Lists(h) /\ lists \in [Object -> Seq(Object)]
    /\ \A o \in Object :
          /\ lists[o] = Names(h, own[o]) /\ Related(h, o) = lists[o]
          /\ Len(lists[o]) \in Nat /\ Len(lists[o]) = own[o].n

(* The lists of RelationGraph, of a sound heap.                            *)
LEMMA ListsOf ==
    ASSUME NEW h, NEW own, IsSound(h, own), AddressesAreNear
    PROVE  ListsSay(h, own, Lists(h))
<1> DEFINE lists == Lists(h)
<1>1. lists = Named(h, own) /\ lists \in [Object -> Seq(Object)]
  BY ListsAre
<1>2. ASSUME NEW o \in Object
      PROVE  /\ lists[o] = Names(h, own[o]) /\ Related(h, o) = lists[o]
             /\ Len(lists[o]) \in Nat /\ Len(lists[o]) = own[o].n
  <2>1. Named(h, own)[o] = Names(h, own[o]) /\ Len(Names(h, own[o])) = own[o].n /\ own[o].n \in Nat
    BY NamesFacts, OwnedFacts DEF Owner
  <2>2. Related(h, o) = Names(h, own[o])
    BY RelatedIs
  <2> QED BY <1>1, <2>1, <2>2
<1> QED BY <1>1, <1>2 DEF ListsSay

(* Lists that agree on every object are the same.                          *)
LEMMA SameFunction ==
    ASSUME NEW f \in [Object -> Seq(Object)], NEW g, g = [o \in Object |-> g[o]],
           \A o \in Object : f[o] = g[o]
    PROVE  f = g
<1>1. f = [o \in Object |-> f[o]]
  OBVIOUS
<1> QED BY <1>1

-----------------------------------------------------------------------------
(* Every step is a step of RelationGraph.                                  *)
GP == INSTANCE RelationGraphProofs WITH
    NoObject <- NULL, MaxRelated <- MaxCells, related <- Lists(heap)

Sound(h) == \E own : IsSound(h, own)

SqInv == Sound(heap) /\ GP!IInv /\ adds \in 0 .. MaxAdds

(* Each action keeps the heap sound and is a step of RelationGraph, or     *)
(* none.                                                                   *)
LEMMA AddStep ==
    ASSUME SqInv, AddressesAreNear, NEW a \in Object, NEW b \in Plain, Add(a, b)
    PROVE  Sound(heap') /\ GP!Add(a, b)
<1> DEFINE lists == Lists(heap)
           lists2 == Lists(heap')
           f == WithNode(heap, a)
           m == Prepend(f.heap, f.index, b)
           t == WithNode(m, b)
           g == Prepend(t.heap, t.index, a)
<1>1. PICK own : IsSound(heap, own)
  BY DEF SqInv, Sound
<1>2. /\ a # b /\ b \in Object
      /\ b \notin Range(Related(heap, a))
      /\ a \in Plain => a \notin Range(Related(heap, b))
      /\ heap.n_used + 2 <= MaxCells
      /\ heap' = g /\ dead' = dead \ {a, b}
  BY DEF Add, Plain
<1> HIDE DEF g, t, m, f
<1>3. PICK gown : IsAdded(heap, own, a, b, g, gown)
  BY <1>1, <1>2, AddedIs DEF g, t, m, f
<1>4. ListsSay(heap, own, lists)
  BY <1>1, ListsOf
<1>5. IsSound(heap', gown)
  BY <1>2, <1>3 DEF IsAdded
<1>6. ListsSay(heap', gown, lists2)
  BY <1>5, ListsOf
<1> HIDE DEF lists, lists2
<1>7. /\ lists \in [Object -> Seq(Object)] /\ lists2 \in [Object -> Seq(Object)]
      /\ Related(heap, a) = lists[a] /\ Related(heap, b) = lists[b]
      /\ lists2[a] = <<b>> \o lists[a] /\ lists2[b] = <<a>> \o lists[b]
      /\ \A o \in Object : o # a /\ o # b => lists2[o] = lists[o]
  BY <1>2, <1>3, <1>4, <1>6 DEF ListsSay, IsAdded
<1>8. lists2 = [lists EXCEPT ![a] = <<b>> \o @, ![b] = <<a>> \o @]
  <2> DEFINE r == [lists EXCEPT ![a] = <<b>> \o @, ![b] = <<a>> \o @]
  <2>1. r = [o \in Object |-> r[o]]
    BY <1>7
  <2>2. \A o \in Object : lists2[o] = r[o]
    BY <1>2, <1>7
  <2> HIDE DEF r
  <2>3. lists2 = r
    BY <1>7, <2>1, <2>2, SameFunction
  <2> QED BY <2>3 DEF r
<1>9. Len(lists[a]) < MaxCells /\ Len(lists[b]) < MaxCells
  <2>1. own[a].n <= heap.n_used /\ own[b].n <= heap.n_used /\ own[a].n \in Nat /\ own[b].n \in Nat
    BY <1>1, <1>2, OwnedFacts, Sizes DEF Owner
  <2>2. Len(lists[a]) = own[a].n /\ Len(lists[b]) = own[b].n
    BY <1>2, <1>4 DEF ListsSay
  <2>3. heap.n_used \in Int /\ MaxCells \in Nat
    BY <1>1, Sizes DEF IsSound, Heap
  <2> QED BY <1>2, <2>1, <2>2, <2>3
<1>10. ~GP!Lists(a, b) /\ (a \in Plain => ~GP!Lists(b, a))
  BY <1>2, <1>7 DEF GP!Lists, lists, Range, GP!Range
<1>11. GP!Add(a, b)
  <2>1. Lists(heap') = [Lists(heap) EXCEPT ![a] = <<b>> \o @, ![b] = <<a>> \o @]
    BY <1>8 DEF lists, lists2
  <2>2. Len(Lists(heap)[a]) < MaxCells /\ Len(Lists(heap)[b]) < MaxCells
    BY <1>9 DEF lists
  <2>3. GP!Plain = Plain
    BY DEF GP!Plain, Plain
  <2> QED BY <1>2, <1>10, <2>1, <2>2, <2>3 DEF GP!Add
<1> QED BY <1>5, <1>11 DEF Sound

LEMMA SameWithout ==
    ASSUME NEW list, NEW gone
    PROVE  GP!Without(list, gone) = Graph!Without(list, gone)
  BY DEF GP!Without, Graph!Without

LEMMA SameRenamed ==
    ASSUME NEW list, NEW old, NEW new
    PROVE  GP!Renamed(list, old, new) = Graph!Renamed(list, old, new)
  BY DEF GP!Renamed, Graph!Renamed

LEMMA SameRange == ASSUME NEW s PROVE GP!Range(s) = Range(s)
  BY DEF GP!Range, Range

(* What the invariant of RelationGraph says of the lists.                  *)
ListsBehave(lists) ==
    /\ \A o \in Object : o \notin Range(lists[o])
    /\ \A h \in Hub, o \in Object : o \in Range(lists[h]) => o \in Plain
    /\ \A a \in Object, o \in Plain : o \in Range(lists[a]) => a \in Range(lists[o])

(* RelationGraph's invariant, of the lists of a heap.                      *)
LEMMA GraphSays ==
    ASSUME GP!IInv
    PROVE  ListsBehave(Lists(heap)) /\ dead \subseteq Plain
<1> DEFINE lists == Lists(heap)
<1>1. \A a, o : GP!Lists(a, o) <=> o \in Range(lists[a])
  BY SameRange DEF GP!Lists
<1>2. GP!Plain = Plain
  BY DEF GP!Plain, Plain
<1> HIDE DEF lists
<1>3. /\ \A o \in Object : ~GP!Lists(o, o)
      /\ \A h \in Hub, o \in Object : GP!Lists(h, o) => o \in Plain
      /\ \A a \in Object, o \in Plain : GP!Lists(a, o) => GP!Lists(o, a)
      /\ dead \subseteq Plain
  BY <1>2 DEF GP!IInv, GP!NoSelfRelation, GP!HubsListPlain, GP!Mutual, GP!GraphTypeOK
<1> QED BY <1>1, <1>3 DEF ListsBehave, lists

LEMMA EraseStep ==
    ASSUME SqInv, AddressesAreNear, NEW a \in Object, NEW b \in Object \cup {NULL}, Erase(a, b)
    PROVE  Sound(heap') /\ GP!Erase(a, b)
<1> DEFINE lists == Lists(heap)
           lists2 == Lists(heap')
           gone == IF b = NULL THEN Object ELSE {b}
           P == {o \in Range(lists[a]) : o = b \/ b = NULL}
           g == EraseBothWays(heap, a, gone)
<1>1. PICK own : IsSound(heap, own)
  BY DEF SqInv, Sound
<1>2. /\ \E o \in Range(Related(heap, a)) : o = b \/ b = NULL
      /\ heap' = g /\ UNCHANGED dead
  BY DEF Erase
<1>3. ListsSay(heap, own, lists)
  BY <1>1, ListsOf
<1>4. ListsBehave(lists)
  BY GraphSays DEF SqInv
<1> HIDE DEF g
<1>5. lists[a] = Names(heap, own[a]) /\ Related(heap, a) = lists[a] /\ lists \in [Object -> Seq(Object)]
  BY <1>3 DEF ListsSay
<1>6. a \notin Range(Names(heap, own[a]))
  BY <1>4, <1>5 DEF ListsBehave
<1>7. PICK gown : ErasedBothWays(heap, own, a, gone, g, gown)
  <2> HIDE DEF gone, lists
  <2> QED BY <1>1, <1>6, EraseBothWaysIs DEF g
<1>8. IsSound(heap', gown)
  BY <1>2, <1>7 DEF ErasedBothWays
<1>9. ListsSay(heap', gown, lists2)
  BY <1>8, ListsOf
<1> HIDE DEF lists, lists2
<1>10. Range(lists[a]) \subseteq Object
  BY <1>5 DEF Range
<1>11. Range(lists[a]) \cap gone = P
  BY <1>10
<1> HIDE DEF gone
<1>12. /\ lists2 \in [Object -> Seq(Object)]
       /\ lists2[a] = Graph!Without(lists[a], gone)
       /\ \A o \in Object : o # a =>
             lists2[o] = IF o \in P THEN Graph!Without(lists[o], {a}) ELSE lists[o]
  <2>1. /\ Names(g, gown[a]) = Graph!Without(Names(heap, own[a]), gone)
        /\ BothNamed(heap, own, g, gown, a, P)
    BY <1>5, <1>7, <1>11 DEF ErasedBothWays
  <2>2. \A o \in Object : lists2[o] = Names(g, gown[o]) /\ lists[o] = Names(heap, own[o])
    BY <1>2, <1>3, <1>9 DEF ListsSay
  <2>3. lists2 \in [Object -> Seq(Object)]
    BY <1>9 DEF ListsSay
  <2>4. \A o \in Object : o # a =>
           Names(g, gown[o]) = IF o \in P THEN Graph!Without(Names(heap, own[o]), {a})
                               ELSE Names(heap, own[o])
    BY <2>1 DEF BothNamed
  <2> HIDE DEF P
  <2> QED BY <2>1, <2>2, <2>3, <2>4
<1>13. Graph!Without(lists[a], gone) = Graph!Without(lists[a], P)
  <2> DEFINE s == lists[a]
  <2>1. Len(s) \in Nat /\ \A k \in 1 .. Len(s) : s[k] \in Range(s)
    BY <1>5 DEF Range
  <2>2. \A k \in 1 .. Len(s) : s[k] \in gone <=> s[k] \in P
    BY <1>11, <2>1
  <2> HIDE DEF s, P
  <2>3. Graph!Without(s, gone) = Graph!Without(s, P)
    BY <2>1, <2>2, WithoutSame
  <2> QED BY <2>3 DEF s
<1> DEFINE r == [o \in Object |->
                   IF o = a THEN GP!Without(lists[a], P)
                   ELSE IF o \in P THEN GP!Without(lists[o], {a})
                   ELSE lists[o]]
<1>14. lists2 = r
  <2>1. r = [o \in Object |-> r[o]]
    OBVIOUS
  <2>2. ASSUME NEW o \in Object PROVE lists2[o] = r[o]
    <3> HIDE DEF P
    <3>1. /\ GP!Without(lists[a], P) = Graph!Without(lists[a], P)
          /\ GP!Without(lists[o], {a}) = Graph!Without(lists[o], {a})
      BY SameWithout
    <3> QED BY <1>12, <1>13, <3>1
  <2> HIDE DEF r
  <2> QED BY <1>12, <2>1, <2>2, SameFunction
<1>15. GP!Erase(a, b)
  <2>1. P # {}
    BY <1>2, <1>5
  <2>2. {o \in GP!Range(lists[a]) : o = b \/ b = NULL} = P
    BY SameRange
  <2>3. GP!ErasedBothWays(a, P) = r
    BY DEF GP!ErasedBothWays, lists
  <2> HIDE DEF P, r
  <2>4. Lists(heap') = GP!ErasedBothWays(a, P)
    BY <1>14, <2>3 DEF lists2
  <2>5. {o \in GP!Range(Lists(heap)[a]) : o = b \/ b = NULL} = P
    BY <2>2 DEF lists
  <2> QED BY <1>2, <2>1, <2>4, <2>5 DEF GP!Erase
<1> QED BY <1>8, <1>15 DEF Sound

LEMMA ClearStep ==
    ASSUME SqInv, AddressesAreNear, Clear
    PROVE  Sound(heap') /\ GP!Clear
<1> DEFINE lists2 == Lists(heap')
<1>1. PICK own : IsSound(heap, own)
  BY DEF SqInv, Sound
<1>2. heap' = Cleared(heap) /\ UNCHANGED dead
  BY DEF Clear
<1>3. PICK gown : IsCleared(heap', gown)
  BY <1>1, <1>2, ClearedIs
<1>4. IsSound(heap', gown) /\ \A o \in Object : Names(heap', gown[o]) = <<>>
  BY <1>3 DEF IsCleared
<1>5. ListsSay(heap', gown, lists2)
  BY <1>4, ListsOf
<1> HIDE DEF lists2
<1>6. lists2 \in [Object -> Seq(Object)] /\ \A o \in Object : lists2[o] = <<>>
  BY <1>4, <1>5 DEF ListsSay
<1>7. lists2 = [o \in Object |-> <<>>]
  BY <1>6
<1> QED BY <1>2, <1>4, <1>7 DEF Sound, GP!Clear, lists2

LEMMA RemoveEmptyStep ==
    ASSUME SqInv, AddressesAreNear, RemoveEmpty
    PROVE  Sound(heap') /\ Lists(heap') = Lists(heap) /\ dead' = dead
<1> DEFINE lists == Lists(heap)
           lists2 == Lists(heap')
<1>1. PICK own : IsSound(heap, own)
  BY DEF SqInv, Sound
<1>2. heap' = RemoveEmptyNodes(heap) /\ dead' = dead
  BY DEF RemoveEmpty
<1>3. SameLists(heap, own, heap')
  BY <1>1, <1>2, RemoveEmptyIs
<1>4. IsSound(heap', own) /\ \A o \in Object : Names(heap', own[o]) = Names(heap, own[o])
  BY <1>3 DEF SameLists
<1>5. ListsSay(heap, own, lists) /\ ListsSay(heap', own, lists2)
  BY <1>1, <1>4, ListsOf
<1> HIDE DEF lists, lists2
<1>6. /\ lists \in [Object -> Seq(Object)] /\ lists2 \in [Object -> Seq(Object)]
      /\ \A o \in Object : lists2[o] = lists[o]
  BY <1>4, <1>5 DEF ListsSay
<1>7. lists2 = lists
  BY <1>6
<1> QED BY <1>2, <1>4, <1>7 DEF Sound, lists, lists2

(* The records that leave SQ_TYPE_REENTRY's list can be freed.              *)
AreErased(R, g, gown, records) ==
    /\ IsSound(g, gown)
    /\ \A o \in Object :
          Names(g, gown[o]) = IF o = Reentry \/ o \in records THEN <<>> ELSE Graph!Without(R[o], records)

(* sq_schema_erase_records(), first: what the records list, and the        *)
(* unsynced do not, is freed and leaves every list...                      *)
LEMMA ExcludedAndFreed ==
    ASSUME NEW h, NEW own, IsSound(h, own), AddressesAreNear,
           NEW R, ListsSay(h, own, R), ListsBehave(R),
           NEW records, records = Range(R[Reentry]) \ Range(R[Unsynced])
    PROVE  \E gown : AreErased(R, EraseAndFree(Exclude(h, Reentry, Unsynced), Reentry), gown, records)
<1> DEFINE U == Range(R[Unsynced])
           e == Exclude(h, Reentry, Unsynced)
           g == EraseAndFree(e, Reentry)
<1>1. Reentry \in Object /\ Unsynced \in Object /\ Reentry \in Hub /\ Hub \subseteq Object
  BY AddressAssumption DEF AddressAssumption
<1>2. R \in [Object -> Seq(Object)] /\ \A o \in Object : R[o] = Names(h, own[o]) /\ Related(h, o) = R[o]
  BY DEF ListsSay
<1>3. e = EraseOneWay(h, Reentry, U)
  BY <1>1, <1>2 DEF Exclude
<1> HIDE DEF U, e, g
<1>4. PICK eown : ErasedOneWay(h, own, Reentry, U, e, eown)
  BY <1>1, <1>3, EraseOneWayIs
<1>5. /\ IsSound(e, eown) /\ Names(e, eown[Reentry]) = Graph!Without(R[Reentry], U)
      /\ \A o \in Object : o # Reentry => Names(e, eown[o]) = R[o]
  BY <1>1, <1>2, <1>4 DEF ErasedOneWay, OthersKept
<1>6. Range(Names(e, eown[Reentry])) = records
  <2> DEFINE s == R[Reentry]
  <2>1. s \in Seq(Object)
    BY <1>1, <1>2
  <2>2. records = Range(s) \ U
    BY DEF U
  <2> HIDE DEF s
  <2>3. Range(Graph!Without(s, U)) = Range(s) \ U
    BY <2>1, WithoutTyped
  <2> QED BY <1>5, <2>2, <2>3 DEF s
<1>7. CanFree(e, eown, Reentry)
  <2>1. ASSUME NEW x \in records
        PROVE  /\ x \in Object /\ x \in Plain /\ x # Reentry /\ x \notin Range(R[x])
               /\ \A o \in Object : x \in Range(R[o]) => o \in Range(R[x])
    <3>1. x \in Range(R[Reentry]) /\ x \in Object
      BY <1>1, <1>2 DEF Range
    <3>2. x \in Plain /\ x # Reentry
      BY <1>1, <3>1 DEF ListsBehave, Plain
    <3> QED BY <3>1, <3>2 DEF ListsBehave
  <2>2. ASSUME NEW x \in records
        PROVE  /\ x # Reentry /\ x \notin Range(Names(e, eown[x]))
               /\ \A o \in Object :
                     o # Reentry /\ x \in Range(Names(e, eown[o])) => o \in Range(Names(e, eown[x]))
    <3>1. Names(e, eown[x]) = R[x]
      BY <1>5, <2>1
    <3> QED BY <1>5, <2>1, <3>1
  <2> QED BY <1>6, <2>2 DEF CanFree
<1>8. PICK gown : ErasedFreed(e, eown, Reentry, g, gown)
  BY <1>1, <1>5, <1>7, EraseAndFreeIs DEF g
<1>9. /\ IsSound(g, gown) /\ Names(g, gown[Reentry]) = <<>>
      /\ FreedNamed(e, eown, g, gown, Reentry, records)
  BY <1>6, <1>8 DEF ErasedFreed
<1>10. \A o \in Object : o # Reentry =>
          Names(g, gown[o]) = IF o \in records THEN <<>> ELSE Graph!Without(R[o], records)
  BY <1>5, <1>9 DEF FreedNamed
<1>11. AreErased(R, g, gown, records)
  BY <1>9, <1>10 DEF AreErased
<1> QED BY <1>11 DEF g, e

RecordsErased(R, g, gown, records, synced) ==
    /\ IsSound(g, gown)
    /\ \A o \in Object :
          Names(g, gown[o]) = IF o = Reentry \/ o \in records \/ (synced /\ o = Unsynced) THEN <<>>
                              ELSE Graph!Without(R[o], records)

(* ...then the unsynced are forgotten once they are synchronized, and the  *)
(* nodes without a list are removed.                                       *)
LEMMA RecordsErasedIs ==
    ASSUME NEW h, NEW own, IsSound(h, own), AddressesAreNear,
           NEW R, ListsSay(h, own, R), ListsBehave(R),
           NEW records, records = Range(R[Reentry]) \ Range(R[Unsynced]),
           NEW erased, erased = EraseAndFree(Exclude(h, Reentry, Unsynced), Reentry),
           NEW synced \in BOOLEAN
    PROVE  \E gown : RecordsErased(R, RemoveEmptyNodes(IF synced THEN EraseUnsynced(erased) ELSE erased),
                                   gown, records, synced)
<1> DEFINE e == IF synced THEN EraseUnsynced(erased) ELSE erased
           g == RemoveEmptyNodes(e)
<1>1. Unsynced \in Object
  BY AddressAssumption DEF AddressAssumption
<1>2. PICK fown : AreErased(R, erased, fown, records)
  BY ExcludedAndFreed
<1>3. /\ IsSound(erased, fown)
      /\ \A o \in Object :
            Names(erased, fown[o]) = IF o = Reentry \/ o \in records THEN <<>> ELSE Graph!Without(R[o], records)
  BY <1>2 DEF AreErased
<1>4. \E gown : RecordsErased(R, e, gown, records, synced)
  <2>1. CASE ~synced
    <3>1. RecordsErased(R, erased, fown, records, synced)
      BY <1>3, <2>1 DEF RecordsErased
    <3> QED BY <2>1, <3>1
  <2>2. CASE synced
    <3> DEFINE x == EraseUnsynced(erased)
    <3>1. PICK gown : ErasedOneWay(erased, fown, Unsynced, Object, x, gown)
      BY <1>1, <1>3, EraseOneWayIs DEF EraseUnsynced
    <3> HIDE DEF x
    <3>2. /\ IsSound(x, gown) /\ Names(x, gown[Unsynced]) = Graph!Without(Names(erased, fown[Unsynced]), Object)
          /\ \A o \in Object : o # Unsynced => Names(x, gown[o]) = Names(erased, fown[o])
      BY <3>1 DEF ErasedOneWay, OthersKept
    <3>3. Names(x, gown[Unsynced]) = <<>>
      <4> DEFINE s == Names(erased, fown[Unsynced])
      <4>1. s \in Seq(Object)
        BY <1>1, <1>3, NamesFacts
      <4> HIDE DEF s
      <4>2. Graph!Without(s, Object) = <<>>
        BY <4>1, AllWithout
      <4> QED BY <3>2, <4>2 DEF s
    <3>4. RecordsErased(R, x, gown, records, synced)
      BY <1>3, <2>2, <3>2, <3>3 DEF RecordsErased
    <3> QED BY <2>2, <3>4 DEF x
  <2> QED BY <2>1, <2>2
<1> HIDE DEF e
<1>5. PICK gown : RecordsErased(R, e, gown, records, synced)
  BY <1>4
<1>6. SameLists(e, gown, g)
  BY <1>5, RemoveEmptyIs DEF RecordsErased
<1> HIDE DEF g
<1>7. RecordsErased(R, g, gown, records, synced)
  BY <1>5, <1>6 DEF RecordsErased, SameLists
<1> QED BY <1>7 DEF g, e

(* ...and the call as a whole.                                             *)
LEMMA EraseRecordsStep ==
    ASSUME SqInv, AddressesAreNear, NEW synced \in BOOLEAN, EraseRecords(synced)
    PROVE  Sound(heap') /\ GP!EraseRecords(synced)
<1> DEFINE lists == Lists(heap)
           lists2 == Lists(heap')
           records == Range(lists[Reentry]) \ Range(lists[Unsynced])
           erased == EraseAndFree(Exclude(heap, Reentry, Unsynced), Reentry)
           g == RemoveEmptyNodes(IF synced THEN EraseUnsynced(erased) ELSE erased)
           emptied == records \cup {Reentry} \cup (IF synced THEN {Unsynced} ELSE {})
           r == [o \in Object |-> IF o \in emptied THEN <<>> ELSE GP!Without(lists[o], records)]
<1>1. PICK own : IsSound(heap, own)
  BY DEF SqInv, Sound
<1>2. ListsSay(heap, own, lists)
  BY <1>1, ListsOf
<1>3. ListsBehave(lists)
  BY GraphSays DEF SqInv
<1>4. Reentry \in Object /\ Unsynced \in Object
  BY AddressAssumption DEF AddressAssumption
<1>5. Related(heap, Reentry) = lists[Reentry] /\ Related(heap, Unsynced) = lists[Unsynced]
  BY <1>2, <1>4 DEF ListsSay
<1>6. \E dropped \in SUBSET Dropped(heap, records) :
         /\ ~synced => dropped = {}
         /\ heap' = g
         /\ dead' = dead \cup records \cup dropped
  BY <1>5 DEF EraseRecords
<1> HIDE DEF erased, lists, records, g
<1>7. PICK gown : RecordsErased(lists, g, gown, records, synced)
  BY <1>1, <1>2, <1>3, RecordsErasedIs DEF g, erased, records
<1>8. heap' = g
  BY <1>6
<1>9. IsSound(heap', gown)
  BY <1>7, <1>8 DEF RecordsErased
<1>10. ListsSay(heap', gown, lists2)
  BY <1>9, ListsOf
<1> HIDE DEF lists2
<1>11. lists2 = r
  <2>1. lists2 \in [Object -> Seq(Object)] /\ \A o \in Object : lists2[o] = Names(g, gown[o])
    BY <1>8, <1>10 DEF ListsSay
  <2>2. r = [o \in Object |-> r[o]]
    OBVIOUS
  <2>3. ASSUME NEW o \in Object PROVE lists2[o] = r[o]
    <3>1. o \in emptied <=> o = Reentry \/ o \in records \/ (synced /\ o = Unsynced)
      OBVIOUS
    <3> HIDE DEF emptied
    <3>2. lists2[o] = IF o \in emptied THEN <<>> ELSE Graph!Without(lists[o], records)
      BY <1>7, <2>1, <3>1 DEF RecordsErased
    <3>3. r[o] = IF o \in emptied THEN <<>> ELSE Graph!Without(lists[o], records)
      BY SameWithout
    <3> QED BY <3>2, <3>3
  <2> HIDE DEF r
  <2> QED BY <2>1, <2>2, <2>3, SameFunction
<1>12. GP!Records = records
  BY SameRange DEF GP!Records, records, lists
<1>13. GP!Dropped = Dropped(heap, records)
  BY <1>12, SameRange DEF GP!Dropped, Dropped, GP!Lists
<1>14. Lists(heap') = [o \in Object |->
           IF o \in GP!Records \cup {Reentry} \cup (IF synced THEN {Unsynced} ELSE {}) THEN <<>>
           ELSE GP!Without(Lists(heap)[o], GP!Records)]
  BY <1>11, <1>12 DEF lists2, lists
<1>15. \E gone \in SUBSET GP!Dropped :
          (~synced => gone = {}) /\ dead' = dead \cup GP!Records \cup gone
  BY <1>6, <1>12, <1>13
<1>16. GP!EraseRecords(synced)
  BY <1>14, <1>15 DEF GP!EraseRecords
<1> QED BY <1>9, <1>16 DEF Sound

-----------------------------------------------------------------------------
(* sq_relation_replace(), where the pointers that it holds are valid.      *)
ReplaceTakes(h, own, old, new, j, t, town) ==
    /\ IsSound(t, town) /\ j \in 1 .. Len(t.node) /\ t.node[j].object = new
    /\ Names(t, town[new]) = Names(h, own[old]) \o Names(h, own[new])
    /\ Names(t, town[old]) = <<>>
    /\ \A o \in Object : o # old /\ o # new => Names(t, town[o]) = Names(h, own[o])

(* sq_relation_replace(), by the nodes that exist.                         *)
LEMMA TwoTaken ==
    ASSUME NEW h, NEW own, NEW i, NEW j, NEW old, NEW new, Two(h, own, i, j, old, new)
    PROVE  ReplaceTakes(h, own, old, new, j, TakenOver(Appended(h, i, j), i, j, new),
                        OwnedJoined(own, old, new))
<1> DEFINE t == TakenOver(Appended(h, i, j), i, j, new)
           town == OwnedJoined(own, old, new)
<1>1. IsTaken(h, own, old, new, t, town)
  BY JoinedSound
<1>2. j \in 1 .. Len(h.node) /\ h.node[j].object = new
  BY DEF Two
<1> HIDE DEF t, town
<1>3. j \in 1 .. Len(t.node) /\ t.node[j].object = new
  BY <1>1, <1>2 DEF IsTaken, SameNodes
<1>4. ReplaceTakes(h, own, old, new, j, t, town)
  BY <1>1, <1>3 DEF IsTaken, ReplaceTakes
<1> QED BY <1>4 DEF t, town

(* The node of the old object comes before the place of the new one, so    *)
(* that it stays where it is.                                              *)
LEMMA SlotBehind ==
    ASSUME NEW h \in Heap, NEW j \in 1 .. Len(h.node) + 1, NEW i \in 1 .. Len(h.node), i < j,
           NEW new \in Object
    PROVE  LET g == NewNode(h, new, j)
           IN  /\ TakenOver(SlotAt(h, j), i, j, new) = TakenOver(Appended(g, i, j), i, j, new)
               /\ i \in 1 .. Len(g.node) /\ g.node[i].object = h.node[i].object
<1> DEFINE k == SlotAt(h, j)
           e == [object |-> new, next |-> NULL]
           g == NewNode(h, new, j)
           r == [k.node EXCEPT ![j] = e]
<1>1. IsSlotAt(h, j, k)
  BY SlotAtIs
<1>2. i \in 1 .. Len(h.node) + 1 /\ i # j /\ i < j /\ i \in Nat /\ j \in Nat /\ Len(h.node) \in Nat
  BY HeapFacts
<1> HIDE DEF k
<1>3. /\ k = [h EXCEPT !.node = k.node, !.capacity = k.capacity]
      /\ k.node \in Seq(Slot) /\ Len(k.node) = Len(h.node) + 1 /\ k.node[i] = h.node[i]
  BY <1>1, <1>2 DEF IsSlotAt
<1>4. g = [k EXCEPT !.node = r]
  <2>1. g = [k EXCEPT !.node = [k.node EXCEPT ![j] = e]]
    BY DEF NewNode, k, e
  <2> QED BY <2>1
<1>5. /\ DOMAIN k.node = 1 .. Len(h.node) + 1
      /\ r[j] = e /\ r[i] = h.node[i] /\ DOMAIN r = 1 .. Len(h.node) + 1 /\ Len(r) = Len(h.node) + 1
  BY <1>2, <1>3
<1>6. e.next = NULL
  OBVIOUS
<1> HIDE DEF e, g
<1>7. \A x, z : [[k EXCEPT !.node = x] EXCEPT !.node = z] = [k EXCEPT !.node = z]
  BY <1>3 DEF Heap
<1>8. \A x : [k EXCEPT !.node = x].node = x
  BY <1>3 DEF Heap
<1>9. g.node = r
  BY <1>4, <1>8
<1>10. Appended(g, i, j) = g
  <2>1. g.node[j].next = NULL
    BY <1>5, <1>6, <1>9
  <2> QED BY <2>1 DEF Appended
<1> DEFINE d == [object |-> new, next |-> h.node[i].next]
           z == [k.node EXCEPT ![j] = d]
<1>11. [r EXCEPT ![j] = d] = z
  BY <1>2, <1>3, <1>5
<1>12. [g EXCEPT !.node[j] = d] = [k EXCEPT !.node[j] = d]
  <2>1. [g EXCEPT !.node[j] = d] = [g EXCEPT !.node = [r EXCEPT ![j] = d]]
    BY <1>9
  <2>2. [k EXCEPT !.node[j] = d] = [k EXCEPT !.node = z]
    OBVIOUS
  <2> HIDE DEF r, z, d
  <2>3. [g EXCEPT !.node = z] = [k EXCEPT !.node = z]
    BY <1>4, <1>7
  <2> QED BY <1>11, <2>1, <2>2, <2>3
<1>13. TakenOver(k, i, j, new) = [[k EXCEPT !.node[j] = d] EXCEPT !.node[i].next = NULL]
  BY <1>3 DEF TakenOver
<1>14. TakenOver(g, i, j, new) = [[g EXCEPT !.node[j] = d] EXCEPT !.node[i].next = NULL]
  <2>1. g.node[i].next = h.node[i].next
    BY <1>5, <1>9
  <2> QED BY <2>1 DEF TakenOver
<1> HIDE DEF d
<1>15. TakenOver(k, i, j, new) = TakenOver(g, i, j, new)
  BY <1>12, <1>13, <1>14
<1>16. i \in 1 .. Len(g.node) /\ g.node[i].object = h.node[i].object
  BY <1>2, <1>5, <1>9
<1> QED BY <1>10, <1>15, <1>16 DEF g, k

LEMMA NewTaken ==
    ASSUME NEW h, NEW own, IsSound(h, own), NEW new \in Object, ~HasNode(h, new),
           NEW at, MissingAt(h, new, at), NEW j, j = at.index,
           NEW i \in 1 .. Len(h.node), i < j, NEW old, old = h.node[i].object, own[old].n # 0
    PROVE  ReplaceTakes(h, own, old, new, j, TakenOver(SlotAt(h, j), i, j, new),
                        OwnedJoined(own, old, new))
<1> DEFINE g == NewNode(h, new, j)
           t == TakenOver(SlotAt(h, j), i, j, new)
           town == OwnedJoined(own, old, new)
<1>1. h \in Heap /\ j \in 1 .. Len(h.node) + 1
  BY DEF IsSound, MissingAt
<1>2. /\ t = TakenOver(Appended(g, i, j), i, j, new)
      /\ i \in 1 .. Len(g.node) /\ g.node[i].object = old
  BY <1>1, SlotBehind
<1>3. HasItsNode(h, own, new, [heap |-> g, index |-> j])
  BY NewNodeIs
<1> HIDE DEF g, t, town
<1>4. SameLists(h, own, g) /\ j \in 1 .. Len(g.node) /\ g.node[j].object = new
  BY <1>3 DEF HasItsNode
<1>5. old # new
  BY DEF HasNode
<1>6. IsSound(g, own) /\ \A o \in Object : Names(g, own[o]) = Names(h, own[o])
  BY <1>4 DEF SameLists
<1>7. Two(g, own, i, j, old, new)
  BY <1>2, <1>4, <1>5, <1>6 DEF Two
<1>8. ReplaceTakes(g, own, old, new, j, t, town)
  <2>1. ReplaceTakes(g, own, old, new, j, TakenOver(Appended(g, i, j), i, j, new),
                     OwnedJoined(own, old, new))
    BY <1>7, TwoTaken
  <2> QED BY <1>2, <2>1 DEF town
<1>9. old \in Object
  BY <1>1, NodeFacts
<1>10. ReplaceTakes(h, own, old, new, j, t, town)
  BY <1>6, <1>8, <1>9 DEF ReplaceTakes
<1> QED BY <1>10 DEF t, town

ReplacesIn(h, own, old, new, j, t, town, g) ==
    ReplaceTakes(h, own, old, new, j, t, town) /\ g = RenamedIn(t, j, old, new)

LEMMA ReplacedTakes ==
    ASSUME NEW h, NEW own, IsSound(h, own), AddressesAreNear,
           NEW old \in Object, NEW new \in Object, old # new, own[old].n # 0,
           ReplaceIsSafe(h, old, new), NEW g \in Replaced(h, old, new)
    PROVE  \E j, t, town : ReplacesIn(h, own, old, new, j, t, town, g)
<1> DEFINE at == Find(h, new)
           i == Find(h, old).index
           j == Find(h, new).index
           t1 == TakenOver(Appended(h, i, j), i, j, new)
           t2 == TakenOver(SlotAt(h, j), i, j, new)
           town == OwnedJoined(own, old, new)
<1>1. h \in Heap /\ InOrder(h) /\ (~HasNode(h, old) => own[old].n = 0)
  BY DEF IsSound, Linked
<1>2. FoundAt(h, old, Find(h, old))
  BY <1>1, FindIs
<1>3. i \in 1 .. Len(h.node) /\ h.node[i].object = old
  BY <1>2 DEF FoundAt
<1>4. FoundAt(h, new, at) \/ (MissingAt(h, new, at) /\ ~HasNode(h, new))
  BY <1>1, FindIs
<1>5. CASE FoundAt(h, new, at)
  <2>1. at.found /\ j \in 1 .. Len(h.node) /\ h.node[j].object = new
    BY <1>5 DEF FoundAt
  <2>2. g = RenamedIn(t1, j, old, new)
    BY <2>1 DEF Replaced
  <2> HIDE DEF i, j, at
  <2>3. Two(h, own, i, j, old, new)
    BY <1>3, <2>1 DEF Two
  <2>4. ReplaceTakes(h, own, old, new, j, t1, town)
    BY <2>3, TwoTaken
  <2> HIDE DEF t1, town
  <2>5. ReplacesIn(h, own, old, new, j, t1, town, g)
    BY <2>2, <2>4 DEF ReplacesIn
  <2> QED BY <2>5
<1>6. CASE MissingAt(h, new, at) /\ ~HasNode(h, new)
  <2>1. at.found = FALSE
    BY <1>6 DEF MissingAt
  <2>2. j > i /\ Len(h.node) < h.capacity
    BY <2>1 DEF ReplaceIsSafe
  <2>3. g = RenamedIn(t2, j, old, new)
    BY <2>1, <2>2 DEF Replaced
  <2>4. j = at.index
    OBVIOUS
  <2>5. i < j
    <3>1. i \in Nat /\ j \in Nat
      BY <1>1, <1>3, <1>6, <2>4, HeapFacts DEF MissingAt
    <3> QED BY <2>2, <3>1
  <2> HIDE DEF i, j, at
  <2>6. ReplaceTakes(h, own, old, new, j, t2, town)
    BY <1>3, <1>6, <2>4, <2>5, NewTaken
  <2> HIDE DEF t2, town
  <2>7. ReplacesIn(h, own, old, new, j, t2, town, g)
    BY <2>3, <2>6 DEF ReplacesIn
  <2> QED BY <2>7
<1> QED BY <1>4, <1>5, <1>6

LEMMA RangeOfBoth ==
    ASSUME NEW s \in Seq(Object), NEW t \in Seq(Object)
    PROVE  Range(s \o t) = Range(s) \cup Range(t)
<1>1. /\ Len(s) \in Nat /\ Len(t) \in Nat
      /\ DOMAIN s = 1 .. Len(s) /\ DOMAIN t = 1 .. Len(t) /\ DOMAIN (s \o t) = 1 .. Len(s) + Len(t)
      /\ \A k \in 1 .. Len(s) + Len(t) : (s \o t)[k] = IF k <= Len(s) THEN s[k] ELSE t[k - Len(s)]
  OBVIOUS
<1>2. ASSUME NEW x \in Range(s \o t) PROVE x \in Range(s) \cup Range(t)
  <2>1. PICK k \in 1 .. Len(s) + Len(t) : (s \o t)[k] = x
    BY <1>1 DEF Range
  <2>2. CASE k <= Len(s)
    BY <1>1, <2>1, <2>2 DEF Range
  <2>3. CASE ~(k <= Len(s))
    <3>1. k - Len(s) \in 1 .. Len(t)
      BY <1>1, <2>3
    <3> QED BY <1>1, <2>1, <2>3, <3>1 DEF Range
  <2> QED BY <2>2, <2>3
<1>3. ASSUME NEW x \in Range(s) PROVE x \in Range(s \o t)
  <2>1. PICK k \in 1 .. Len(s) : s[k] = x
    BY <1>1 DEF Range
  <2>2. k \in 1 .. Len(s) + Len(t) /\ k <= Len(s)
    BY <1>1
  <2> QED BY <1>1, <2>1, <2>2 DEF Range
<1>4. ASSUME NEW x \in Range(t) PROVE x \in Range(s \o t)
  <2>1. PICK k \in 1 .. Len(t) : t[k] = x
    BY <1>1 DEF Range
  <2>2. k + Len(s) \in 1 .. Len(s) + Len(t) /\ ~(k + Len(s) <= Len(s)) /\ k + Len(s) - Len(s) = k
    BY <1>1
  <2>3. (s \o t)[k + Len(s)] = x
    BY <1>1, <2>1, <2>2
  <2> QED BY <1>1, <2>2, <2>3 DEF Range
<1> QED BY <1>2, <1>3, <1>4

(* The lists after a replacement, where no object is related to itself nor *)
(* the old one to the new.                                                 *)
IsReplaced(R, old, new, g, gown) ==
    /\ IsSound(g, gown)
    /\ \A o \in Object :
          Names(g, gown[o]) = IF o = new THEN R[old] \o R[new]
                              ELSE IF o = old THEN <<>>
                              ELSE IF o \in Range(R[old] \o R[new]) THEN Graph!Renamed(R[o], old, new)
                              ELSE R[o]

Apart(R, old, new) ==
    /\ old # new
    /\ \A o \in {old, new} : old \notin Range(R[o]) /\ new \notin Range(R[o])

(* The lists after it: the new object for the old one, everywhere.         *)
LEMMA ReplacedIs ==
    ASSUME NEW h, NEW own, AddressesAreNear, NEW R, ListsSay(h, own, R),
           NEW old \in Object, NEW new \in Object, Apart(R, old, new),
           NEW j, NEW t, NEW town, NEW g, ReplacesIn(h, own, old, new, j, t, town, g)
    PROVE  IsReplaced(R, old, new, g, town)
<1> DEFINE both == R[old] \o R[new]
           P == Range(both)
<1>1. R \in [Object -> Seq(Object)] /\ \A o \in Object : R[o] = Names(h, own[o])
  BY DEF ListsSay
<1>2. /\ IsSound(t, town) /\ j \in 1 .. Len(t.node) /\ t.node[j].object = new
      /\ Names(t, town[new]) = both /\ Names(t, town[old]) = <<>>
      /\ \A o \in Object : o # old /\ o # new => Names(t, town[o]) = R[o]
      /\ g = RenamedIn(t, j, old, new)
  BY <1>1 DEF ReplacesIn, ReplaceTakes
<1>3. P = Range(Names(t, town[new]))
  BY <1>2
<1>4. old # new /\ old \notin P /\ new \notin P
  BY <1>1, RangeOfBoth DEF Apart
<1> HIDE DEF P, both
<1>5. IsRenamed(t, town, old, new, P, RenamedIn(t, j, old, new))
  BY <1>2, <1>3, RenamedInIs
<1>6. IsRenamed(t, town, old, new, P, g)
  BY <1>2, <1>5
<1>7. /\ IsSound(g, town)
      /\ \A o \in Object : Names(g, town[o]) = IF o \in P THEN Graph!Renamed(Names(t, town[o]), old, new)
                                               ELSE Names(t, town[o])
  BY <1>6 DEF IsRenamed
<1>8. \A o \in Object :
         Names(g, town[o]) = IF o = new THEN both ELSE IF o = old THEN <<>>
                             ELSE IF o \in P THEN Graph!Renamed(R[o], old, new) ELSE R[o]
  BY <1>2, <1>4, <1>7
<1> QED BY <1>7, <1>8 DEF IsReplaced, P, both

LEMMA ReplaceStep ==
    ASSUME SqInv, AddressesAreNear, OnlySafeReplace,
           NEW old \in Plain, NEW new \in Plain, Replace(old, new)
    PROVE  Sound(heap') /\ GP!Replace(old, new)
<1> DEFINE lists == Lists(heap)
           lists2 == Lists(heap')
           both == lists[old] \o lists[new]
           r == [o \in Object |->
                   IF o = new THEN both
                   ELSE IF o = old THEN <<>>
                   ELSE IF o \in GP!Range(both) THEN GP!Renamed(lists[o], old, new)
                   ELSE lists[o]]
<1>1. PICK own : IsSound(heap, own)
  BY DEF SqInv, Sound
<1>2. /\ old # new /\ old \in Object /\ new \in Object
      /\ lists[old] # <<>> /\ new \notin Range(lists[old]) /\ old \notin Range(lists[new])
      /\ \A h \in Hub : ~(old \in Range(lists[h]) /\ new \in Range(lists[h]))
      /\ ReplaceIsSafe(heap, old, new) /\ heap' \in Replaced(heap, old, new)
      /\ dead' = (dead \cup {old}) \ {new}
  BY DEF Replace, Plain
<1>3. ListsSay(heap, own, lists)
  BY <1>1, ListsOf
<1>4. ListsBehave(lists)
  BY GraphSays DEF SqInv
<1> HIDE DEF lists, lists2
<1>5. Apart(lists, old, new)
  BY <1>2, <1>4 DEF Apart, ListsBehave
<1>6. own[old].n # 0
  <2>1. lists \in [Object -> Seq(Object)] /\ Len(lists[old]) = own[old].n
    BY <1>2, <1>3 DEF ListsSay
  <2>2. lists[old] \in Seq(Object) /\ lists[old] # <<>>
    BY <1>2, <2>1
  <2>3. Len(lists[old]) # 0
    BY <2>2
  <2> QED BY <2>1, <2>3
<1>7. PICK j, t, gown : ReplacesIn(heap, own, old, new, j, t, gown, heap')
  BY <1>1, <1>2, <1>6, ReplacedTakes
<1>8. IsReplaced(lists, old, new, heap', gown)
  BY <1>2, <1>3, <1>5, <1>7, ReplacedIs
<1>9. IsSound(heap', gown)
  BY <1>8 DEF IsReplaced
<1>10. ListsSay(heap', gown, lists2)
  BY <1>9, ListsOf DEF lists2
<1>11. lists2 = r
  <2>1. r = [o \in Object |-> r[o]]
    OBVIOUS
  <2>2. \A o \in Object : lists2[o] = Names(heap', gown[o])
    BY <1>10 DEF ListsSay
  <2> HIDE DEF both
  <2>3. GP!Range(both) = Range(both)
    BY SameRange
  <2>4. \A o \in Object : GP!Renamed(lists[o], old, new) = Graph!Renamed(lists[o], old, new)
    BY SameRenamed
  <2>5. \A o \in Object :
           Names(heap', gown[o]) = IF o = new THEN both ELSE IF o = old THEN <<>>
                                   ELSE IF o \in Range(both) THEN Graph!Renamed(lists[o], old, new)
                                   ELSE lists[o]
    BY <1>8 DEF IsReplaced, both
  <2>6. ASSUME NEW o \in Object PROVE lists2[o] = r[o]
    BY <2>2, <2>3, <2>4, <2>5
  <2>7. lists2 \in [Object -> Seq(Object)]
    BY <1>10 DEF ListsSay
  <2> HIDE DEF r
  <2> QED BY <2>1, <2>6, <2>7, SameFunction
<1>12. Len(lists[old]) + Len(lists[new]) <= MaxCells
  <2>1. heap.allocated \in Nat /\ heap.allocated <= MaxCells /\ OwnedOnce(heap, own)
    BY <1>1, Sizes DEF IsSound, Heap
  <2>2. own[old].n \in Nat /\ own[new].n \in Nat /\ own[old].n + own[new].n <= heap.allocated
    BY <1>2, <2>1, TwoLists DEF Owner
  <2>3. Len(lists[old]) = own[old].n /\ Len(lists[new]) = own[new].n
    BY <1>2, <1>3 DEF ListsSay
  <2>4. own[old].n + own[new].n <= MaxCells
    BY <2>1, <2>2, Sizes
  <2> QED BY <2>3, <2>4
<1>13. GP!Replace(old, new)
  <2>1. Lists(heap') = GP!ReplacedBothWays(old, new)
    BY <1>11 DEF GP!ReplacedBothWays, lists, lists2
  <2>2. \A a, o : GP!Lists(a, o) <=> o \in Range(lists[a])
    BY SameRange DEF GP!Lists, lists
  <2>3. ~GP!Lists(old, new) /\ ~GP!Lists(new, old) /\ \A h \in Hub : ~(GP!Lists(h, old) /\ GP!Lists(h, new))
    BY <1>2, <2>2
  <2>4. Lists(heap)[old] # <<>> /\ Len(Lists(heap)[old]) + Len(Lists(heap)[new]) <= MaxCells
    BY <1>2, <1>12 DEF lists
  <2> HIDE DEF both, r
  <2> QED BY <1>2, <2>1, <2>3, <2>4 DEF GP!Replace
<1> QED BY <1>9, <1>13 DEF Sound

-----------------------------------------------------------------------------
(* What a sound heap promises.                                             *)
LEMMA EmptyIsSound == Sound(EmptyHeap)
<1> DEFINE own == [o \in Owner |-> [n |-> 0, at |-> <<>>]]
           h == EmptyHeap
<1>1. \A o \in Owner : own[o].n = 0
  OBVIOUS
<1>2. /\ h.node = <<>> /\ Len(h.node) = 0 /\ h.allocated = 0 /\ h.freed = NULL
      /\ h.n_freed = 0 /\ h.n_used = 0 /\ h.capacity = InitCapacity
  BY DEF EmptyHeap
<1>3. h \in Heap
  <2>1. InitCapacity \in Nat /\ MaxCells \in Nat
    BY SizeAssumption
  <2>2. [c \in 1 .. MaxCells |-> [object |-> NULL, next |-> NULL]] \in [Cell -> [object : Owner, next : Pointer]]
    BY DEF Cell, Owner, Pointer
  <2>3. NULL \in Pointer /\ 0 \in 0 .. MaxCells /\ <<>> \in Seq(Node)
    BY <2>1 DEF Pointer
  <2> QED BY <2>1, <2>2, <2>3 DEF EmptyHeap, Heap
<1> HIDE DEF own, h
<1>4. InOrder(h)
  BY <1>2 DEF InOrder
<1>5. NULL \in Owner /\ Object \subseteq Owner
  BY DEF Owner
<1>6. OwnedOnce(h, own)
  BY <1>1, <1>2 DEF OwnedOnce
<1>7. Linked(h, own)
  <2>1. IsPath(h.cell, h.freed, own[NULL])
    BY <1>1, <1>2, <1>5 DEF IsPath
  <2> QED BY <1>1, <1>2, <1>5, <2>1 DEF Linked
<1>8. Counted(h, own)
  BY <1>1, <1>2, <1>5, SizeAssumption DEF Counted
<1>9. IsSound(h, own)
  BY <1>3, <1>4, <1>6, <1>7, <1>8 DEF IsSound
<1> QED BY <1>9 DEF Sound, h

(* What a sound heap means for the properties.                             *)
LEMMA SoundNodesAreFound ==
    ASSUME NEW h, Sound(h), AddressesAreNear
    PROVE  \A i \in DOMAIN h.node : Find(h, h.node[i].object) = [found |-> TRUE, index |-> i]
<1>1. h \in Heap /\ InOrder(h) /\ DOMAIN h.node = 1 .. Len(h.node)
  BY HeapFacts DEF Sound, IsSound
<1>2. ASSUME NEW i \in 1 .. Len(h.node)
      PROVE  Find(h, h.node[i].object) = [found |-> TRUE, index |-> i]
  <2> DEFINE o == h.node[i].object
             at == Find(h, o)
  <2>1. o \in Object /\ HasNode(h, o)
    BY <1>1, NodeFacts DEF HasNode
  <2> HIDE DEF o
  <2>2. FoundAt(h, o, at)
    BY <1>1, <2>1, FindIs
  <2> HIDE DEF at
  <2>3. at = [found |-> TRUE, index |-> at.index] /\ at.index \in 1 .. Len(h.node) /\ h.node[at.index].object = o
    BY <2>2 DEF FoundAt
  <2>4. at.index = i
    BY <1>1, <2>3, OneNode DEF o
  <2> QED BY <2>3, <2>4 DEF at, o
<1> QED BY <1>1, <1>2

SoundType(h) ==
    /\ h.node \in Seq([object : Object, next : Cell \cup {NULL}])
    /\ h.cell \in [Cell -> [object : Object \cup {NULL}, next : Cell \cup {NULL}]]
    /\ h.capacity >= Len(h.node)
    /\ h.allocated \in 0 .. MaxCells
    /\ h.freed \in 0 .. h.allocated
    /\ h.n_freed \in 0 .. MaxCells /\ h.n_used \in 0 .. MaxCells

LEMMA SoundTypeIs ==
    ASSUME NEW h, Sound(h)
    PROVE  SoundType(h)
<1>1. PICK own : IsSound(h, own)
  BY DEF Sound
<1>2. /\ h.node \in Seq([object : Object, next : Cell \cup {NULL}])
      /\ h.cell \in [Cell -> [object : Object \cup {NULL}, next : Cell \cup {NULL}]]
      /\ h.allocated \in 0 .. MaxCells /\ h.capacity >= Len(h.node)
  BY <1>1 DEF IsSound, Heap, Node, Owner, Pointer, Counted
<1>3. /\ own[NULL].n \in Nat /\ own[NULL].n <= h.allocated
      /\ \A k \in 1 .. own[NULL].n : own[NULL].at[k] \in 1 .. h.allocated
  BY <1>1, OwnedFacts DEF Owner
<1>4. h.freed \in 0 .. h.allocated
  <2>1. h.freed = IF own[NULL].n = 0 THEN NULL ELSE own[NULL].at[1]
    BY <1>1 DEF IsSound, Linked, IsPath
  <2>2. CASE own[NULL].n = 0
    BY <1>2, <2>1, <2>2, Sizes DEF NULL
  <2>3. CASE own[NULL].n # 0
    <3>1. 1 \in 1 .. own[NULL].n
      BY <1>3, <2>3
    <3> QED BY <1>2, <1>3, <2>1, <2>3, <3>1
  <2> QED BY <2>2, <2>3
<1>5. h.n_freed \in 0 .. MaxCells /\ h.n_used \in 0 .. MaxCells
  <2>1. h.n_freed = own[NULL].n /\ h.n_used = h.allocated - h.n_freed
    BY <1>1 DEF IsSound, Counted
  <2> QED BY <1>2, <1>3, <2>1, Sizes
<1> QED BY <1>2, <1>4, <1>5 DEF SoundType

(* The lists of the nodes, and of the freed cells at 0.                    *)
OwnerAt(h, i) == IF i = 0 THEN NULL ELSE h.node[i].object

SoundCells(h, lists) ==
    /\ UNION {Range(lists[i]) : i \in DOMAIN lists} = 1 .. h.allocated
    /\ \A i, j \in DOMAIN lists : \A k \in DOMAIN lists[i], l \in DOMAIN lists[j] :
          lists[i][k] = lists[j][l] => i = j /\ k = l
    /\ h.n_freed = Len(lists[0])
    /\ h.n_used = h.allocated - h.n_freed

(* Every cell in one list, once, with the lists as the property has them.  *)
LEMMA SoundCellsAre ==
    ASSUME NEW h, Sound(h),
           NEW lists, lists = [i \in 0 .. Len(h.node) |->
                                 IF i = 0 THEN Chain(h, h.freed) ELSE List(h, i)]
    PROVE  SoundCells(h, lists)
<1>1. PICK own : IsSound(h, own)
  BY DEF Sound
<1>2. h \in Heap /\ InOrder(h) /\ OwnedOnce(h, own) /\ Len(h.node) \in Nat
  BY <1>1, HeapFacts DEF IsSound
<1>3. DOMAIN lists = 0 .. Len(h.node) /\ 0 \in DOMAIN lists
  BY <1>2
<1>4. ASSUME NEW i \in 0 .. Len(h.node)
      PROVE  lists[i] = Places(own[OwnerAt(h, i)]) /\ OwnerAt(h, i) \in Owner
  <2>1. CASE i = 0
    <3>1. Chain(h, h.freed) = Places(own[NULL])
      BY <1>1, ListIs
    <3> QED BY <2>1, <3>1 DEF OwnerAt, Owner
  <2>2. CASE i # 0
    <3>1. i \in 1 .. Len(h.node)
      BY <1>2, <2>2
    <3>2. List(h, i) = Places(own[h.node[i].object]) /\ h.node[i].object \in Object
      BY <1>1, <3>1, ListIs
    <3> QED BY <2>2, <3>2 DEF OwnerAt, Owner
  <2> QED BY <2>1, <2>2
<1>5. ASSUME NEW i \in 0 .. Len(h.node), NEW j \in 0 .. Len(h.node), OwnerAt(h, i) = OwnerAt(h, j)
      PROVE  i = j
  <2>1. \A m \in 1 .. Len(h.node) : h.node[m].object # NULL
    BY <1>2, NodeFacts
  <2>2. i = 0 \/ i \in 1 .. Len(h.node)
    BY <1>2
  <2>3. j = 0 \/ j \in 1 .. Len(h.node)
    BY <1>2
  <2>4. i # 0 /\ j # 0 => i = j
    BY <1>2, <1>5, <2>2, <2>3, OneNode DEF OwnerAt
  <2>5. i = 0 <=> j = 0
    BY <1>5, <2>1, <2>2, <2>3 DEF OwnerAt
  <2> QED BY <2>4, <2>5
<1>6. \A o \in Owner : own[o].n # 0 => \E i \in 0 .. Len(h.node) : OwnerAt(h, i) = o
  <2>1. \A o \in Object : ~HasNode(h, o) => own[o].n = 0
    BY <1>1 DEF IsSound, Linked
  <2>2. \A i \in 1 .. Len(h.node) : i \in 0 .. Len(h.node) /\ i # 0
    BY <1>2
  <2>3. OwnerAt(h, 0) = NULL /\ 0 \in 0 .. Len(h.node)
    BY <1>2 DEF OwnerAt
  <2> QED BY <2>1, <2>2, <2>3 DEF HasNode, OwnerAt, Owner
<1>7. \A o \in Owner : /\ own[o].n \in Nat /\ DOMAIN Places(own[o]) = 1 .. own[o].n
                       /\ \A k \in 1 .. own[o].n : Places(own[o])[k] = own[o].at[k]
  BY <1>1, OwnedFacts DEF Places
<1>8. ASSUME NEW i \in 0 .. Len(h.node)
      PROVE  /\ OwnerAt(h, i) \in Owner /\ DOMAIN lists[i] = 1 .. own[OwnerAt(h, i)].n
             /\ \A k \in 1 .. own[OwnerAt(h, i)].n : lists[i][k] = own[OwnerAt(h, i)].at[k]
  BY <1>4, <1>7
<1>9. UNION {Range(lists[i]) : i \in DOMAIN lists} = 1 .. h.allocated
  <2>1. ASSUME NEW i \in 0 .. Len(h.node), NEW c \in Range(lists[i]) PROVE c \in 1 .. h.allocated
    <3>1. PICK k \in DOMAIN lists[i] : lists[i][k] = c
      BY DEF Range
    <3>2. OwnerAt(h, i) \in Owner /\ k \in 1 .. own[OwnerAt(h, i)].n /\ c = own[OwnerAt(h, i)].at[k]
      BY <1>8, <3>1
    <3>3. \A o \in Owner : \A m \in 1 .. own[o].n : own[o].at[m] \in 1 .. h.allocated
      BY <1>2 DEF OwnedOnce
    <3> QED BY <3>2, <3>3
  <2>2. ASSUME NEW c \in 1 .. h.allocated PROVE \E i \in 0 .. Len(h.node) : c \in Range(lists[i])
    <3>1. PICK o \in Owner : \E k \in 1 .. own[o].n : own[o].at[k] = c
      BY <1>2 DEF OwnedOnce
    <3>2. PICK k \in 1 .. own[o].n : own[o].at[k] = c
      BY <3>1
    <3>3. own[o].n # 0
      BY <1>7, <3>2
    <3>4. PICK i \in 0 .. Len(h.node) : OwnerAt(h, i) = o
      BY <1>6, <3>3
    <3>5. k \in DOMAIN lists[i] /\ lists[i][k] = c
      BY <1>8, <3>2, <3>4
    <3> QED BY <3>5 DEF Range
  <2> QED BY <1>3, <2>1, <2>2
<1>11. h.n_freed = Len(lists[0]) /\ h.n_used = h.allocated - h.n_freed
  <2>1. lists[0] = Places(own[NULL])
    <3>1. 0 \in 0 .. Len(h.node) /\ OwnerAt(h, 0) = NULL
      BY <1>2 DEF OwnerAt
    <3>2. lists[0] = Places(own[OwnerAt(h, 0)])
      BY <1>4, <3>1
    <3> QED BY <3>1, <3>2
  <2>2. Len(Places(own[NULL])) = own[NULL].n
    BY <1>7 DEF Owner, Places
  <2> QED BY <1>1, <2>1, <2>2 DEF IsSound, Counted
<1>12. \A i, j \in DOMAIN lists : \A k \in DOMAIN lists[i], l \in DOMAIN lists[j] :
          lists[i][k] = lists[j][l] => i = j /\ k = l
  <2> TAKE i, j \in DOMAIN lists
  <2> TAKE k \in DOMAIN lists[i], l \in DOMAIN lists[j]
  <2> HAVE lists[i][k] = lists[j][l]
  <2> DEFINE o == OwnerAt(h, i)
             p == OwnerAt(h, j)
  <2>1. i \in 0 .. Len(h.node) /\ j \in 0 .. Len(h.node)
    BY <1>3
  <2>2. o \in Owner /\ p \in Owner /\ k \in 1 .. own[o].n /\ l \in 1 .. own[p].n
    BY <1>8, <2>1
  <2>3. own[o].at[k] = own[p].at[l]
    BY <1>8, <2>1, <2>2
  <2> HIDE DEF o, p
  <2>4. o = p /\ k = l
    BY <1>2, <2>2, <2>3 DEF OwnedOnce
  <2> QED BY <1>5, <2>1, <2>4 DEF o, p
<1> QED BY <1>9, <1>11, <1>12 DEF SoundCells

-----------------------------------------------------------------------------
(* The inductive invariant: the heap is sound, and its lists are those of  *)
(* an object graph in which the reverse references are complete.  The      *)
(* second part is needed for the first: sq_relation_erase() that frees     *)
(* what a list names calls itself on the lists of these, and would cut     *)
(* short the list that it walks if an object were related to itself.       *)
LEMMA GraphAssumption == GP!HubAssumption
  BY AddressAssumption, SizeAssumption DEF GP!HubAssumption, AddressAssumption, SizeAssumption, NULL

(* The invariant.                                                          *)
LEMMA InitInv == ASSUME AddressesAreNear, Init PROVE SqInv /\ GP!Init
<1>1. heap = EmptyHeap /\ dead = {} /\ adds = 0
  BY DEF Init
<1>2. Sound(heap)
  BY <1>1, EmptyIsSound
<1>3. PICK own : IsSound(heap, own)
  BY <1>2 DEF Sound
<1>4. Lists(heap) = [o \in Object |-> <<>>]
  <2>1. ASSUME NEW o \in Object PROVE Related(heap, o) = <<>>
    <3>1. heap.node = <<>> /\ heap \in Heap /\ InOrder(heap)
      BY <1>1, <1>3 DEF EmptyHeap, IsSound
    <3>2. ~HasNode(heap, o)
      BY <3>1 DEF HasNode
    <3>3. MissingAt(heap, o, Find(heap, o))
      BY <3>1, <3>2, FindIs
    <3>4. Find(heap, o).found = FALSE
      BY <3>3 DEF MissingAt
    <3> QED BY <3>4 DEF Related
  <2> QED BY <2>1 DEF Lists
<1>5. GP!Init
  BY <1>1, <1>4 DEF GP!Init
<1>6. GP!IInv
  BY <1>5, GP!InitIInv, GraphAssumption
<1>7. adds \in 0 .. MaxAdds
  BY <1>1, SizeAssumption
<1> QED BY <1>2, <1>5, <1>6, <1>7 DEF SqInv

StepSays == Sound(heap') /\ [GP!Next]_(GP!graph)

LEMMA StepIs ==
    ASSUME SqInv, AddressesAreNear, OnlySafeReplace, [Next]_vars
    PROVE  StepSays
<1>1. ASSUME NEW a \in Object, NEW b \in Plain, Add(a, b) PROVE StepSays
  BY <1>1, AddStep DEF StepSays, GP!Next, GP!Plain, Plain
<1>2. ASSUME NEW a \in Object, NEW b \in Object \cup {NULL}, Erase(a, b) PROVE StepSays
  BY <1>2, EraseStep DEF StepSays, GP!Next
<1>3. ASSUME NEW synced \in BOOLEAN, EraseRecords(synced) PROVE StepSays
  BY <1>3, EraseRecordsStep DEF StepSays, GP!Next
<1>4. ASSUME NEW old \in Plain, NEW new \in Plain, Replace(old, new) PROVE StepSays
  BY <1>4, ReplaceStep DEF StepSays, GP!Next, GP!Plain, Plain
<1>5. CASE Clear
  BY <1>5, ClearStep DEF StepSays, GP!Next
<1>6. CASE RemoveEmpty
  BY <1>6, RemoveEmptyStep DEF StepSays, GP!graph
<1>7. CASE UNCHANGED vars
  <2>1. heap' = heap /\ dead' = dead
    BY <1>7 DEF vars
  <2>2. Lists(heap') = Lists(heap)
    BY <2>1
  <2> QED BY <2>1, <2>2 DEF StepSays, SqInv, GP!graph
<1> QED BY <1>1, <1>2, <1>3, <1>4, <1>5, <1>6, <1>7 DEF Next

LEMMA NextInv ==
    ASSUME SqInv, AddressesAreNear, OnlySafeReplace, [Next]_vars
    PROVE  SqInv'
<1>1. Sound(heap') /\ [GP!Next]_(GP!graph)
  BY StepIs DEF StepSays
<1>2. GP!IInv'
  BY <1>1, GP!NextIInv, GraphAssumption DEF SqInv
<1>3. adds' \in 0 .. MaxAdds
  <2>1. adds \in 0 .. MaxAdds /\ MaxAdds \in Nat
    BY SizeAssumption DEF SqInv
  <2>2. adds' = adds \/ (adds < MaxAdds /\ adds' = adds + 1)
    BY DEF Next, vars, Add, Erase, EraseRecords, Replace, Clear, RemoveEmpty
  <2> QED BY <2>1, <2>2
<1> QED BY <1>1, <1>2, <1>3 DEF SqInv, Sound

(* The invariant holds in every state that callers reach who keep the      *)
(* pointers of sq_relation_replace() valid, on addresses whose differences *)
(* an int can hold.                                                        *)
THEOREM SqRelationInvariance ==
    ASSUME AddressesAreNear, OnlySafeReplace
    PROVE  Spec => []SqInv
<1>1. Init => SqInv
  BY InitInv
<1>2. SqInv /\ [Next]_vars => SqInv'
  BY NextInv
<1> QED BY <1>1, <1>2, PTL DEF Spec

-----------------------------------------------------------------------------
LEMMA InvIsTyped == ASSUME SqInv PROVE TypeOK
<1>1. SoundType(heap)
  BY SoundTypeIs DEF SqInv
<1>2. dead \subseteq Plain /\ adds \in 0 .. MaxAdds
  BY GraphSays DEF SqInv
<1> QED BY <1>1, <1>2 DEF TypeOK, SoundType

LEMMA InvOwnsOnce == ASSUME SqInv PROVE CellsOwnedOnce
<1> DEFINE lists == [i \in 0 .. Len(heap.node) |->
                       IF i = 0 THEN Chain(heap, heap.freed) ELSE List(heap, i)]
<1>1. SoundCells(heap, lists)
  BY SoundCellsAre DEF SqInv
<1>2. TypeOK
  BY InvIsTyped
<1> QED BY <1>1, <1>2 DEF CellsOwnedOnce, SoundCells

(* Nodes, cells and counters keep their types and sizes.                   *)
THEOREM RelationTypeCorrect ==
    ASSUME AddressesAreNear, OnlySafeReplace
    PROVE  Spec => []TypeOK
<1>1. SqInv => TypeOK
  BY InvIsTyped
<1> QED BY <1>1, SqRelationInvariance, PTL

(* Every cell that the pool gave out is in the list of one node or among   *)
(* the freed ones, once: none is lost, freed twice or shared by two lists, *)
(* whatever is related, erased, replaced and cleared in whatever order.    *)
THEOREM CellsAreOwnedOnce ==
    ASSUME AddressesAreNear, OnlySafeReplace
    PROVE  Spec => []CellsOwnedOnce
<1>1. SqInv => CellsOwnedOnce
  BY InvOwnsOnce
<1> QED BY <1>1, SqRelationInvariance, PTL

(* The binary search finds the node of every object that has one.          *)
THEOREM NodesAreAlwaysFound ==
    ASSUME AddressesAreNear, OnlySafeReplace
    PROVE  Spec => []NodesAreFound
<1>1. SqInv => NodesAreFound
  BY SoundNodesAreFound DEF SqInv, NodesAreFound
<1> QED BY <1>1, SqRelationInvariance, PTL

(* A step of the graph that the lemmas above are about.                    *)
LEMMA SameNext == [GP!Next]_(GP!graph) => [Graph!Next]_(Graph!graph)
<1>1. GP!Plain = Graph!Plain /\ GP!graph = Graph!graph /\ GP!Records = Graph!Records
  BY DEF GP!Plain, Graph!Plain, GP!graph, Graph!graph, GP!Records, Graph!Records, GP!Range, Graph!Range
<1>2. \A a, o : GP!Lists(a, o) <=> Graph!Lists(a, o)
  BY DEF GP!Lists, Graph!Lists, GP!Range, Graph!Range
<1>3. \A list, gone : GP!Without(list, gone) = Graph!Without(list, gone)
  BY SameWithout
<1>4. ASSUME NEW a, NEW b PROVE GP!Add(a, b) => Graph!Add(a, b)
  BY <1>1, <1>2 DEF GP!Add, Graph!Add
<1>5. ASSUME NEW a, NEW b PROVE GP!Erase(a, b) => Graph!Erase(a, b)
  <2>1. \A gone : GP!ErasedBothWays(a, gone) = Graph!ErasedBothWays(a, gone)
    BY <1>3 DEF GP!ErasedBothWays, Graph!ErasedBothWays
  <2> QED BY <2>1 DEF GP!Erase, Graph!Erase, GP!Range, Graph!Range
<1>6. ASSUME NEW synced PROVE GP!EraseRecords(synced) => Graph!EraseRecords(synced)
  <2>1. GP!Dropped = Graph!Dropped
    BY <1>1, <1>2 DEF GP!Dropped, Graph!Dropped, GP!Range, Graph!Range
  <2> QED BY <1>1, <1>3, <2>1 DEF GP!EraseRecords, Graph!EraseRecords
<1>7. ASSUME NEW old, NEW new PROVE GP!Replace(old, new) => Graph!Replace(old, new)
  <2>1. \A list : GP!Renamed(list, old, new) = Graph!Renamed(list, old, new)
    BY SameRenamed
  <2>2. GP!ReplacedBothWays(old, new) = Graph!ReplacedBothWays(old, new)
    BY <2>1 DEF GP!ReplacedBothWays, Graph!ReplacedBothWays, GP!Range, Graph!Range
  <2> QED BY <1>2, <2>2 DEF GP!Replace, Graph!Replace
<1>8. GP!Clear => Graph!Clear
  BY DEF GP!Clear, Graph!Clear
<1>9. GP!Next => Graph!Next
  BY <1>1, <1>4, <1>5, <1>6, <1>7, <1>8 DEF GP!Next, Graph!Next
<1>10. UNCHANGED GP!graph => UNCHANGED Graph!graph
  BY DEF GP!graph, Graph!graph
<1> QED BY <1>9, <1>10

(* The nodes and cells implement the lists of RelationGraph: every call of *)
(* SqRelation does to the lists what RelationGraph says, or nothing.       *)
THEOREM RelationRefinement ==
    ASSUME AddressesAreNear, OnlySafeReplace
    PROVE  Spec => ImplementsGraph
<1>1. Init => Graph!Init
  <2>1. Graph!Init <=> GP!Init
    BY DEF Graph!Init, GP!Init
  <2> QED BY <2>1, InitInv
<1>2. SqInv /\ [Next]_vars => [Graph!Next]_(Graph!graph)
  <2> SUFFICES ASSUME SqInv, [Next]_vars PROVE [Graph!Next]_(Graph!graph)
    OBVIOUS
  <2>1. [GP!Next]_(GP!graph)
    BY StepIs DEF StepSays
  <2> QED BY <2>1, SameNext
<1> QED BY <1>1, <1>2, SqRelationInvariance, PTL DEF Spec, ImplementsGraph, Graph!Spec

(* No cell of any list names an object that was freed, so none of the      *)
(* callers that follow the lists follows one of these.                     *)
THEOREM NothingFreedIsNamed ==
    ASSUME AddressesAreNear, OnlySafeReplace
    PROVE  Spec => []FreedIsForgotten
<1>1. SqInv => FreedIsForgotten
  <2> SUFFICES ASSUME SqInv, NEW o \in dead
               PROVE  /\ \A i \in DOMAIN heap.node :
                            \A c \in Range(List(heap, i)) : heap.cell[c].object # o
                      /\ Range(Related(heap, o)) \subseteq Hub
    BY DEF FreedIsForgotten
  <2> DEFINE lists == Lists(heap)
  <2>1. PICK own : IsSound(heap, own)
    BY DEF SqInv, Sound
  <2>2. ListsSay(heap, own, lists)
    BY <2>1, ListsOf
  <2>3. /\ \A a \in Object : o \notin Range(lists[a])
        /\ Range(lists[o]) \subseteq Hub
    <3>1. GP!FreedIsForgotten
      BY DEF SqInv, GP!IInv
    <3>2. \A a : GP!Range(lists[a]) = Range(lists[a])
      BY SameRange
    <3> QED BY <3>1, <3>2 DEF GP!FreedIsForgotten, GP!Lists
  <2>4. o \in Object
    BY GraphSays DEF SqInv, Plain
  <2> HIDE DEF lists
  <2>5. Range(Related(heap, o)) \subseteq Hub
    BY <2>2, <2>3, <2>4 DEF ListsSay
  <2>6. ASSUME NEW i \in DOMAIN heap.node, NEW c \in Range(List(heap, i))
        PROVE  heap.cell[c].object # o
    <3> DEFINE a == heap.node[i].object
    <3>1. i \in 1 .. Len(heap.node)
      BY <2>1, HeapFacts DEF IsSound
    <3>2. ListSays(heap, own, i, a)
      BY <2>1, <3>1, ListFacts
    <3> HIDE DEF a
    <3>3. PICK k \in 1 .. own[a].n : own[a].at[k] = c
      <4>1. PICK k \in DOMAIN List(heap, i) : List(heap, i)[k] = c
        BY DEF Range
      <4>2. DOMAIN List(heap, i) = 1 .. own[a].n
        <5>1. List(heap, i) = Places(own[a])
          BY <2>1, <3>1, ListIs DEF a
        <5> QED BY <5>1 DEF Places
      <4> QED BY <3>2, <4>1, <4>2 DEF ListSays
    <3>4. /\ a \in Object /\ lists[a] = Names(heap, own[a]) /\ lists[a] \in Seq(Object)
          /\ Len(lists[a]) = own[a].n /\ lists[a][k] = heap.cell[c].object
      BY <2>2, <3>2, <3>3 DEF ListSays, ListsSay
    <3>5. heap.cell[c].object \in Range(lists[a])
      <4>1. k \in DOMAIN lists[a]
        BY <3>4
      <4> QED BY <3>4, <4>1 DEF Range
    <3> QED BY <2>3, <3>4, <3>5
  <2> QED BY <2>5, <2>6
<1> QED BY <1>1, SqRelationInvariance, PTL
=============================================================================
