---------------------------- MODULE SqPairsProofs ---------------------------
(***************************************************************************)
(* Proofs about SqPairs for every set of keys and pairs, every compare     *)
(* function, every initial capacity and both builds.                       *)
(***************************************************************************)
EXTENDS SqPairs, TLAPS

-----------------------------------------------------------------------------
(* The inductive invariant.                                                *)

(* While the loop runs, the keys outside the window are known to be on the *)
(* wrong side, and cur is the last probe: one end of the window.           *)
WindowInv ==
    pc = "probe" =>
        /\ low <= high /\ high <= length
        /\ \A i \in 0 .. low - 1 : CompareFunc[key][KeyAt(i)] > 0
        /\ \A i \in high .. length - 1 : CompareFunc[key][KeyAt(i)] < 0
        /\ \/ cur = high
           \/ cur + 1 = low
           \/ cur = 0 /\ low = 0

FoundInv == pc = "found" => cur < length /\ KeyAt(cur) = key

(* What the running call knows about its arguments.                        *)
CallInv ==
    /\ Searching => op # "none"
    /\ op = "add" /\ Searching =>
          /\ CheckIfKeyExist
          /\ pair \in Pair
          /\ owner[pair] = "caller"
          /\ key = KeyOf[pair]
    /\ pc = "final" => length = 0

IInv ==
    /\ TypeOK
    /\ FitsCapacity
    /\ InOrderForSearch
    /\ HeldOnce
    /\ WindowInv
    /\ FoundInv
    /\ MissIsInsertingIndex
    /\ CallInv

-----------------------------------------------------------------------------
(* A compare function orders: < can be chained with <= and is never        *)
(* reflexive.                                                              *)
LEMMA CompareChain ==
    ASSUME NEW a \in Key, NEW b \in Key, NEW c \in Key
    PROVE  /\ CompareFunc[a][b] \in Int
           /\ CompareFunc[a][b] < 0 /\ CompareFunc[b][c] <= 0 => CompareFunc[a][c] < 0
           /\ CompareFunc[a][b] <= 0 /\ CompareFunc[b][c] < 0 => CompareFunc[a][c] < 0
           /\ CompareFunc[a][b] <= 0 /\ CompareFunc[b][c] <= 0 => CompareFunc[a][c] <= 0
           /\ CompareFunc[a][b] < 0 <=> CompareFunc[b][a] > 0
           /\ CompareFunc[a][b] = 0 <=> a = b
           /\ CompareFunc[a][b] <= 0 <=> CompareFunc[b][a] >= 0
BY CompareAssumption

(* The capacity sq_array_alloc_at() settles on has room for the elements.  *)
LEMMA GrownFits ==
    ASSUME capacity \in Nat, NEW n \in Nat
    PROVE  Grown(n) \in Nat /\ Grown(n) >= n
BY DEF Grown

(* The probe looks inside the window.                                      *)
LEMMA MiddleInWindow ==
    ASSUME low \in Nat, high \in Nat, low < high
    PROVE  Middle \in Nat /\ low <= Middle /\ Middle < high
BY DEF Middle

LEMMA InitInv == Init => IInv
<1> SUFFICES ASSUME Init PROVE IInv
  OBVIOUS
<1> USE PairAssumption DEF Init
<1>1. data \in [0 .. length - 1 -> Pair]
  OBVIOUS
<1>2. TypeOK
  BY <1>1 DEF TypeOK
<1>3. FitsCapacity /\ InOrderForSearch /\ HeldOnce
  BY DEF FitsCapacity, InOrderForSearch, InOrder, HeldOnce
<1>4. WindowInv /\ FoundInv /\ MissIsInsertingIndex /\ CallInv
  BY DEF WindowInv, FoundInv, MissIsInsertingIndex, CallInv, Searching
<1> QED
  BY <1>2, <1>3, <1>4 DEF IInv

-----------------------------------------------------------------------------
(* The moves of SqArray.                                                   *)

(* sq_array_alloc_at() opens a gap at index and keeps everything else.     *)
LEMMA AllocAtMoves ==
    ASSUME TypeOK, NEW index \in 0 .. length, NEW p \in Pair, AllocAt(index, p)
    PROVE  /\ length' = length + 1 /\ length' \in Nat
           /\ data' \in [0 .. length' - 1 -> Pair]
           /\ data'[index] = p
           /\ \A i \in 0 .. index - 1 : data'[i] = data[i]
           /\ \A i \in index .. length - 1 : data'[i + 1] = data[i]
           /\ \A i \in index + 1 .. length : data'[i] = data[i - 1]
           /\ capacity' \in Nat /\ length' <= capacity'
<1> USE DEF TypeOK, AllocAt
<1>1. length' = length + 1 /\ length' \in Nat
  OBVIOUS
<1>2. \A i \in 0 .. length : IF i < index THEN data[i] \in Pair
                             ELSE i > index => data[i - 1] \in Pair
  OBVIOUS
<1>3. data' \in [0 .. length' - 1 -> Pair]
  BY <1>1, <1>2
<1>4. capacity' \in Nat /\ length' <= capacity'
  BY <1>1, GrownFits
<1> QED
  BY <1>1, <1>3, <1>4

(* sq_array_steal_addr() closes the gap at index and keeps everything else.*)
LEMMA StealAddrMoves ==
    ASSUME TypeOK, NEW index \in 0 .. length - 1, StealAddr(index)
    PROVE  /\ length' = length - 1 /\ length' \in Nat
           /\ data' \in [0 .. length' - 1 -> Pair]
           /\ \A i \in 0 .. index - 1 : data'[i] = data[i]
           /\ \A i \in index .. length' - 1 : data'[i] = data[i + 1]
           /\ \A i \in index + 1 .. length - 1 : data'[i - 1] = data[i]
           /\ capacity' = capacity
<1> USE DEF TypeOK, StealAddr
<1>1. length' = length - 1 /\ length' \in Nat
  OBVIOUS
<1>2. data' \in [0 .. length' - 1 -> Pair]
  BY <1>1
<1> QED
  BY <1>1, <1>2

(* An element that compares between its neighbours can be inserted.        *)
LEMMA InsertKeepsOrder ==
    ASSUME TypeOK, InOrder(data, length), CheckIfKeyExist,
           NEW index \in 0 .. length, NEW p \in Pair, AllocAt(index, p),
           \A i \in 0 .. index - 1 : CompareFunc[KeyOf[p]][KeyAt(i)] > 0,
           \A i \in index .. length - 1 : CompareFunc[KeyOf[p]][KeyAt(i)] < 0
    PROVE  InOrder(data', length')
<1> USE PairAssumption
<1>1. /\ length' = length + 1 /\ length \in Nat
      /\ data \in [0 .. length - 1 -> Pair]
      /\ data'[index] = p
      /\ \A i \in 0 .. index - 1 : data'[i] = data[i]
      /\ \A i \in index + 1 .. length : data'[i] = data[i - 1]
  BY AllocAtMoves DEF TypeOK
<1> SUFFICES ASSUME NEW i \in 0 .. length' - 1, NEW j \in 0 .. length' - 1, i < j
             PROVE  CompareFunc[KeyOf[data'[i]]][KeyOf[data'[j]]] < 0
  BY DEF InOrder
<1>2. \A m, n \in 0 .. length - 1 : m < n => CompareFunc[KeyAt(m)][KeyAt(n)] < 0
  BY DEF InOrder, KeyAt
<1>3. CASE j < index
  BY <1>1, <1>2, <1>3 DEF KeyAt
<1>4. CASE i < index /\ j = index
  <2>1. CompareFunc[KeyOf[p]][KeyAt(i)] > 0 /\ data[i] \in Pair
    BY <1>1, <1>4
  <2>2. CompareFunc[KeyAt(i)][KeyOf[p]] < 0
    BY <2>1, CompareChain DEF KeyAt
  <2> QED
    BY <2>2, <1>1, <1>4 DEF KeyAt
<1>5. CASE i < index /\ index < j
  BY <1>1, <1>2, <1>5 DEF KeyAt
<1>6. CASE i = index
  BY <1>1, <1>6 DEF KeyAt
<1>7. CASE index < i
  BY <1>1, <1>2, <1>7 DEF KeyAt
<1> QED
  BY <1>3, <1>4, <1>5, <1>6, <1>7, <1>1

(* Removing an element leaves the others in order.                         *)
LEMMA RemoveKeepsOrder ==
    ASSUME TypeOK, InOrder(data, length),
           NEW index \in 0 .. length - 1, StealAddr(index)
    PROVE  InOrder(data', length')
<1> DEFINE at(i) == IF i < index THEN i ELSE i + 1
<1>1. /\ length' = length - 1 /\ length \in Nat
      /\ \A i \in 0 .. index - 1 : data'[i] = data[i]
      /\ \A i \in index .. length' - 1 : data'[i] = data[i + 1]
  BY StealAddrMoves DEF TypeOK
<1>2. \A i \in 0 .. length' - 1 : at(i) \in 0 .. length - 1 /\ data'[i] = data[at(i)]
  BY <1>1
<1>3. \A i, j \in 0 .. length' - 1 : i < j => at(i) < at(j)
  BY <1>1
<1> QED
  BY <1>1, <1>2, <1>3 DEF InOrder

(* Sorting loses no pair, doubles none, and leaves the array in order.     *)
LEMMA SortingKeepsPairs ==
    ASSUME TypeOK, HeldOnce, NEW d \in Rearrangements
    PROVE  /\ d \in [0 .. length - 1 -> Pair]
           /\ InOrder(d, length)
           /\ \A i, j \in 0 .. length - 1 : i # j => d[i] # d[j]
           /\ \A p \in Pair : (\E i \in 0 .. length - 1 : data[i] = p)
                                 <=> (\E i \in 0 .. length - 1 : d[i] = p)
<1>1. PICK f \in Bijection(0 .. length - 1, 0 .. length - 1) :
          d = [i \in 0 .. length - 1 |-> data[f[i]]]
  BY DEF Rearrangements
<1>2. /\ f \in [0 .. length - 1 -> 0 .. length - 1]
      /\ \A a, b \in 0 .. length - 1 : f[a] = f[b] => a = b
      /\ \A t \in 0 .. length - 1 : \E i \in 0 .. length - 1 : f[i] = t
  BY DEF Bijection, Injection, Surjection, IsInjective
<1>3. InOrder(d, length)
  BY DEF Rearrangements
<1>4. d \in [0 .. length - 1 -> Pair]
  BY <1>1, <1>2 DEF TypeOK
<1>5. \A i, j \in 0 .. length - 1 : i # j => d[i] # d[j]
  BY <1>1, <1>2 DEF HeldOnce
<1>6. \A p \in Pair : (\E i \in 0 .. length - 1 : data[i] = p)
                         <=> (\E i \in 0 .. length - 1 : d[i] = p)
  BY <1>1, <1>2
<1> QED
  BY <1>3, <1>4, <1>5, <1>6

(* Inserting a pair of the caller's hands it over.                         *)
LEMMA InsertHolds ==
    ASSUME TypeOK, HeldOnce, NEW index \in 0 .. length, NEW p \in Pair,
           AllocAt(index, p), owner[p] = "caller", Release(p, "pairs")
    PROVE  HeldOnce'
<1>1. /\ length' = length + 1 /\ length \in Nat
      /\ data \in [0 .. length - 1 -> Pair]
      /\ data'[index] = p
      /\ \A i \in 0 .. index - 1 : data'[i] = data[i]
      /\ \A i \in index .. length - 1 : data'[i + 1] = data[i]
      /\ \A i \in index + 1 .. length : data'[i] = data[i - 1]
  BY AllocAtMoves DEF TypeOK
<1>2. \A i \in 0 .. length - 1 : data[i] # p
  BY <1>1 DEF HeldOnce
<1>3. \A q \in Pair : (\E i \in 0 .. length' - 1 : data'[i] = q)
                         <=> q = p \/ \E i \in 0 .. length - 1 : data[i] = q
  <2> SUFFICES ASSUME NEW q \in Pair
               PROVE  (\E i \in 0 .. length' - 1 : data'[i] = q)
                         <=> q = p \/ \E i \in 0 .. length - 1 : data[i] = q
    OBVIOUS
  <2>1. ASSUME NEW i \in 0 .. length' - 1, data'[i] = q, q # p
        PROVE  \E j \in 0 .. length - 1 : data[j] = q
    <3>1. CASE i < index
      BY <1>1, <2>1, <3>1
    <3>2. CASE i > index
      <4>1. i - 1 \in 0 .. length - 1 /\ data[i - 1] = q
        BY <1>1, <2>1, <3>2
      <4> QED
        BY <4>1
    <3> QED
      BY <1>1, <2>1, <3>1, <3>2
  <2>2. ASSUME NEW i \in 0 .. length - 1, data[i] = q
        PROVE  \E j \in 0 .. length' - 1 : data'[j] = q
    <3>1. CASE i < index
      BY <1>1, <2>2, <3>1
    <3>2. CASE i >= index
      <4>1. i + 1 \in 0 .. length' - 1 /\ data'[i + 1] = q
        BY <1>1, <2>2, <3>2
      <4> QED
        BY <4>1
    <3> QED
      BY <3>1, <3>2, <1>1
  <2>3. q = p => \E j \in 0 .. length' - 1 : data'[j] = q
    BY <1>1
  <2> QED
    BY <2>1, <2>2, <2>3
<1>4. \A i, j \in 0 .. length' - 1 : i # j => data'[i] # data'[j]
  <2> DEFINE from(i) == IF i < index THEN i ELSE i - 1
  <2>1. \A i \in 0 .. length' - 1 :
           i # index => from(i) \in 0 .. length - 1 /\ data'[i] = data[from(i)]
    BY <1>1
  <2>2. \A i, j \in 0 .. length' - 1 :
           i # j /\ i # index /\ j # index => from(i) # from(j)
    BY <1>1
  <2>3. \A i \in 0 .. length' - 1 : i # index => data'[i] # p
    BY <2>1, <1>2
  <2>4. ASSUME NEW i \in 0 .. length' - 1, NEW j \in 0 .. length' - 1, i # j
        PROVE  data'[i] # data'[j]
    <3>1. CASE i = index \/ j = index
      BY <2>3, <2>4, <3>1, <1>1
    <3>2. CASE i # index /\ j # index
      <4>1. /\ from(i) \in 0 .. length - 1 /\ from(j) \in 0 .. length - 1
            /\ from(i) # from(j)
            /\ data'[i] = data[from(i)] /\ data'[j] = data[from(j)]
        BY <2>1, <2>2, <2>4, <3>2
      <4> HIDE DEF from
      <4> QED
        BY <4>1 DEF HeldOnce
    <3> QED
      BY <3>1, <3>2
  <2> QED
    BY <2>4
<1>5. \A q \in Pair : owner'[q] = "pairs" <=> q = p \/ owner[q] = "pairs"
  BY DEF Release, TypeOK
<1> QED
  BY <1>3, <1>4, <1>5 DEF HeldOnce

(* Taking a pair out of the array takes it out of the array's ownership.   *)
LEMMA RemoveHolds ==
    ASSUME TypeOK, HeldOnce, NEW index \in 0 .. length - 1, NEW who,
           StealAddr(index), who # "pairs", Release(data[index], who)
    PROVE  HeldOnce'
<1> DEFINE p == data[index]
<1> DEFINE from(i) == IF i < index THEN i ELSE i + 1
<1>1. /\ length' = length - 1 /\ length \in Nat
      /\ data \in [0 .. length - 1 -> Pair] /\ p \in Pair
      /\ \A i \in 0 .. index - 1 : data'[i] = data[i]
      /\ \A i \in index .. length' - 1 : data'[i] = data[i + 1]
      /\ \A i \in index + 1 .. length - 1 : data'[i - 1] = data[i]
  BY StealAddrMoves DEF TypeOK
<1>2. \A i \in 0 .. length' - 1 :
         from(i) \in 0 .. length - 1 /\ from(i) # index /\ data'[i] = data[from(i)]
  BY <1>1
<1>3. \A i, j \in 0 .. length' - 1 : i # j => from(i) # from(j)
  BY <1>1
<1>4. \A i \in 0 .. length - 1 :
         i # index => \E j \in 0 .. length' - 1 : data'[j] = data[i]
  <2> SUFFICES ASSUME NEW i \in 0 .. length - 1, i # index
               PROVE  \E j \in 0 .. length' - 1 : data'[j] = data[i]
    OBVIOUS
  <2>1. CASE i < index
    BY <1>1, <2>1
  <2>2. CASE i > index
    <3>1. i - 1 \in 0 .. length' - 1 /\ data'[i - 1] = data[i]
      BY <1>1, <2>2
    <3> QED
      BY <3>1
  <2> QED
    BY <2>1, <2>2
<1> HIDE DEF from
<1>5. \A q \in Pair : (\E i \in 0 .. length' - 1 : data'[i] = q)
                         <=> q # p /\ \E i \in 0 .. length - 1 : data[i] = q
  <2>1. ASSUME NEW i \in 0 .. length' - 1
        PROVE  data'[i] # p /\ \E j \in 0 .. length - 1 : data[j] = data'[i]
    <3>1. from(i) \in 0 .. length - 1 /\ from(i) # index /\ data'[i] = data[from(i)]
      BY <1>2
    <3> QED
      BY <3>1 DEF HeldOnce
  <2>2. ASSUME NEW i \in 0 .. length - 1, data[i] # p
        PROVE  \E j \in 0 .. length' - 1 : data'[j] = data[i]
    BY <1>4, <2>2
  <2> QED
    BY <2>1, <2>2
<1>6. \A i, j \in 0 .. length' - 1 : i # j => data'[i] # data'[j]
  BY <1>2, <1>3 DEF HeldOnce
<1>7. \A q \in Pair : owner'[q] = "pairs" <=> q # p /\ owner[q] = "pairs"
  BY <1>1 DEF Release, TypeOK
<1> QED
  BY <1>5, <1>6, <1>7 DEF HeldOnce

-----------------------------------------------------------------------------
(* Every step keeps the inductive invariant.                               *)

LEMMA AddUncheckedInv ==
    ASSUME IInv, NEW p \in Pair, AddUnchecked(p)
    PROVE  IInv'
<1> USE DEF IInv
<1>1. AllocAt(length, p) /\ Release(p, "pairs") /\ owner[p] = "caller" /\ length \in 0 .. length
  BY DEF AddUnchecked, Release, TypeOK
<1>2. /\ length' \in Nat /\ data' \in [0 .. length' - 1 -> Pair]
      /\ capacity' \in Nat /\ length' <= capacity'
  BY <1>1, AllocAtMoves
<1>3. TypeOK'
  BY <1>2, PairAssumption DEF AddUnchecked, TypeOK, call, window
<1>4. HeldOnce'
  BY <1>1, InsertHolds
<1>5. InOrderForSearch'
  BY DEF AddUnchecked, InOrderForSearch, Searching
<1>6. FitsCapacity' /\ WindowInv' /\ FoundInv' /\ MissIsInsertingIndex' /\ CallInv'
  BY <1>2 DEF AddUnchecked, FitsCapacity, WindowInv, FoundInv, MissIsInsertingIndex, CallInv,
     Searching, call
<1> QED
  BY <1>3, <1>4, <1>5, <1>6

LEMMA AddCheckedInv ==
    ASSUME IInv, NEW p \in Pair, AddChecked(p)
    PROVE  IInv'
<1> USE PairAssumption DEF IInv, AddChecked, BeginSearch
<1>1. TypeOK'
  BY DEF TypeOK
<1>2. FitsCapacity' /\ HeldOnce'
  BY DEF FitsCapacity, HeldOnce
<1>3. InOrderForSearch'
  BY DEF InOrderForSearch, InOrder
<1>4. WindowInv'
  BY <1>1 DEF WindowInv, TypeOK
<1>5. FoundInv' /\ MissIsInsertingIndex' /\ CallInv'
  BY DEF FoundInv, MissIsInsertingIndex, CallInv, Searching
<1> QED
  BY <1>1, <1>2, <1>3, <1>4, <1>5

LEMMA FindInv ==
    ASSUME IInv, NEW o \in {"get", "erase", "steal"}, NEW k \in Key, Find(o, k)
    PROVE  IInv'
<1> USE PairAssumption DEF IInv, Find, BeginSearch
<1>1. /\ data' \in [0 .. length - 1 -> Pair]
      /\ InOrder(data', length)
      /\ \A i, j \in 0 .. length - 1 : i # j => data'[i] # data'[j]
      /\ \A p \in Pair : (\E i \in 0 .. length - 1 : data[i] = p)
                            <=> (\E i \in 0 .. length - 1 : data'[i] = p)
  <2>1. CASE CheckIfKeyExist \/ sorted
    BY <2>1 DEF TypeOK, HeldOnce, InOrderForSearch
  <2>2. CASE ~(CheckIfKeyExist \/ sorted)
    BY <2>2, SortingKeepsPairs
  <2> QED
    BY <2>1, <2>2
<1>2. TypeOK'
  BY <1>1 DEF TypeOK
<1>3. HeldOnce'
  BY <1>1 DEF HeldOnce
<1>4. InOrderForSearch'
  BY <1>1 DEF InOrderForSearch
<1>5. WindowInv'
  BY <1>2 DEF WindowInv, TypeOK
<1>6. FitsCapacity' /\ FoundInv' /\ MissIsInsertingIndex' /\ CallInv'
  BY DEF FitsCapacity, FoundInv, MissIsInsertingIndex, CallInv, Searching
<1> QED
  BY <1>2, <1>3, <1>4, <1>5, <1>6

(* Keys on one side of the probe are on the same side of the searched key. *)
LEMMA ProbeSplits ==
    ASSUME IInv, pc = "probe", low < high
    PROVE  /\ Middle \in 0 .. length - 1
           /\ CompareFunc[key][KeyAt(Middle)] < 0 =>
                 \A i \in Middle .. length - 1 : CompareFunc[key][KeyAt(i)] < 0
           /\ CompareFunc[key][KeyAt(Middle)] > 0 =>
                 \A i \in 0 .. Middle : CompareFunc[key][KeyAt(i)] > 0
<1> USE DEF IInv, TypeOK
<1>1. Middle \in 0 .. length - 1
  BY MiddleInWindow DEF WindowInv
<1>2. \A i \in 0 .. length - 1 : KeyAt(i) \in Key
  BY PairAssumption DEF KeyAt
<1>3. \A i, j \in 0 .. length - 1 : i < j => CompareFunc[KeyAt(i)][KeyAt(j)] <= 0
  BY <1>2, CompareChain, PairAssumption DEF InOrderForSearch, InOrder, Searching, KeyAt
<1>4. ASSUME CompareFunc[key][KeyAt(Middle)] < 0, NEW i \in Middle .. length - 1
      PROVE  CompareFunc[key][KeyAt(i)] < 0
  <2>1. CASE i = Middle
    BY <2>1, <1>4
  <2>2. CASE Middle < i
    <3>1. i \in 0 .. length - 1 /\ CompareFunc[KeyAt(Middle)][KeyAt(i)] <= 0
      BY <1>1, <1>3, <1>4, <2>2
    <3> QED
      BY <3>1, <1>1, <1>2, <1>4, CompareChain
  <2> QED
    BY <1>1, <2>1, <2>2
<1>5. ASSUME CompareFunc[key][KeyAt(Middle)] > 0, NEW i \in 0 .. Middle
      PROVE  CompareFunc[key][KeyAt(i)] > 0
  <2>1. CASE i = Middle
    BY <2>1, <1>5
  <2>2. CASE i < Middle
    <3>1. i \in 0 .. length - 1 /\ CompareFunc[KeyAt(i)][KeyAt(Middle)] <= 0
      BY <1>1, <1>3, <1>5, <2>2
    <3>2. CompareFunc[KeyAt(Middle)][key] < 0
      BY <1>1, <1>2, <1>5, CompareChain
    <3>3. CompareFunc[KeyAt(i)][key] < 0
      BY <3>1, <3>2, <1>1, <1>2, CompareChain
    <3> QED
      BY <3>1, <3>3, <1>2, CompareChain
  <2> QED
    BY <1>1, <2>1, <2>2
<1> QED
  BY <1>1, <1>4, <1>5

LEMMA SearchInv ==
    ASSUME IInv, Search
    PROVE  IInv'
<1> USE DEF IInv
<1> DEFINE Same == UNCHANGED <<array, bits, call, owner, reply>>
<1>1. ASSUME Same, pc' \in {"probe", "found", "missed"}, pc = "probe",
             low' \in Nat, cur' \in Nat, high' \in Nat
      PROVE  TypeOK' /\ FitsCapacity' /\ HeldOnce' /\ InOrderForSearch' /\ CallInv'
  <2> USE <1>1 DEF array, bits, call
  <2>1. TypeOK'
    BY DEF TypeOK
  <2>2. FitsCapacity' /\ HeldOnce'
    BY DEF FitsCapacity, HeldOnce
  <2>3. InOrderForSearch'
    BY DEF InOrderForSearch, InOrder, Searching
  <2>4. CallInv'
    BY DEF CallInv, Searching
  <2> QED
    BY <2>1, <2>2, <2>3, <2>4
<1>2. CASE ProbeEqual
  <2> USE <1>2 DEF ProbeEqual, Probe
  <2>1. Middle \in 0 .. length - 1 /\ Middle \in Nat
    BY ProbeSplits
  <2>2. KeyAt(Middle) = key
    BY <2>1, CompareAssumption, PairAssumption DEF KeyAt, TypeOK
  <2>3. FoundInv'
    BY <2>1, <2>2 DEF FoundInv, KeyAt, array, call, TypeOK
  <2>4. WindowInv' /\ MissIsInsertingIndex'
    BY DEF WindowInv, MissIsInsertingIndex
  <2> QED
    BY <1>1, <2>1, <2>3, <2>4 DEF TypeOK
<1>3. CASE ProbeLess
  <2> USE <1>3 DEF ProbeLess, Probe
  <2>1. Middle \in 0 .. length - 1 /\ low <= Middle /\ Middle < high
    BY ProbeSplits, MiddleInWindow DEF TypeOK
  <2>2. \A i \in Middle .. length - 1 : CompareFunc[key][KeyAt(i)] < 0
    BY ProbeSplits
  <2>3. WindowInv'
    BY <2>1, <2>2 DEF WindowInv, KeyAt, array, call, TypeOK
  <2>4. FoundInv' /\ MissIsInsertingIndex'
    BY DEF FoundInv, MissIsInsertingIndex
  <2> QED
    BY <1>1, <2>1, <2>3, <2>4 DEF TypeOK
<1>4. CASE ProbeGreater
  <2> USE <1>4 DEF ProbeGreater, Probe
  <2>1. Middle \in 0 .. length - 1 /\ low <= Middle /\ Middle < high
    BY ProbeSplits, MiddleInWindow DEF TypeOK
  <2>2. \A i \in 0 .. Middle : CompareFunc[key][KeyAt(i)] > 0
    BY ProbeSplits
  <2>3. WindowInv'
    BY <2>1, <2>2 DEF WindowInv, KeyAt, array, call, TypeOK
  <2>4. FoundInv' /\ MissIsInsertingIndex'
    BY DEF FoundInv, MissIsInsertingIndex
  <2> QED
    BY <1>1, <2>1, <2>3, <2>4 DEF TypeOK
<1>5. CASE Miss
  <2> USE <1>5 DEF Miss
  <2>1. low = high /\ cur' = low /\ low <= length
    BY DEF WindowInv, TypeOK
  <2>2. MissIsInsertingIndex'
    BY <2>1 DEF MissIsInsertingIndex, WindowInv, KeyAt, array, call, TypeOK
  <2>3. FoundInv' /\ WindowInv'
    BY DEF FoundInv, WindowInv
  <2> QED
    BY <1>1, <2>1, <2>2, <2>3 DEF TypeOK
<1> QED
  BY <1>2, <1>3, <1>4, <1>5 DEF Search

LEMMA FinishInv ==
    ASSUME IInv, Finish
    PROVE  IInv'
<1> USE DEF IInv
(* Back at idle, only the array and the ownership are left to look at.     *)
<1>1. ASSUME \E p \in Pair \cup {NoPair} : Return(p), op # "none",
             length' \in Nat, data' \in [0 .. length' - 1 -> Pair], capacity' \in Nat,
             sorted' = sorted, found' \in BOOLEAN, exist' \in BOOLEAN,
             owner' \in [Pair -> {"caller", "pairs", "destroyed"}],
             length' <= capacity', InOrder(data', length'), HeldOnce'
      PROVE  IInv'
  <2> USE <1>1 DEF Return
  <2>1. TypeOK'
    <3>1. PICK p \in Pair \cup {NoPair} : Return(p)
      BY <1>1
    <3>2. reply' \in [op : {"none", "add", "get", "erase", "steal", "final"},
                      pair : Pair \cup {NoPair}]
      BY <3>1 DEF TypeOK
    <3> QED
      BY <3>1, <3>2 DEF TypeOK
  <2>2. InOrderForSearch'
    BY DEF InOrderForSearch
  <2>3. FitsCapacity' /\ WindowInv' /\ FoundInv' /\ MissIsInsertingIndex' /\ CallInv'
    BY DEF FitsCapacity, WindowInv, FoundInv, MissIsInsertingIndex, CallInv, Searching
  <2> QED
    BY <2>1, <2>2, <2>3
<1>2. pc \in {"found", "missed"} /\ op # "none" /\ InOrder(data, length)
  BY DEF Finish, AddReplace, AddInsert, GetFound, GetMissed, EraseFound, StealFound, RemoveMissed,
     CallInv, InOrderForSearch, Searching
<1>3. pc = "found" => cur \in 0 .. length - 1 /\ data[cur] \in Pair /\ KeyAt(cur) = key
  BY DEF FoundInv, TypeOK
<1>4. CASE AddReplace
  <2> USE <1>4 DEF AddReplace
  <2>1. /\ pair \in Pair /\ owner[pair] = "caller" /\ key = KeyOf[pair]
        /\ \A i \in 0 .. length - 1 : data[i] # pair
    BY DEF CallInv, Searching, HeldOnce
  <2>2. data' \in [0 .. length - 1 -> Pair]
    BY <2>1 DEF TypeOK
  <2>3. \A i \in 0 .. length - 1 : data'[i] = IF i = cur THEN pair ELSE data[i]
    BY DEF TypeOK
  <2>4. \A i \in 0 .. length - 1 : KeyOf[data'[i]] = KeyOf[data[i]]
    BY <1>3, <2>1, <2>3 DEF KeyAt
  <2>5. InOrder(data', length')
    BY <1>2, <2>4 DEF InOrder
  <2>6. \A q \in Pair : owner'[q] = IF q = pair THEN "pairs"
                                    ELSE IF q = data[cur] THEN "destroyed" ELSE owner[q]
    BY DEF TypeOK
  <2>7. HeldOnce'
    <3>1. \A i, j \in 0 .. length' - 1 : i # j => data'[i] # data'[j]
      BY <2>1, <2>3 DEF HeldOnce
    <3>2. ASSUME NEW q \in Pair
          PROVE  owner'[q] = "pairs" <=> \E i \in 0 .. length' - 1 : data'[i] = q
      <4>1. CASE q = pair
        BY <4>1, <1>3, <2>3, <2>6
      <4>2. CASE q # pair /\ q = data[cur]
        <5>1. \A i \in 0 .. length - 1 : i # cur => data[i] # q
          BY <4>2, <1>3 DEF HeldOnce
        <5>2. \A i \in 0 .. length' - 1 : data'[i] # q
          BY <4>2, <5>1, <2>3
        <5>3. owner'[q] = "destroyed"
          BY <4>2, <2>6
        <5> QED
          BY <5>2, <5>3
      <4>3. CASE q # pair /\ q # data[cur]
        <5>1. owner[q] = "pairs" <=> \E i \in 0 .. length - 1 : data[i] = q
          BY DEF HeldOnce
        <5>2. \A i \in 0 .. length - 1 : data'[i] = q <=> data[i] = q
          BY <4>3, <2>3
        <5>3. (\E i \in 0 .. length' - 1 : data'[i] = q)
                 <=> \E i \in 0 .. length - 1 : data[i] = q
          BY <5>2
        <5>4. owner'[q] = owner[q]
          BY <4>3, <2>6
        <5> QED
          BY <5>1, <5>3, <5>4
      <4> QED
        BY <4>1, <4>2, <4>3
    <3> QED
      BY <3>1, <3>2 DEF HeldOnce
  <2>8. owner' \in [Pair -> {"caller", "pairs", "destroyed"}]
    BY DEF TypeOK
  <2> QED
    BY <1>1, <1>2, <1>3, <2>2, <2>5, <2>7, <2>8 DEF TypeOK, FitsCapacity
<1>5. CASE AddInsert
  <2> USE <1>5 DEF AddInsert
  <2>1. /\ pair \in Pair /\ owner[pair] = "caller" /\ key = KeyOf[pair] /\ CheckIfKeyExist
        /\ cur \in 0 .. length
        /\ \A i \in 0 .. cur - 1 : CompareFunc[KeyOf[pair]][KeyAt(i)] > 0
        /\ \A i \in cur .. length - 1 : CompareFunc[KeyOf[pair]][KeyAt(i)] < 0
    BY DEF CallInv, Searching, MissIsInsertingIndex, TypeOK
  <2>2. InOrder(data', length')
    BY <1>2, <2>1, InsertKeepsOrder
  <2>3. HeldOnce'
    BY <2>1, InsertHolds
  <2>4. /\ length' \in Nat /\ data' \in [0 .. length' - 1 -> Pair]
        /\ capacity' \in Nat /\ length' <= capacity'
    BY <2>1, AllocAtMoves
  <2>5. owner' \in [Pair -> {"caller", "pairs", "destroyed"}]
    BY DEF TypeOK, Release
  <2> QED
    BY <1>1, <1>2, <2>2, <2>3, <2>4, <2>5 DEF TypeOK
<1>6. CASE GetFound \/ GetMissed \/ RemoveMissed
  <2> USE <1>6 DEF GetFound, GetMissed, RemoveMissed, array, bits
  <2>1. UNCHANGED <<data, length, capacity, sorted, owner>>
    OBVIOUS
  <2>2. HeldOnce' /\ InOrder(data', length')
    BY <1>2, <2>1 DEF HeldOnce, InOrder
  <2> QED
    BY <1>1, <1>2, <1>3, <2>1, <2>2 DEF TypeOK, FitsCapacity
<1>7. CASE EraseFound \/ StealFound
  <2> USE <1>7 DEF EraseFound, StealFound, bits
  <2>1. PICK who \in {"destroyed", "caller"} : Release(data[cur], who)
    OBVIOUS
  <2>2. StealAddr(cur) /\ cur \in 0 .. length - 1
    BY <1>3
  <2>3. InOrder(data', length')
    BY <1>2, <2>2, RemoveKeepsOrder
  <2>4. HeldOnce'
    BY <2>1, <2>2, RemoveHolds
  <2>5. /\ length' \in Nat /\ data' \in [0 .. length' - 1 -> Pair]
        /\ capacity' = capacity /\ length' = length - 1
    BY <2>2, StealAddrMoves
  <2>6. owner' \in [Pair -> {"caller", "pairs", "destroyed"}]
    BY <2>1 DEF TypeOK, Release
  <2> QED
    BY <1>1, <1>2, <1>3, <2>3, <2>4, <2>5, <2>6 DEF TypeOK, FitsCapacity
<1> QED
  BY <1>4, <1>5, <1>6, <1>7 DEF Finish

LEMMA FinalInv ==
    ASSUME IInv, Final \/ Reinit
    PROVE  IInv'
<1> USE PairAssumption DEF IInv
<1>1. CASE Final
  <2> USE <1>1 DEF Final, bits, call, window
  <2>1. data' \in [0 .. length' - 1 -> Pair]
    OBVIOUS
  <2>2. TypeOK'
    BY <2>1 DEF TypeOK
  <2>3. HeldOnce'
    BY DEF HeldOnce, TypeOK
  <2>4. InOrderForSearch'
    BY DEF InOrderForSearch, InOrder
  <2>5. FitsCapacity' /\ WindowInv' /\ FoundInv' /\ MissIsInsertingIndex' /\ CallInv'
    BY DEF FitsCapacity, WindowInv, FoundInv, MissIsInsertingIndex, CallInv, Searching, TypeOK
  <2> QED
    BY <2>2, <2>3, <2>4, <2>5
<1>2. CASE Reinit
  <2> USE <1>2 DEF Reinit, call, window
  <2>1. TypeOK' /\ HeldOnce'
    BY DEF TypeOK, HeldOnce
  <2>2. length' = 0
    BY DEF CallInv
  <2>3. InOrderForSearch'
    BY <2>2 DEF InOrderForSearch, InOrder
  <2>4. FitsCapacity' /\ WindowInv' /\ FoundInv' /\ MissIsInsertingIndex' /\ CallInv'
    BY <2>2 DEF FitsCapacity, WindowInv, FoundInv, MissIsInsertingIndex, CallInv, Searching, TypeOK
  <2> QED
    BY <2>1, <2>3, <2>4
<1> QED
  BY <1>1, <1>2

LEMMA StutterInv == IInv /\ UNCHANGED vars => IInv'
<1> SUFFICES ASSUME IInv, UNCHANGED vars PROVE IInv'
  OBVIOUS
<1> USE DEF IInv, vars, array, bits, call, window
<1>1. TypeOK' /\ FitsCapacity' /\ HeldOnce'
  BY DEF TypeOK, FitsCapacity, HeldOnce
<1>2. InOrderForSearch'
  BY DEF InOrderForSearch, InOrder, Searching
<1>3. WindowInv' /\ FoundInv' /\ MissIsInsertingIndex'
  BY DEF WindowInv, FoundInv, MissIsInsertingIndex, KeyAt
<1>4. CallInv'
  BY DEF CallInv, Searching
<1> QED
  BY <1>1, <1>2, <1>3, <1>4

(* IInv holds in every state of every SqPairs.                             *)
THEOREM Invariance == Spec => []IInv
<1>1. IInv /\ [Next]_vars => IInv'
  BY AddUncheckedInv, AddCheckedInv, FindInv, SearchInv, FinishInv, FinalInv, StutterInv DEF Next
<1> QED
  BY InitInv, <1>1, PTL DEF Spec

(* Every variable of SqPairs keeps its type.                               *)
THEOREM TypeCorrect == Spec => []TypeOK
BY Invariance, PTL DEF IInv

(* sq_array_alloc_at() always leaves room for the elements, whatever the   *)
(* initial capacity.                                                       *)
THEOREM CapacitySafety == Spec => []FitsCapacity
BY Invariance, PTL DEF IInv

(* The array is in order whenever sq_array_find_sorted() looks at it.      *)
THEOREM SearchesAreInOrder == Spec => []InOrderForSearch
BY Invariance, PTL DEF IInv

(* A failed search of sq_array_find_sorted() returns the one index that    *)
(* keeps the array in order.                                               *)
THEOREM InsertingIndexCorrect == Spec => []MissIsInsertingIndex
BY Invariance, PTL DEF IInv

(* Every pair handed over is released exactly once.                        *)
THEOREM Ownership == Spec => []HeldOnce
BY Invariance, PTL DEF IInv

-----------------------------------------------------------------------------
(* Each probe of sq_array_find_sorted() at least halves the window.        *)
THEOREM SearchHalves == Spec => HalvesWindow
<1> DEFINE A == pc = "probe" /\ pc' = "probe" => 2 * (high' - low') <= high - low
<1>1. IInv /\ [Next]_vars => [A]_vars
  <2> SUFFICES ASSUME IInv, Next, pc = "probe", pc' = "probe"
               PROVE  2 * (high' - low') <= high - low
    OBVIOUS
  <2>1. ProbeLess \/ ProbeGreater
    BY DEF Next, Search, Finish, AddUnchecked, AddChecked, Find, BeginSearch, ProbeEqual, Miss,
       AddReplace, AddInsert, GetFound, GetMissed, EraseFound, StealFound, RemoveMissed, Final, Reinit
  <2>2. low \in Nat /\ high \in Nat /\ low < high
    BY <2>1 DEF ProbeLess, ProbeGreater, Probe, IInv, TypeOK
  <2>3. Middle \in Nat /\ 2 * (Middle - low) <= high - low /\ 2 * (high - (Middle + 1)) <= high - low
    BY <2>2 DEF Middle
  <2> QED
    BY <2>1, <2>2, <2>3 DEF ProbeLess, ProbeGreater
<1> QED
  BY Invariance, <1>1, PTL DEF Spec, HalvesWindow

-----------------------------------------------------------------------------
(* Refinement of the multimap.                                             *)

(* A search that hits returns a stored pair of the key; with strict order  *)
(* there is no other.                                                      *)
LEMMA FoundIsStored ==
    ASSUME IInv, pc = "found"
    PROVE  /\ data[cur] \in Map!Stored(key)
           /\ CheckIfKeyExist => Map!Stored(key) = {data[cur]}
<1> USE PairAssumption DEF IInv
<1>1. cur \in 0 .. length - 1 /\ data[cur] \in Pair /\ KeyAt(cur) = key
  BY DEF FoundInv, TypeOK
<1>2. data[cur] \in Map!Stored(key)
  BY <1>1 DEF Map!Stored, HeldOnce, KeyAt
<1>3. ASSUME CheckIfKeyExist, NEW q \in Map!Stored(key)
      PROVE  q = data[cur]
  <2>1. PICK i \in 0 .. length - 1 : data[i] = q
    BY DEF Map!Stored, HeldOnce
  <2>2. KeyOf[data[i]] = KeyOf[data[cur]] /\ KeyOf[data[i]] \in Key
    BY <1>1, <2>1 DEF Map!Stored, KeyAt
  <2>3. CompareFunc[KeyOf[data[i]]][KeyOf[data[cur]]] = 0
    BY <2>2, CompareChain
  <2>4. i # cur => /\ i < cur => CompareFunc[KeyOf[data[i]]][KeyOf[data[cur]]] < 0
                   /\ cur < i => CompareFunc[KeyOf[data[cur]]][KeyOf[data[i]]] < 0
    BY <1>1, <1>3 DEF InOrderForSearch, InOrder
  <2> QED
    BY <1>1, <2>1, <2>2, <2>3, <2>4
<1> QED
  BY <1>2, <1>3

(* A search that misses has proved the key absent.                         *)
LEMMA MissedIsAbsent ==
    ASSUME IInv, pc = "missed"
    PROVE  Map!Stored(key) = {}
<1> USE PairAssumption DEF IInv
<1> SUFFICES ASSUME NEW q \in Map!Stored(key) PROVE FALSE
  OBVIOUS
<1>1. PICK i \in 0 .. length - 1 : data[i] = q
  BY DEF Map!Stored, HeldOnce
<1>2. CompareFunc[key][KeyAt(i)] # 0
  BY DEF MissIsInsertingIndex, TypeOK
<1>3. KeyAt(i) = key
  BY <1>1 DEF Map!Stored, KeyAt
<1> QED
  BY <1>2, <1>3, CompareAssumption DEF TypeOK

(* Each step of SqPairs is a step of the multimap or leaves it alone.      *)
LEMMA StepRefines ==
    ASSUME IInv, Next
    PROVE  Map!Next \/ UNCHANGED <<owner, reply>>
<1> USE PairAssumption DEF IInv
<1>0. key \in Key
  BY DEF TypeOK
<1>1. ASSUME NEW p \in Pair, AddUnchecked(p)
      PROVE  Map!Next
  <2>1. owner' = [q \in Pair |-> IF q = p THEN "pairs"
                                 ELSE IF CheckIfKeyExist /\ q \in Map!Stored(KeyOf[p])
                                      THEN "destroyed" ELSE owner[q]]
    BY <1>1 DEF AddUnchecked, TypeOK
  <2>2. Map!Add(p)
    BY <1>1, <2>1 DEF AddUnchecked, Map!Add, Map!Answer
  <2> QED
    BY <2>2 DEF Map!Next
<1>2. CASE AddReplace
  <2> USE <1>2 DEF AddReplace, Return
  <2>1. pair \in Pair /\ owner[pair] = "caller" /\ key = KeyOf[pair] /\ CheckIfKeyExist
    BY DEF CallInv, Searching
  <2>2. Map!Stored(KeyOf[pair]) = {data[cur]} /\ data[cur] \in Pair
    BY <2>1, FoundIsStored DEF FoundInv, TypeOK
  <2>3. owner' = [q \in Pair |-> IF q = pair THEN "pairs"
                                 ELSE IF CheckIfKeyExist /\ q \in Map!Stored(KeyOf[pair])
                                      THEN "destroyed" ELSE owner[q]]
    BY <2>1, <2>2 DEF TypeOK
  <2>4. Map!Add(pair)
    BY <2>1, <2>2, <2>3 DEF Map!Add, Map!Answer
  <2> QED
    BY <2>1, <2>4 DEF Map!Next
<1>3. CASE AddInsert
  <2> USE <1>3 DEF AddInsert, Return, Release
  <2>1. pair \in Pair /\ owner[pair] = "caller" /\ key = KeyOf[pair]
    BY DEF CallInv, Searching
  <2>2. Map!Stored(KeyOf[pair]) = {}
    BY <2>1, MissedIsAbsent
  <2>3. owner' = [q \in Pair |-> IF q = pair THEN "pairs"
                                 ELSE IF CheckIfKeyExist /\ q \in Map!Stored(KeyOf[pair])
                                      THEN "destroyed" ELSE owner[q]]
    BY <2>1, <2>2 DEF TypeOK
  <2>4. Map!Add(pair)
    BY <2>1, <2>2, <2>3 DEF Map!Add, Map!Answer
  <2> QED
    BY <2>1, <2>4 DEF Map!Next
<1>4. CASE GetFound
  <2>1. Map!Get(key)
    BY <1>4, FoundIsStored DEF GetFound, Return, Map!Get, Map!Answer
  <2> QED
    BY <1>0, <2>1 DEF Map!Next
<1>5. CASE GetMissed
  <2>1. Map!Get(key)
    BY <1>5, MissedIsAbsent DEF GetMissed, Return, Map!Get, Map!Answer
  <2> QED
    BY <1>0, <2>1 DEF Map!Next
<1>6. CASE EraseFound
  <2>1. Map!Erase(key)
    BY <1>6, FoundIsStored DEF EraseFound, Return, Release, Map!Erase, Map!Answer
  <2> QED
    BY <1>0, <2>1 DEF Map!Next
<1>7. CASE StealFound
  <2>1. Map!Steal(key)
    BY <1>7, FoundIsStored DEF StealFound, Return, Release, Map!Steal, Map!Answer
  <2> QED
    BY <1>0, <2>1 DEF Map!Next
<1>8. CASE RemoveMissed
  <2>1. Map!Erase(key) \/ Map!Steal(key)
    BY <1>8, MissedIsAbsent DEF RemoveMissed, Return, Map!Erase, Map!Steal, Map!Answer
  <2> QED
    BY <1>0, <2>1 DEF Map!Next
<1>9. CASE Final
  <2>1. \A p \in Pair : (\E i \in 0 .. length - 1 : data[i] = p) <=> owner[p] = "pairs"
    BY DEF HeldOnce
  <2>2. owner' = [p \in Pair |-> IF owner[p] = "pairs" THEN "destroyed" ELSE owner[p]]
    BY <1>9, <2>1 DEF Final
  <2>3. Map!Final
    BY <1>9, <2>2 DEF Final, Map!Final, Map!Answer
  <2> QED
    BY <2>3 DEF Map!Next
<1>10. CASE Search \/ Reinit
  BY <1>10 DEF Search, Reinit, ProbeEqual, ProbeLess, ProbeGreater, Probe, Miss
<1>11. ASSUME NEW o, NEW k, Find(o, k)
       PROVE  UNCHANGED <<owner, reply>>
  BY <1>11 DEF Find, BeginSearch
<1>12. ASSUME NEW p, AddChecked(p)
       PROVE  UNCHANGED <<owner, reply>>
  BY <1>12 DEF AddChecked, BeginSearch
<1> QED
  BY <1>1, <1>2, <1>3, <1>4, <1>5, <1>6, <1>7, <1>8, <1>9, <1>10, <1>11, <1>12 DEF Next, Finish

(* Seen through the ownership of the pairs and the answers it gives, an    *)
(* SqPairs is the multimap, in both builds.                                *)
THEOREM Refinement == Spec => ImplementsMap
<1>1. Init => Map!Init
  BY DEF Init, Map!Init
<1>2. IInv /\ [Next]_vars => [Map!Next]_<<owner, reply>>
  BY StepRefines DEF vars
<1> QED
  BY Invariance, <1>1, <1>2, PTL DEF Spec, ImplementsMap, Map!Spec
=============================================================================
