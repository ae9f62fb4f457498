------------------------------- MODULE SqPairs ------------------------------
(***************************************************************************)
(* SqPairs, the key/value array of support/SqPairs.c, together with the    *)
(* sorted search and the element moves of SqArray.c it is built from.  The *)
(* binary search of sq_array_find_sorted() is modelled one probe per step; *)
(* everything a caller does to the array starts from its result.           *)
(*                                                                         *)
(* Both builds are covered: CheckIfKeyExist is the compile-time switch     *)
(* SQ_PAIRS_CHECK_IF_KEY_EXIST.  When it is off (the default) pairs are    *)
(* appended and sorted only when the next search needs it.                 *)
(***************************************************************************)
EXTENDS Integers, Functions

CONSTANTS
    Key, Pair, KeyOf, CheckIfKeyExist, NoPair,
    CompareFunc,        \* CompareFunc[a][b]: the sign says how a and b compare
    InitCapacity        \* SQ_PAIRS_CAPACITY

(* What a compare function must be for a sorted array to make sense.       *)
ASSUME CompareAssumption ==
    /\ CompareFunc \in [Key -> [Key -> Int]]
    /\ \A a, b \in Key :
          /\ CompareFunc[a][b] = 0 <=> a = b
          /\ CompareFunc[a][b] < 0 <=> CompareFunc[b][a] > 0
    /\ \A a, b, c \in Key :
          CompareFunc[a][b] < 0 /\ CompareFunc[b][c] < 0 => CompareFunc[a][c] < 0

ASSUME PairAssumption ==
    /\ KeyOf \in [Pair -> Key]
    /\ NoPair \notin Pair
    /\ CheckIfKeyExist \in BOOLEAN
    /\ InitCapacity \in Nat

VARIABLES
    data, length, capacity,     \* SqArray
    sorted, found, exist,       \* bit_field: SORTED, FOUND, EXIST
    pc,                         \* where the running call is
    op, key, pair,              \* the running call and its arguments
    low, cur, high,             \* the locals of sq_array_find_sorted()
    owner, reply                \* what the caller can observe

array   == <<data, length, capacity>>
bits    == <<sorted, found, exist>>
call    == <<op, key, pair>>
window  == <<low, cur, high>>
vars    == <<array, bits, pc, call, window, owner, reply>>

KeyAt(i) == KeyOf[data[i]]

(* Neighbours are in order.  Only the default build may keep equal keys.   *)
InOrder(d, n) ==
    \A i, j \in 0 .. n - 1 :
        i < j => IF CheckIfKeyExist
                 THEN CompareFunc[KeyOf[d[i]]][KeyOf[d[j]]] < 0
                 ELSE CompareFunc[KeyOf[d[i]]][KeyOf[d[j]]] <= 0

-----------------------------------------------------------------------------
(* SqArray: room for one more element, and the moves around an index.      *)

(* A slip the checks must notice: doubling that is one element short.      *)
GrownShort(n) ==
    IF capacity >= n THEN capacity
    ELSE IF 2 * capacity >= n - 1 THEN 2 * capacity
    ELSE 2 * n

Grown(n) ==
    IF capacity >= n THEN capacity
    ELSE IF 2 * capacity >= n THEN 2 * capacity
    ELSE 2 * n

AllocAt(index, p) ==
    /\ capacity' = Grown(length + 1)
    /\ data' = [i \in 0 .. length |->
                   IF i < index THEN data[i]
                   ELSE IF i = index THEN p
                   ELSE data[i - 1]]
    /\ length' = length + 1

StealNext(index) ==
    /\ data' = [i \in 0 .. length - 2 |-> IF i <= index THEN data[i] ELSE data[i + 1]]
    /\ length' = length - 1
    /\ UNCHANGED capacity

StealAddr(index) ==
    /\ data' = [i \in 0 .. length - 2 |-> IF i < index THEN data[i] ELSE data[i + 1]]
    /\ length' = length - 1
    /\ UNCHANGED capacity

(* qsort() leaves some rearrangement of the elements that is in order.     *)
Rearrangements ==
    {d \in {[i \in 0 .. length - 1 |-> data[f[i]]] :
              f \in Bijection(0 .. length - 1, 0 .. length - 1)} :
        InOrder(d, length)}

-----------------------------------------------------------------------------
Init ==
    /\ data = [i \in {} |-> NoPair]
    /\ length = 0
    /\ capacity = InitCapacity
    /\ sorted = FALSE /\ found = FALSE /\ exist = FALSE
    /\ pc = "idle"
    /\ op = "none" /\ key \in Key /\ pair = NoPair
    /\ low = 0 /\ cur = 0 /\ high = 0
    /\ owner = [p \in Pair |-> "caller"]
    /\ reply = [op |-> "none", pair |-> NoPair]

(* Entering sq_array_find_sorted().                                        *)
BeginSearch(o, k, p) ==
    /\ pc = "idle"
    /\ pc' = "probe"
    /\ op' = o /\ key' = k /\ pair' = p
    /\ low' = 0 /\ cur' = 0 /\ high' = length
    /\ UNCHANGED <<length, capacity, found, exist, owner, reply>>

(* A slip: the array still counts as sorted after an append.               *)
AddStaysSorted(p) ==
    /\ pc = "idle"
    /\ ~CheckIfKeyExist
    /\ owner[p] = "caller"
    /\ AllocAt(length, p)
    /\ owner' = [owner EXCEPT ![p] = "pairs"]
    /\ reply' = [op |-> "add", pair |-> NoPair]
    /\ UNCHANGED <<bits, pc, call, window>>

(* sq_pairs_add() of the default build appends.                            *)
AddUnchecked(p) ==
    /\ pc = "idle"
    /\ ~CheckIfKeyExist
    /\ owner[p] = "caller"
    /\ AllocAt(length, p)
    /\ sorted' = FALSE
    /\ owner' = [owner EXCEPT ![p] = "pairs"]
    /\ reply' = [op |-> "add", pair |-> NoPair]
    /\ UNCHANGED <<found, exist, pc, call, window>>

AddChecked(p) ==
    /\ CheckIfKeyExist
    /\ owner[p] = "caller"
    /\ BeginSearch("add", KeyOf[p], p)
    /\ UNCHANGED <<data, sorted>>

(* sq_pairs_get(), sq_pairs_erase() and sq_pairs_steal() start by sorting  *)
(* what was appended since the last search.                                *)
Find(o, k) ==
    /\ BeginSearch(o, k, NoPair)
    /\ IF CheckIfKeyExist \/ sorted
       THEN UNCHANGED <<data, sorted>>
       ELSE data' \in Rearrangements /\ sorted' = TRUE

-----------------------------------------------------------------------------
(* One iteration of the loop in sq_array_find_sorted(), by its outcome.    *)

Middle == low + ((high - low) \div 2)

Probe ==
    /\ pc = "probe"
    /\ low < high
    /\ cur' = Middle
    /\ UNCHANGED <<array, bits, call, owner, reply>>

ProbeEqual ==
    /\ Probe
    /\ CompareFunc[key][KeyAt(Middle)] = 0
    /\ pc' = "found"
    /\ UNCHANGED <<low, high>>

ProbeLess ==
    /\ Probe
    /\ CompareFunc[key][KeyAt(Middle)] < 0
    /\ high' = Middle
    /\ UNCHANGED <<pc, low>>

(* A slip: the element just compared stays in the window.                  *)
ProbeGreaterKeeps ==
    /\ Probe
    /\ CompareFunc[key][KeyAt(Middle)] > 0
    /\ low' = Middle
    /\ UNCHANGED <<pc, high>>

ProbeGreater ==
    /\ Probe
    /\ CompareFunc[key][KeyAt(Middle)] > 0
    /\ low' = Middle + 1
    /\ UNCHANGED <<pc, high>>

(* A slip: the index of the last probe is taken for the inserting index.   *)
MissAtProbe ==
    /\ pc = "probe"
    /\ low >= high
    /\ pc' = "missed"
    /\ UNCHANGED <<array, bits, call, window, owner, reply>>

(* The window is empty: cur becomes the inserting index.                   *)
Miss ==
    /\ pc = "probe"
    /\ low >= high
    /\ cur' = IF cur < low THEN cur + 1 ELSE cur
    /\ pc' = "missed"
    /\ UNCHANGED <<array, bits, call, low, high, owner, reply>>

-----------------------------------------------------------------------------
(* The rest of each SqPairs call.  Its locals go away as it returns.       *)

Return(p) ==
    /\ pc' = "idle"
    /\ reply' = [op |-> op, pair |-> p]
    /\ op' = "none" /\ pair' = NoPair /\ UNCHANGED key
    /\ low' = 0 /\ cur' = 0 /\ high' = 0

Release(p, who) == owner' = [owner EXCEPT ![p] = who]

(* A slip: the pair that is replaced is not destroyed.                     *)
AddReplaceLeaks ==
    /\ pc = "found" /\ op = "add"
    /\ data' = [data EXCEPT ![cur] = pair]
    /\ owner' = [owner EXCEPT ![pair] = "pairs"]
    /\ exist' = TRUE
    /\ Return(data[cur])
    /\ UNCHANGED <<length, capacity, sorted, found>>

AddReplace ==
    /\ pc = "found" /\ op = "add"
    /\ data' = [data EXCEPT ![cur] = pair]
    /\ owner' = [owner EXCEPT ![data[cur]] = "destroyed", ![pair] = "pairs"]
    /\ exist' = TRUE
    /\ Return(data[cur])
    /\ UNCHANGED <<length, capacity, sorted, found>>

AddInsert ==
    /\ pc = "missed" /\ op = "add"
    /\ AllocAt(cur, pair)
    /\ Release(pair, "pairs")
    /\ exist' = FALSE
    /\ Return(NoPair)
    /\ UNCHANGED <<sorted, found>>

GetFound ==
    /\ pc = "found" /\ op = "get"
    /\ found' = TRUE
    /\ Return(data[cur])
    /\ UNCHANGED <<array, sorted, exist, owner>>

GetMissed ==
    /\ pc = "missed" /\ op = "get"
    /\ found' = FALSE
    /\ Return(NoPair)
    /\ UNCHANGED <<array, sorted, exist, owner>>

EraseFound ==
    /\ pc = "found" /\ op = "erase"
    /\ StealAddr(cur)
    /\ Release(data[cur], "destroyed")
    /\ Return(data[cur])
    /\ UNCHANGED bits

(* A slip: a stolen pair is destroyed as well.                             *)
StealDestroys ==
    /\ pc = "found" /\ op = "steal"
    /\ StealAddr(cur)
    /\ Release(data[cur], "destroyed")
    /\ Return(data[cur])
    /\ UNCHANGED bits

StealFound ==
    /\ pc = "found" /\ op = "steal"
    /\ StealAddr(cur)
    /\ Release(data[cur], "caller")
    /\ Return(data[cur])
    /\ UNCHANGED bits

RemoveMissed ==
    /\ pc = "missed" /\ op \in {"erase", "steal"}
    /\ Return(NoPair)
    /\ UNCHANGED <<array, bits, owner>>

(* sq_pairs_final() destroys what is stored; sq_array_final() drops the    *)
(* array, which can then only be initialised again.                        *)
Final ==
    /\ pc = "idle"
    /\ owner' = [p \in Pair |->
                    IF \E i \in 0 .. length - 1 : data[i] = p THEN "destroyed" ELSE owner[p]]
    /\ data' = [i \in {} |-> NoPair]
    /\ length' = 0
    /\ pc' = "final"
    /\ reply' = [op |-> "final", pair |-> NoPair]
    /\ UNCHANGED <<capacity, bits, call, window>>

Reinit ==
    /\ pc = "final"
    /\ capacity' = InitCapacity
    /\ sorted' = FALSE /\ found' = FALSE /\ exist' = FALSE
    /\ pc' = "idle"
    /\ UNCHANGED <<data, length, call, window, owner, reply>>

-----------------------------------------------------------------------------
Search == ProbeEqual \/ ProbeLess \/ ProbeGreater \/ Miss

Finish ==
    \/ AddReplace \/ AddInsert \/ GetFound \/ GetMissed
    \/ EraseFound \/ StealFound \/ RemoveMissed

Next ==
    \/ \E p \in Pair : AddUnchecked(p) \/ AddChecked(p)
    \/ \E k \in Key, o \in {"get", "erase", "steal"} : Find(o, k)
    \/ Search
    \/ Finish
    \/ Final
    \/ Reinit

Spec == Init /\ [][Next]_vars

(* A call, once entered, runs to its end.                                  *)
FairSpec == Spec /\ WF_vars(Search \/ Finish)

-----------------------------------------------------------------------------
(* Properties.                                                             *)

Searching == pc \in {"probe", "found", "missed"}

TypeOK ==
    /\ length \in Nat
    /\ data \in [0 .. length - 1 -> Pair]
    /\ capacity \in Nat
    /\ sorted \in BOOLEAN /\ found \in BOOLEAN /\ exist \in BOOLEAN
    /\ pc \in {"idle", "probe", "found", "missed", "final"}
    /\ op \in {"none", "add", "get", "erase", "steal"}
    /\ key \in Key
    /\ pair \in Pair \cup {NoPair}
    /\ low \in Nat /\ cur \in Nat /\ high \in Nat
    /\ owner \in [Pair -> {"caller", "pairs", "destroyed"}]
    /\ reply \in [op : {"none", "add", "get", "erase", "steal", "final"},
                  pair : Pair \cup {NoPair}]

(* The elements never outgrow the memory allocated for them, however small *)
(* the first allocation was (sq_array_alloc_at).                           *)
FitsCapacity == length <= capacity

(* Whenever a search may look at the array, the array is in order: the     *)
(* SORTED bit never survives an unsorted append, and in the checked build  *)
(* every insertion lands where it keeps the order, with no key twice.      *)
InOrderForSearch ==
    CheckIfKeyExist \/ sorted \/ Searching => InOrder(data, length)

(* A search that gives up has not overlooked the key, and the index it     *)
(* hands back splits the array into the smaller and the larger keys, which *)
(* is where sq_array_alloc_at() must open the gap.                         *)
MissIsInsertingIndex ==
    pc = "missed" =>
        /\ cur <= length
        /\ \A i \in 0 .. cur - 1 : CompareFunc[key][KeyAt(i)] > 0
        /\ \A i \in cur .. length - 1 : CompareFunc[key][KeyAt(i)] < 0

(* A pair is the array's to release exactly while the array holds it, and  *)
(* the array holds it once: nothing leaks and nothing is destroyed twice.  *)
HeldOnce ==
    /\ \A p \in Pair : owner[p] = "pairs" <=> \E i \in 0 .. length - 1 : data[i] = p
    /\ \A i, j \in 0 .. length - 1 : i # j => data[i] # data[j]

(* Every probe at least halves the window of sq_array_find_sorted(), so a  *)
(* search of n elements takes at most about log2(n) comparisons.           *)
HalvesWindow ==
    [][pc = "probe" /\ pc' = "probe" => 2 * (high' - low') <= high - low]_vars

(* Every search ends and the call returns to its caller.                   *)
CallsReturn == Searching ~> pc = "idle"

(* Seen by the caller, an SqPairs behaves like the multimap PairsMap.      *)
Map == INSTANCE PairsMap
ImplementsMap == Map!Spec
=============================================================================
