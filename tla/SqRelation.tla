----------------------------- MODULE SqRelation -----------------------------
(***************************************************************************)
(* SqRelation and SqRelationPool (SqRelation.c) with the two operations    *)
(* that the migration adds to them (SqRelation-migration.c).  A relation   *)
(* is an array of nodes, sorted by the address of their object; a node     *)
(* holds the object and the first of a linked list of cells from the pool, *)
(* each naming one object it is related to.                                *)
(*                                                                         *)
(* An object is its address.  The chunks that the pool allocates its cells *)
(* in are abstracted.  A pointer to a cell is its number, a pointer into   *)
(* the array of nodes its negated index, NULL is 0.                        *)
(***************************************************************************)
EXTENDS Integers, SequencesExt

CONSTANTS
    Object, Hub, Reentry, Unsynced,
    IntMax,             \* INT_MAX: addresses are compared as an int
    InitCapacity,       \* SQ_CONFIG_TABLE_RELATION_SIZE
    MaxCells,           \* a bound on the cells in the pool
    MaxAdds,            \* a bound on the calls of sq_relation_add()
    OnlySafeReplace     \* is sq_relation_replace() called only where its
                        \* pointers into the array stay valid?

NULL == 0

ASSUME AddressAssumption ==
    /\ Object \subseteq Nat \ {NULL}
    /\ Hub \subseteq Object
    /\ Reentry \in Hub /\ Unsynced \in Hub /\ Reentry # Unsynced
ASSUME SizeAssumption ==
    /\ IntMax \in Nat /\ InitCapacity \in Nat /\ MaxCells \in Nat /\ MaxAdds \in Nat
    /\ OnlySafeReplace \in BOOLEAN

Plain == Object \ Hub

VARIABLES
    heap,       \* the nodes and the pool
    dead,       \* the objects that were freed and not allocated again
    adds        \* the calls of sq_relation_add() so far

vars == <<heap, dead, adds>>

EmptyHeap ==
    [node      |-> <<>>,
     capacity  |-> InitCapacity,
     cell      |-> [c \in 1 .. MaxCells |-> [object |-> NULL, next |-> NULL]],
     allocated |-> 0,
     freed     |-> NULL,
     n_freed   |-> 0,
     n_used    |-> 0]

NextOf(h, p) == IF p < 0 THEN h.node[-p].next ELSE h.cell[p].next

SetNext(h, p, q) ==
    IF p < 0 THEN [h EXCEPT !.node[-p].next = q] ELSE [h EXCEPT !.cell[p].next = q]

(* The cells that a pointer leads to, one after the other.                 *)
Chain(h, first) ==
    LET walk[at \in [left : 0 .. MaxCells, p : 0 .. MaxCells]] ==
            IF at.left = 0 \/ at.p = NULL THEN <<>>
            ELSE <<at.p>> \o walk[[left |-> at.left - 1, p |-> h.cell[at.p].next]]
    IN  walk[[left |-> MaxCells, p |-> first]]

List(h, i) == Chain(h, h.node[i].next)

-----------------------------------------------------------------------------
(* SqRelationPool: a freed cell is used again before a new one.  What it   *)
(* still names is never read; it is cleared here.                          *)

PoolTop(h) == IF h.freed # NULL THEN h.freed ELSE h.allocated + 1

PoolTaken(h) ==
    IF h.freed # NULL
    THEN [h EXCEPT !.freed = h.cell[h.freed].next, !.n_freed = @ - 1, !.n_used = @ + 1]
    ELSE [h EXCEPT !.allocated = @ + 1, !.n_used = @ + 1]

PoolFree(h, c) ==
    [h EXCEPT !.cell[c] = [object |-> NULL, next |-> h.freed], !.freed = c,
              !.n_freed = @ + 1, !.n_used = @ - 1]

-----------------------------------------------------------------------------
(* The sorted array of nodes.                                              *)

IntRange == 2 * (IntMax + 1)

(* A slip: the difference is taken as unsigned.                            *)
CompareUnsigned(a, b) == (a - b) % IntRange

(* The difference of two addresses, cut down to an int.                    *)
Compare(a, b) ==
    LET d == (a - b) % IntRange
    IN  IF d <= IntMax THEN d ELSE d - IntRange

(* The indices that a search has not ruled out.                            *)
Middle(s) == s.low + (s.high - s.low) \div 2
Lower(s) == [low |-> s.low, cur |-> Middle(s), high |-> Middle(s)]
Upper(s) == [low |-> Middle(s) + 1, cur |-> Middle(s), high |-> s.high]

(* sq_array_find_sorted(): where an object is, or where it belongs.        *)
Find(h, o) ==
    LET n == Len(h.node)
        diff(s) == Compare(o, h.node[Middle(s) + 1].object)
        search[s \in [low : 0 .. n, cur : 0 .. n, high : 0 .. n]] ==
            IF s.low >= s.high
            THEN [found |-> FALSE, index |-> 1 + (IF s.cur < s.low THEN s.cur + 1 ELSE s.cur)]
            ELSE IF diff(s) = 0 THEN [found |-> TRUE, index |-> Middle(s) + 1]
            ELSE search[IF diff(s) < 0 THEN Lower(s) ELSE Upper(s)]
    IN  search[[low |-> 0, cur |-> 0, high |-> n]]

(* sq_array_alloc_at(): the new slot still holds what it held.             *)
SlotAt(h, i) ==
    LET n == Len(h.node)
        stale == IF i <= n THEN h.node[i] ELSE [object |-> NULL, next |-> NULL]
    IN  [h EXCEPT !.node = InsertAt(h.node, i, stale),
                  !.capacity = IF @ > n THEN @ ELSE IF 2 * @ > n THEN 2 * @ ELSE 2 * (n + 1)]

(* The node of an object, made if there is none.                           *)
WithNode(h, o) ==
    LET at == Find(h, o)
    IN  IF at.found THEN [heap |-> h, index |-> at.index]
        ELSE [heap  |-> [SlotAt(h, at.index) EXCEPT
                            !.node[at.index] = [object |-> o, next |-> NULL]],
              index |-> at.index]

(* The objects that an object is related to, and so for all objects.       *)
Related(h, o) ==
    LET at == Find(h, o)
        list == IF at.found THEN List(h, at.index) ELSE <<>>
    IN  [i \in DOMAIN list |-> h.cell[list[i]].object]

Lists(h) == [o \in Object |-> Related(h, o)]

-----------------------------------------------------------------------------
(* Cells of one node.                                                      *)

Prepend(h, i, o) ==
    LET c == PoolTop(h)
    IN  [PoolTaken(h) EXCEPT !.cell[c] = [object |-> o, next |-> h.node[i].next],
                             !.node[i].next = c]

Unlinked(h, prev, c) == PoolFree(SetNext(h, prev, NextOf(h, c)), c)

(* A round of the loop over a list, at cell c, with the heap as it is      *)
(* after what has to be done before a cell that hits is freed.             *)
Visited(at, c, gone, before) ==
    IF at.heap.cell[c].object \in gone THEN [at EXCEPT !.heap = Unlinked(before, at.prev, c)]
    ELSE [at EXCEPT !.prev = c]

Swept(h, i, gone) ==
    LET cells == List(h, i)
        sweep[k \in 0 .. Len(cells)] ==
            IF k = 0 THEN [heap |-> h, prev |-> -i]
            ELSE Visited(sweep[k - 1], cells[k], gone, sweep[k - 1].heap)
    IN  sweep[Len(cells)].heap

(* sq_relation_erase() with no_reverse = 1, 0 and -1: the reverse          *)
(* references stay, go, or go with all others of what is freed.            *)
EraseOneWay(h, a, gone) ==
    LET at == Find(h, a)
    IN  IF at.found THEN Swept(h, at.index, gone) ELSE h

(* o taken from the list of what a cell names.                             *)
Unrelated(h, c, o) == EraseOneWay(h, h.cell[c].object, {o})

SweptBothWays(h, i, gone) ==
    LET cells == List(h, i)
        sweep[k \in 0 .. Len(cells)] ==
            IF k = 0 THEN [heap |-> h, prev |-> -i]
            ELSE Visited(sweep[k - 1], cells[k], gone,
                         Unrelated(sweep[k - 1].heap, cells[k], h.node[i].object))
    IN  sweep[Len(cells)].heap

EraseBothWays(h, a, gone) ==
    LET at == Find(h, a)
    IN  IF at.found THEN SweptBothWays(h, at.index, gone) ELSE h

(* What a cell names is freed: no list names it, o's apart.                *)
Isolated(h, c, o) == EraseBothWays(Unrelated(h, c, o), h.cell[c].object, Object)

SweptAndFreed(h, i) ==
    LET cells == List(h, i)
        sweep[k \in 0 .. Len(cells)] ==
            IF k = 0 THEN [heap |-> h, prev |-> -i]
            ELSE Visited(sweep[k - 1], cells[k], Object,
                         Isolated(sweep[k - 1].heap, cells[k], h.node[i].object))
    IN  sweep[Len(cells)].heap

EraseAndFree(h, a) ==
    LET at == Find(h, a)
    IN  IF at.found THEN SweptAndFreed(h, at.index) ELSE h

(* sq_relation_exclude() takes from a's list what b's list has as well.    *)
Exclude(h, a, b) == EraseOneWay(h, a, Range(Related(h, b)))

(* sq_relation_erase_unsynced() leaves the reverse references alone.       *)
EraseUnsynced(h) == EraseOneWay(h, Unsynced, Object)

(* The cells of a node are freed in the order of its list, as all of them  *)
(* are by sq_relation_erase().                                             *)
Cleared(h) ==
    LET cleared[i \in 0 .. Len(h.node)] ==
            IF i = 0 THEN h ELSE Swept(cleared[i - 1], i, Object)
    IN  cleared[Len(h.node)]

RemoveEmptyNodes(h) ==
    LET kept[n \in 0 .. Len(h.node)] ==
            IF n = 0 THEN <<>>
            ELSE IF h.node[n].next = NULL THEN kept[n - 1]
            ELSE Append(kept[n - 1], h.node[n])
    IN  [h EXCEPT !.node = kept[Len(h.node)]]

-----------------------------------------------------------------------------
(* sq_relation_replace()                                                   *)

(* A slip: the list of the new object goes in front.                       *)
AppendedInFront(h, i, j) ==
    LET cells == List(h, j)
        g == SetNext(h, cells[Len(cells)], h.node[i].next)
    IN  IF cells = <<>> THEN h ELSE [g EXCEPT !.node[i].next = h.node[j].next]

(* Both nodes exist: the list of the new one goes behind that of the old.  *)
Appended(h, i, j) ==
    LET cells == List(h, i)
        last == IF cells = <<>> THEN -i ELSE cells[Len(cells)]
    IN  IF h.node[j].next = NULL THEN h ELSE SetNext(h, last, h.node[j].next)

(* The node at j takes over the list that rnode, a pointer to slot i,      *)
(* leads to.                                                               *)
TakenOver(h, i, j, new) ==
    LET g == [h EXCEPT !.node[j] = [object |-> new, next |-> h.node[i].next]]
    IN  [g EXCEPT !.node[i].next = NULL]

(* realloc() moved the array: rnode reads and writes what was freed.       *)
TakenOverMoved(h, g, i, j, new) ==
    [g EXCEPT !.node[j] = [object |-> new, next |-> h.node[i].next]]

(* The new object in the lists of those that the node at j is related to.  *)
RenamedIn(h, j, old, new) ==
    LET others == {h.cell[c].object : c \in Range(List(h, j))}
        cells(o) == IF Find(h, o).found THEN Range(List(h, Find(h, o).index)) ELSE {}
        renamed == {c \in UNION {cells(o) : o \in others} : h.cell[c].object = old}
    IN  [h EXCEPT !.cell = [c \in DOMAIN h.cell |->
                               IF c \in renamed THEN [h.cell[c] EXCEPT !.object = new] ELSE h.cell[c]]]

Replaced(h, old, new) ==
    LET i == Find(h, old).index
        j == Find(h, new).index
        g == SlotAt(h, j)
        moved == IF Len(h.node) < h.capacity THEN {}
                 ELSE {TakenOverMoved(h, g, i, j, new)}
        taken == IF Find(h, new).found THEN {TakenOver(Appended(h, i, j), i, j, new)}
                 ELSE {TakenOver(g, i, j, new)} \cup moved
    IN  {RenamedIn(t, j, old, new) : t \in taken}

(* The pointers that sq_relation_replace() holds are valid when it uses    *)
(* them: no node is made, or one behind the old one without a realloc().   *)
ReplaceIsSafe(h, old, new) ==
    \/ Find(h, new).found
    \/ Find(h, new).index > Find(h, old).index /\ Len(h.node) < h.capacity

-----------------------------------------------------------------------------
Init ==
    /\ heap = EmptyHeap
    /\ dead = {}
    /\ adds = 0

(* Two objects are related once: the callers look before they add, or the  *)
(* object is new.  No caller relates an object to itself or hubs to hubs.  *)
Add(a, b) ==
    /\ a # b
    /\ b \notin Range(Related(heap, a))
    /\ a \in Plain => a \notin Range(Related(heap, b))
    /\ heap.n_used + 2 <= MaxCells
    /\ adds < MaxAdds
    /\ adds' = adds + 1
    /\ LET f == WithNode(heap, a)
           t == WithNode(Prepend(f.heap, f.index, b), b)
       IN  heap' = Prepend(t.heap, t.index, a)
    /\ dead' = dead \ {a, b}

(* Where there is nothing to erase, nothing changes.                       *)
Erase(a, b) ==
    /\ \E o \in Range(Related(heap, a)) : o = b \/ b = NULL
    /\ heap' = EraseBothWays(heap, a, IF b = NULL THEN Object ELSE {b})
    /\ UNCHANGED <<dead, adds>>

(* What was dropped is related to its hubs and to the records of its       *)
(* renamings only.                                                         *)
Dropped(h, records) ==
    LET lists == Lists(h)
    IN  {o \in Range(lists[Unsynced]) :
            \A p \in Object \ (records \cup {Reentry, Unsynced}) : o \notin Range(lists[p])}

(* sq_schema_erase_records() and sq_table_erase_records(), '?' and '='.    *)
EraseRecords(synced) ==
    LET records == Range(Related(heap, Reentry)) \ Range(Related(heap, Unsynced))
        erased == EraseAndFree(Exclude(heap, Reentry, Unsynced), Reentry)
    IN  \E dropped \in SUBSET Dropped(heap, records) :
            /\ ~synced => dropped = {}
            /\ heap' = RemoveEmptyNodes(IF synced THEN EraseUnsynced(erased) ELSE erased)
            /\ dead' = dead \cup records \cup dropped
    /\ UNCHANGED adds

(* The callers replace an object by a new one that they have at most       *)
(* related to a hub the old one is not related to, and free the old one.   *)
Replace(old, new) ==
    /\ old # new
    /\ LET lists == Lists(heap)
       IN  /\ lists[old] # <<>>
           /\ new \notin Range(lists[old]) /\ old \notin Range(lists[new])
           /\ \A h \in Hub : ~({old, new} \subseteq Range(lists[h]))
    /\ OnlySafeReplace => ReplaceIsSafe(heap, old, new)
    /\ heap' \in Replaced(heap, old, new)
    /\ dead' = (dead \cup {old}) \ {new}
    /\ UNCHANGED adds

(* A slip: the nodes keep their lists.                                     *)
ClearKeepsHeads ==
    /\ heap' = FoldLeft(PoolFree, heap, FlattenSeq([i \in DOMAIN heap.node |-> List(heap, i)]))
    /\ UNCHANGED <<dead, adds>>

Clear ==
    /\ heap' = Cleared(heap)
    /\ UNCHANGED <<dead, adds>>

RemoveEmpty ==
    /\ heap' = RemoveEmptyNodes(heap)
    /\ UNCHANGED <<dead, adds>>

Next ==
    \/ \E a \in Object, b \in Plain : Add(a, b)
    \/ \E a \in Object, b \in Object \cup {NULL} : Erase(a, b)
    \/ \E synced \in BOOLEAN : EraseRecords(synced)
    \/ \E old, new \in Plain : Replace(old, new)
    \/ Clear
    \/ RemoveEmpty

Spec == Init /\ [][Next]_vars

-----------------------------------------------------------------------------
(* Properties.                                                             *)

Cell == 1 .. MaxCells

TypeOK ==
    /\ heap.node \in Seq([object : Object, next : Cell \cup {NULL}])
    /\ heap.cell \in [Cell -> [object : Object \cup {NULL}, next : Cell \cup {NULL}]]
    /\ heap.capacity >= Len(heap.node)
    /\ heap.allocated \in 0 .. MaxCells
    /\ heap.freed \in 0 .. heap.allocated
    /\ heap.n_freed \in 0 .. MaxCells /\ heap.n_used \in 0 .. MaxCells
    /\ dead \subseteq Plain
    /\ adds \in 0 .. MaxAdds

(* Every cell the pool gave out is in the list of one node or among the    *)
(* freed ones, once, and the counters of the pool agree.                   *)
CellsOwnedOnce ==
    LET lists == [i \in 0 .. Len(heap.node) |->
                    IF i = 0 THEN Chain(heap, heap.freed) ELSE List(heap, i)]
    IN  /\ TypeOK
        /\ UNION {Range(lists[i]) : i \in DOMAIN lists} = 1 .. heap.allocated
        /\ \A i, j \in DOMAIN lists : \A k \in DOMAIN lists[i], l \in DOMAIN lists[j] :
              lists[i][k] = lists[j][l] => i = j /\ k = l
        /\ heap.n_freed = Len(lists[0])
        /\ heap.n_used = heap.allocated - heap.n_freed

(* "return NULL if relation not found" (SqRelation.h:73), and only then: a *)
(* node that is in the array is the one the search for its object finds.   *)
NodesAreFound ==
    \A i \in DOMAIN heap.node :
        Find(heap, heap.node[i].object) = [found |-> TRUE, index |-> i]

(* No list leads to an object that was freed, and what such an object      *)
(* leaves behind, for the next one at its address, leads to hubs only.     *)
FreedIsForgotten ==
    \A o \in dead :
        /\ \A i \in DOMAIN heap.node :
              \A c \in Range(List(heap, i)) : heap.cell[c].object # o
        /\ Range(Related(heap, o)) \subseteq Hub

(* The nodes and cells are the lists of RelationGraph.                     *)
Graph == INSTANCE RelationGraph WITH
    NoObject <- NULL,
    MaxRelated <- MaxCells,
    related <- Lists(heap)

ImplementsGraph == Graph!Spec
=============================================================================
