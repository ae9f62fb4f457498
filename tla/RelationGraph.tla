---------------------------- MODULE RelationGraph ---------------------------
(***************************************************************************)
(* What SqRelation promises to those who migrate a schema: for every       *)
(* object the list of the objects it is related to, the latest first, and  *)
(* that whoever frees an object finds every list it is in.  Objects are    *)
(* tables, columns and their records, which come and go, and the hubs      *)
(* SQ_TYPE_REENTRY, SQ_TYPE_UNSYNCED and SQ_TYPE_TRACING, which are always *)
(* there.  SqRelation implements this with sorted nodes and a pool of      *)
(* cells.                                                                  *)
(***************************************************************************)
EXTENDS Integers, Sequences, Functions

CONSTANTS
    Object,
    Hub,            \* those that are never freed
    Reentry,        \* SQ_TYPE_REENTRY
    Unsynced,       \* SQ_TYPE_UNSYNCED
    NoObject,       \* NULL
    MaxRelated      \* a bound on the length of a list

ASSUME HubAssumption ==
    /\ Hub \subseteq Object
    /\ Reentry \in Hub /\ Unsynced \in Hub /\ Reentry # Unsynced
    /\ NoObject \notin Object
    /\ MaxRelated \in Nat

Plain == Object \ Hub

VARIABLES
    related,    \* related[o]: what o is related to
    dead        \* the objects that were freed and not allocated again

graph == <<related, dead>>

Lists(o, p) == p \in Range(related[o])

(* SelectSeq, in a form that can be reasoned about.                        *)
Without(list, gone) ==
    LET kept[n \in 0 .. Len(list)] ==
            IF n = 0 THEN <<>>
            ELSE IF list[n] \in gone THEN kept[n - 1]
            ELSE Append(kept[n - 1], list[n])
    IN  kept[Len(list)]

Renamed(list, old, new) == [i \in DOMAIN list |-> IF list[i] = old THEN new ELSE list[i]]

-----------------------------------------------------------------------------
Init ==
    /\ related = [o \in Object |-> <<>>]
    /\ dead = {}

(* Relate a and b to each other.  Two objects are related once: the        *)
(* callers look before they add, or the object is new.  No caller relates  *)
(* an object to itself or a hub to a hub.                                  *)
Add(a, b) ==
    /\ a # b
    /\ ~Lists(a, b)
    /\ a \in Plain => ~Lists(b, a)
    /\ Len(related[a]) < MaxRelated /\ Len(related[b]) < MaxRelated
    /\ dead' = dead \ {a, b}
    /\ related' = [related EXCEPT ![a] = <<b>> \o @, ![b] = <<a>> \o @]

(* A slip: the others keep what they list.                                 *)
ErasedHere(a, gone) == [related EXCEPT ![a] = Without(@, gone)]

(* Take what is gone from a's list, and a from theirs.                     *)
ErasedBothWays(a, gone) ==
    [o \in Object |->
        IF o = a THEN Without(related[a], gone)
        ELSE IF o \in gone THEN Without(related[o], {a})
        ELSE related[o]]

Erase(a, b) ==
    LET gone == {o \in Range(related[a]) : o = b \/ b = NoObject}
    IN  /\ gone # {}
        /\ related' = ErasedBothWays(a, gone)
        /\ UNCHANGED dead

(* The records of what went away, except those still to be synchronized.   *)
Records == Range(related[Reentry]) \ Range(related[Unsynced])

(* What was dropped is related to its hubs and to the records of its       *)
(* renamings only.                                                         *)
Dropped ==
    {o \in Range(related[Unsynced]) :
        \A p \in Object \ (Records \cup {Reentry, Unsynced}) : ~Lists(p, o)}

(* A slip: one that was dropped is freed while others still list it.        *)
EraseAllDropped(synced) ==
    LET emptied == Records \cup {Reentry} \cup (IF synced THEN {Unsynced} ELSE {})
    IN  /\ related' = [o \in Object |->
                          IF o \in emptied THEN <<>> ELSE Without(related[o], Records)]
        /\ dead' = dead \cup Records \cup Range(related[Unsynced])

(* Free the records, and with them what was dropped once that is           *)
(* synchronized.                                                           *)
EraseRecords(synced) ==
    LET emptied == Records \cup {Reentry} \cup (IF synced THEN {Unsynced} ELSE {})
    IN  /\ related' = [o \in Object |->
                          IF o \in emptied THEN <<>> ELSE Without(related[o], Records)]
        /\ \E gone \in SUBSET Dropped :
              /\ ~synced => gone = {}
              /\ dead' = dead \cup Records \cup gone

ReplacedBothWays(old, new) ==
    LET both == related[old] \o related[new]
    IN  [o \in Object |->
            IF o = new THEN both
            ELSE IF o = old THEN <<>>
            ELSE IF o \in Range(both) THEN Renamed(related[o], old, new)
            ELSE related[o]]

(* new takes the place of old in every list, and old is freed.  Callers    *)
(* have related new to a hub at most, and to one that old is not related   *)
(* to.                                                                     *)
Replace(old, new) ==
    /\ old # new
    /\ related[old] # <<>>
    /\ ~Lists(old, new) /\ ~Lists(new, old)
    /\ \A h \in Hub : ~(Lists(h, old) /\ Lists(h, new))
    /\ Len(related[old]) + Len(related[new]) <= MaxRelated
    /\ related' = ReplacedBothWays(old, new)
    /\ dead' = (dead \cup {old}) \ {new}

Clear ==
    /\ related' = [o \in Object |-> <<>>]
    /\ UNCHANGED dead

Next ==
    \/ \E a \in Object, b \in Plain : Add(a, b)
    \/ \E a \in Object, b \in Object \cup {NoObject} : Erase(a, b)
    \/ \E synced \in BOOLEAN : EraseRecords(synced)
    \/ \E old, new \in Plain : Replace(old, new)
    \/ Clear

Spec == Init /\ [][Next]_graph

-----------------------------------------------------------------------------
(* Properties.                                                             *)

GraphTypeOK ==
    /\ related \in [Object -> Seq(Object)]
    /\ dead \subseteq Plain

(* No object is related to itself: sq_relation_erase(), which calls itself *)
(* for what it finds in the list it walks, would free it in the walk.      *)
NoSelfRelation == \A o \in Object : ~Lists(o, o)

(* Whoever lists an object that can be freed is listed by it: the reverse  *)
(* references lead to every place an object has to be taken from.          *)
Mutual == \A a \in Object, o \in Plain : Lists(a, o) => Lists(o, a)

(* No list leads to an object that was freed, and what such an object      *)
(* leaves behind, for the next one at its address, leads to hubs only.     *)
FreedIsForgotten ==
    \A o \in dead :
        /\ \A a \in Object : ~Lists(a, o)
        /\ Range(related[o]) \subseteq Hub
=============================================================================
