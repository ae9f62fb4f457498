------------------------------ MODULE PairsMap ------------------------------
(***************************************************************************)
(* What SqPairs promises its caller: a multimap from keys to pairs that    *)
(* owns every pair handed to it until it gives the pair back (steal) or    *)
(* destroys it (erase, final, replacement of an equal key).                *)
(***************************************************************************)
EXTENDS Integers

CONSTANTS
    Key,                \* the keys of the pairs
    Pair,               \* the key/value pairs the caller can hand over
    KeyOf,              \* the key of each pair
    CheckIfKeyExist,    \* SQ_PAIRS_CHECK_IF_KEY_EXIST
    NoPair              \* NULL

VARIABLES
    owner,              \* who must release each pair
    reply               \* the last answer given to the caller

Stored(k) == {p \in Pair : owner[p] = "pairs" /\ KeyOf[p] = k}

Answer(op, p) == reply' = [op |-> op, pair |-> p]

Init ==
    /\ owner = [p \in Pair |-> "caller"]
    /\ reply = [op |-> "none", pair |-> NoPair]

(* The checked build destroys what it replaces; the default build keeps    *)
(* pairs of equal keys side by side.                                       *)
Add(p) ==
    /\ owner[p] = "caller"
    /\ owner' = [q \in Pair |->
                    IF q = p THEN "pairs"
                    ELSE IF CheckIfKeyExist /\ q \in Stored(KeyOf[p])
                         THEN "destroyed"
                         ELSE owner[q]]
    /\ IF CheckIfKeyExist /\ Stored(KeyOf[p]) # {}
       THEN \E q \in Stored(KeyOf[p]) : Answer("add", q)
       ELSE Answer("add", NoPair)

Get(k) ==
    /\ \/ \E p \in Stored(k) : Answer("get", p)
       \/ Stored(k) = {} /\ Answer("get", NoPair)
    /\ UNCHANGED owner

Erase(k) ==
    \/ \E p \in Stored(k) :
          /\ Answer("erase", p)
          /\ owner' = [owner EXCEPT ![p] = "destroyed"]
    \/ /\ Stored(k) = {}
       /\ Answer("erase", NoPair)
       /\ UNCHANGED owner

Steal(k) ==
    \/ \E p \in Stored(k) :
          /\ Answer("steal", p)
          /\ owner' = [owner EXCEPT ![p] = "caller"]
    \/ /\ Stored(k) = {}
       /\ Answer("steal", NoPair)
       /\ UNCHANGED owner

Final ==
    /\ owner' = [p \in Pair |-> IF owner[p] = "pairs" THEN "destroyed" ELSE owner[p]]
    /\ Answer("final", NoPair)

Next ==
    \/ \E p \in Pair : Add(p)
    \/ \E k \in Key : Get(k) \/ Erase(k) \/ Steal(k)
    \/ Final

Spec == Init /\ [][Next]_<<owner, reply>>
=============================================================================
