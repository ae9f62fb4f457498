-------------------------- MODULE MCRelationGraph --------------------------
(* The objects that come and go are interchangeable.                       *)
EXTENDS RelationGraph, TLC

CONSTANTS a, b, c

MCPlain == {a, b, c}
MCHub == {Reentry, Unsynced}
MCObject == MCPlain \cup MCHub
MCSymmetry == Permutations(MCPlain)
=============================================================================
