------------------------- MODULE MCSchemaMigration -------------------------
(* Two names are swapped by way of a third: three names are enough to      *)
(* reuse any of them, and they are interchangeable.                        *)
EXTENDS SchemaMigration, TLC

CONSTANTS a, b, c

MCName == {a, b, c}
MCSymmetry == Permutations(MCName)
=============================================================================
