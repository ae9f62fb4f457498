------------------------- MODULE MCSqliteMigration -------------------------
EXTENDS SqliteMigration, TLC

CONSTANTS a, b, c

MCThree == {a, b, c}
MCSymmetry == Permutations(MCThree)
=============================================================================
