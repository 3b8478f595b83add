--------------------------- MODULE MCExactlyOnce ---------------------------
EXTENDS ExactlyOnce, TLC

Symmetry == Permutations(Texts)
=============================================================================
