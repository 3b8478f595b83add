---- MODULE MCExactlyOnceOrdered ----
EXTENDS ExactlyOnceOrdered, TLC

Symmetry == Permutations(Texts)
====
