---- MODULE MCAtLeastOnce ----
EXTENDS AtLeastOnce, TLC

Symmetry == Permutations(Texts)
====
