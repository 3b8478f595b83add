---------------------------- MODULE MCKvSharding ----------------------------
EXTENDS KvSharding, TLC

Symmetry == Permutations(Values)
=============================================================================
