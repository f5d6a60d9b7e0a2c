----------------------------- MODULE MCTrimScan ----------------------------
EXTENDS TrimScan, TLC

Symmetry == Permutations(Users)
=============================================================================
