------------------------------ MODULE MCWakeup -----------------------------
EXTENDS Wakeup, TLC

Symmetry == Permutations(Users)
=============================================================================
