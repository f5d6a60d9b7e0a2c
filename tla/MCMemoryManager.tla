-------------------------- MODULE MCMemoryManager --------------------------
(* TLC instances of MemoryManager: interchangeable threads, pages, frames  *)
(* and slots.                                                              *)
EXTENDS MemoryManagerInvariant, TLC

Symmetry == Permutations(Users) \cup Permutations(Ptes) \cup Permutations(Frames)
            \cup Permutations(Slots)
=============================================================================
