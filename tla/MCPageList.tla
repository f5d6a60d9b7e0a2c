---------------------------- MODULE MCPageList -----------------------------
EXTENDS PageList, TLC

Symmetry == Permutations(Pages) \cup Permutations(Faulters)

\* Nothing is claimed of a list after a thread has overtaken another one; the run
\* ends there.
InOrder == ~overtaken
=============================================================================
