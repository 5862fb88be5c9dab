----------------------------- MODULE MCStateFile -----------------------------
EXTENDS StateFile, TLC

\* Processes and lists of paths are interchangeable: nothing chooses among them.
Symmetry == Permutations(Claimer) \cup Permutations(Paths)
=============================================================================
