------------------------------ MODULE MCJournal ------------------------------
EXTENDS Journal, TLC

Symmetry == Permutations(Procs) \cup Permutations(Paths)
=============================================================================
