------------------------------ MODULE MCConfig ------------------------------
EXTENDS Config, TLC

Symmetry == Permutations(Threads)
=============================================================================
