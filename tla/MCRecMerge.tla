------------------------------ MODULE MCRecMerge ------------------------------
EXTENDS RecMerge, TLC

Symmetry == Permutations(Members) \cup Permutations(Fields)
===============================================================================
