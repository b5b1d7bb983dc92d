---------------------------- MODULE MCContextIndex ----------------------------
EXTENDS ContextIndex, TLC
CONSTANTS t1, f1, f2, a, b
MCTplOf == [f \in Forms |-> t1]
Perms == Permutations(Forms) \cup Permutations(Editors)
===============================================================================
