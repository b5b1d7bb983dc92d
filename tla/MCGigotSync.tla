----------------------------- MODULE MCGigotSync -----------------------------
EXTENDS GigotSync, TLC

Symmetry == Permutations(Clients)
=============================================================================
