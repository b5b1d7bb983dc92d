------------------------------ MODULE MCGitStash ------------------------------
EXTENDS GitStash, TLC
===============================================================================
