\* One change of the password at a time, by itself; crashes outside the swap; renames that fail.
SPECIFICATION Spec
CONSTANTS
    Procs = {g1, g2}
    Names = {a, b}
    MaxKeys = 3
    MaxSets = 3
    Alone = {"rekey", "lock"}
    Crashes = {"list", "read", "clear", "stage", "old", "clean", "install"}
    Failures = {"old", "oldheader", "new", "newheader"}
INVARIANT HeldOpens
INVARIANT CrashLeavesAVault
PROPERTY IsStore
SYMMETRY Symmetry
\* the keys and the values of the model run out
CHECK_DEADLOCK FALSE
