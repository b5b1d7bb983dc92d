\* One template with two forms; form operations and rescans run beside each other.
SPECIFICATION Spec
CONSTANTS
    t1 = t1
    f1 = f1
    f2 = f2
    a = a
    b = b
    Templates = {t1}
    Forms = {f1, f2}
    TplOf <- MCTplOf
    Editors = {a, b}
    MaxWrites = 3
    Overlap = {"form"}
    Externals = {"broken"}
SYMMETRY Perms
INVARIANT TypeInv
INVARIANT IndexReflectsDisk
INVARIANT DeckShowsForms
\* the writes of the model run out
CHECK_DEADLOCK FALSE
