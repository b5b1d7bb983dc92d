\* Two goroutines, both backends, one restart or more.
SPECIFICATION Spec
CONSTANTS
    Procs = {g1, g2}
    Paths = {a}
    Backends = {git, gigot}
    None = None
    Start = 1
    MaxTime = 3
INVARIANT CursorBacked
INVARIANT PendingBacked
INVARIANT RestartTransparent
SYMMETRY Symmetry
\* the stamps of the model run out
CHECK_DEADLOCK FALSE
