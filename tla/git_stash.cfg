\* A record and another file, two edits, two versions; any step may fail, and saves,
\* sweeps and crashes come between the steps of a pull.
SPECIFICATION Spec
CONSTANTS
    Paths = {rec, doc}
    RecordFiles = {rec}
    MaxEdits = 2
    MaxVersions = 2
    SelfCloned = TRUE
    Disturbances = {"save", "sweep", "crash", "restore", "undo"}
INVARIANT EditsKept
INVARIANT NoStaleStash
PROPERTY PullSettles
\* the edits and the versions of the model run out
CHECK_DEADLOCK FALSE
