\* Two members, no interruption, a server that answers with all it merged.
SPECIFICATION Spec
CONSTANTS
    Clients = {c1, c2}
    Paths = {rec, tpl}
    Records = {rec}
    NotWiped = {}
    Absent = Absent
    MaxEdits = 3
    MaxVersion = 4
    Answers = {"all"}
    Faults = FALSE
    Joiners = {}
    Buttons = {"push", "pull", "sync"}
INVARIANT PullGateSound
PROPERTY NoClobber
PROPERTY IsTeamStore
SYMMETRY Symmetry
\* the edits and the versions of the model run out
CHECK_DEADLOCK FALSE
