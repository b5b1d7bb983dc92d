\* Calls that stop half-way, answers that are lost, a folder that never met the server.
SPECIFICATION FairSpec
CONSTANTS
    Clients = {c1, c2}
    Paths = {rec}
    Records = {rec}
    NotWiped = {}
    Absent = Absent
    MaxEdits = 2
    MaxVersion = 3
    Answers = {"all", "pushed", "blank"}
    Faults = TRUE
    Joiners = {c2}
    Buttons = {"push", "reclone"}
INVARIANT NothingFalselySynced
PROPERTY CallsEnd
\* the edits and the versions of the model run out
CHECK_DEADLOCK FALSE
