\* Two members, one field and the meta block, four edits in two seconds.
SPECIFICATION Spec
CONSTANTS
    Members = {m1, m2}
    Fields = {f}
    Words = {w}
    MaxEdits = 4
    MaxClock = 2
    Missing = Missing
    Null = Null
INVARIANT MergeIsThreeWay
INVARIANT Symmetric
INVARIANT NoMixing
SYMMETRY Symmetry
\* the edits of the model run out
CHECK_DEADLOCK FALSE
