SPECIFICATION Spec
CONSTANTS
    Profiles = {user, other}
    Default = user
    Folders = {here, there}
    Home = here
    Templates = {a, b}
    Stocked = {here}
    Threads = {g1, g2}
    None = None
    Unset = Unset
    MaxCalls = 3
    Failures = {"read", "write", "point", "copy", "list", "migrate", "resolve"}
    Exposed = {}
INVARIANT NoLostUpdate
INVARIANT JournalFollows
INVARIANT ActiveStays
PROPERTY CurationKept
INVARIANT NeverStuck
SYMMETRY Symmetry
\* the calls are bounded, then nothing is left to do
CHECK_DEADLOCK FALSE
