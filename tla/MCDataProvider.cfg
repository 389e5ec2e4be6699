SPECIFICATION Spec
CONSTANTS
    Addresses = {a1}
    Calls = {c1, c2}
    CacheSize = 4
    MaxRound = 5
    MaxDraws = 6
    MaxRestarts = 1
    ClientTimeouts = FALSE
    TimelyClient = FALSE
INVARIANTS
    OpenCommitsCached
PROPERTIES
    RepeatedCommitUnchanged
    ImplementsCommitReveal
CHECK_DEADLOCK FALSE
