SPECIFICATION Spec
CONSTANTS
    Addresses = {a1, a2}
    Calls = {c1, c2}
    CacheSize = 1
    MaxRound = 2
    MaxDraws = 3
    MaxRestarts = 1
    ClientTimeouts = TRUE
    TimelyClient = FALSE
SYMMETRY Symmetry
INVARIANTS
    OwnRandoms
CHECK_DEADLOCK FALSE
