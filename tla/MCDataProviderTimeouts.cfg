SPECIFICATION Spec
CONSTANTS
    Addresses = {a1}
    Calls = {c1, c2}
    CacheSize = 5
    MaxRound = 1
    MaxDraws = 3
    MaxRestarts = 0
    ClientTimeouts = TRUE
    TimelyClient = FALSE
SYMMETRY Symmetry
INVARIANTS
    RevealOpensCommit
CHECK_DEADLOCK FALSE
