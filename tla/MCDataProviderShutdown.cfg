SPECIFICATION FairSpec
CONSTANTS
    Addresses = {a1, a2}
    Calls = {c1, c2}
    CacheSize = 4
    MaxRound = 2
    MaxDraws = 3
    MaxRestarts = 1
    ClientTimeouts = FALSE
    TimelyClient = TRUE
INVARIANTS
    AnsweredRoundsTracked
PROPERTIES
    ShutdownCompletes
CHECK_DEADLOCK FALSE
