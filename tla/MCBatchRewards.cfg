SPECIFICATION BatchSpec
CONSTANTS
    LastRound = 3
    FutureRounds = 2
    BatchSize = 2
    Workers = {w1, w2}
    None = None
    Unfixed = Unfixed
    MaxKills = 2
    MaxRuns = 2
INVARIANTS
    ClaimsOfRightRandom
    FilesConsistent
    UndisturbedRunComplete
PROPERTIES
    EpochDone
    KeepsLedger
CHECK_DEADLOCK FALSE
