CONSTANTS
    Voters = {a, b}
    Eligible = {a, b}
    Values = {x, y}
    Junk = Junk
    FirstStart = 1
    RoundLength = 1
    RevealDeadline = 1
    Timeout = 0
    KeepsHistory = TRUE
    MaxTime = 4
    MaxTxs = 3
    BenchingWindow = 1
    MinRevealers = 1
    FirstEpochStart = 0
    FirstEpochEnd = 0
    AskedRounds = {1}
    NoReply = NoReply
SPECIFICATION Spec
INVARIANTS SecureRandom
SYMMETRY Symmetry
