CONSTANTS
    Voters = {a}
    Eligible = {a}
    Values = {x}
    Junk = Junk
    FirstStart = 1
    RoundLength = 2
    RevealDeadline = 1
    Timeout = 1
    KeepsHistory = FALSE
    MaxTime = 7
    MaxTxs = 2
    BenchingWindow = 1
    MinRevealers = 1
    FirstEpochStart = 0
    FirstEpochEnd = 1
    AskedRounds = {1}
    NoReply = NoReply
SPECIFICATION Spec
INVARIANT ResultFinal
