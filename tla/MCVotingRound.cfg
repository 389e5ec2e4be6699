CONSTANTS
    Voters = {a}
    Eligible = {a}
    Values = {x}
    Junk = Junk
    FirstStart = 1
    RoundLength = 2
    RevealDeadline = 1
    Timeout = 1
    KeepsHistory = TRUE
    MaxTime = 7
    MaxTxs = 2
    BenchingWindow = 1
    MinRevealers = 1
    FirstEpochStart = 0
    FirstEpochEnd = 1
    AskedRounds = {0, 1}
    NoReply = NoReply
SPECIFICATION FairSpec
INVARIANTS TypeOK ResultFinal CommitsFinal
PROPERTY EventuallyAnswered
