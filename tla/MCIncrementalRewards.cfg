SPECIFICATION FairSpec
CONSTANTS
    StartRound = 1
    ExpectedEnd = 3
    RealEnds = {3, 4, 5}
    FutureRounds = 2
    ExtraRounds = 1
    BatchOffset = 1
    MaxRound = 9
    MaxStarts = 2
INVARIANTS
    StateConsistent
    AggregatesFresh
    ClaimsForSelectedFeed
    FinalClaimsShareOffers
PROPERTIES
    CalculationEnds
    PunctualEpochCompletes
CHECK_DEADLOCK FALSE
