SPECIFICATION CalcSpec
CONSTANTS
    LastRound = 5
    MaxLength = 4
    MaxVoters = 3
    MaxWeight = 3
    MaxAmount = 7
    Lists <- MCLists
    WeightLists <- MCWeightLists
    Amounts <- MCAmounts
    SelectionWeights <- MCSelectionWeights
    SelectionBips = 5
    SelectionTotalBips = 10
    FeedChains <- MCFeedChains
    FirstFeedRound = 2
    LastFeedRound = 4
    Missing = Missing
    Inputs <- MCInputs
    Scenarios <- MCScenarios
    Ftso = Ftso
    Fdc = Fdc
    Empty = Empty
    Short = Short
    NoBits = NoBits
    NoAddress = NoAddress
    Offset = 10
    BurnAddress <- MCBurnAddress
    TotalBips = 10
    TotalPpm = 10
    SigningBips = 3
    FinalizationBips = 4
    StakingFeeCap = 5
    PenaltyFactor = 3
    EpochSeconds = 5
    RevealDeadline = 1
    SignatureGrace = 2
    FinalizationGrace = 2
    RewardedWindows = 0
    PolicyEpoch = 1
    LastTime = 10
    Availability = 8
    Closeness = 1
    UpdatesShare = 8
    LowWeight = 1
    UptimeShare = 8
    FdcShare = 6
    MinSelfBond = 2
    DesiredSelfBond = 3
    DesiredStake = 5
    MaxPasses = 3
    StakingIncluded = TRUE
    Providers = {p1}
    MaxEpochs = 4
    Null = Null
    Refused = Refused
    Wide = 4
    MaxTotalWeight = 4
INVARIANTS
    FindsEpoch
    SharedFairly
    ByWeight
    OffersConserved
    OffersPaidOut
    ClaimsConserved
    RoundCalculable
    SignersGetTheirDue
    EventsOfTheirRounds
    ConditionsJust
    ResultRight
    ReadAsWritten
PROPERTIES
    LaterIsHarmless
    LoopsEnd
CHECK_DEADLOCK FALSE
