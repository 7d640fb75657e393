SPECIFICATION Spec
CONSTANTS
    N = 3
    InitialDeep <- MCInitialDeep
    TradeParams <- MCTradeParams
    StakeRequired = 1
    FeeMultiple = 2
    FeeBounds <- MCFeeBounds
    MaxProposals = 2
    Threshold = 2
    FloatScaling = 1
    SqrtMultiplier = 1
    MaxEpoch = 2
INVARIANTS
    VotesMatchVoters
    VotingPowerMatchesStake
    UnstakeNeverAborts
    AtMostOneWinner
    WinnerTakesEffect
PROPERTIES
    WinnerNeverEvicted
    ImplementsEpochParams
