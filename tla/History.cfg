SPECIFICATION MCSpec
CONSTANTS
    Scale = 4
    N = 2
    FirstEpoch = 1
    PhaseOutEpochs = 1
    MaxU128 = 1000
    StakeRequired = {1, 2}
    StakeAmounts = {1}
    Quantities = {1}
    MakerFees <- MCMakerFees
    TakerFees <- MCTakerFees
    MaxStake = 2
    MaxVolume = 3
    MaxEpoch = 4
    MaxLen = 6
    MaxValue = 3
CHECK_DEADLOCK FALSE
INVARIANTS
    SharesWithinFees
    VaultCovers
    RefreshNeverAborts
    MedianIsMiddle
    PriceIsRecentMean
PROPERTIES
    LateRefreshLosesNothing
