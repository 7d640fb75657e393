SPECIFICATION Spec
CONSTANTS
    N = 2
    InitialFunds <- MCFunds
    PoolKinds = {"whitelisted"}
    EwmaKinds = {"whitelisted"}
    TradeParams <- MCNoFees
    OrderDeepPrices <- MCDeepPrices
    AdditionalTakerFee = 1
    ReferralMultiplier <- MCNoReferral
    Scale = 2
    PenaltyMultiplier = 3
    MinPrice = 1
    MaxPrice = 9
    TickSize = 1
    LotSize = 1
    MinSize = 1
    MaxFills = 2
    MaxOpenOrders = 3
    Prices = {2, 3}
    Quantities = {1, 3}
    Expiries = {9}
    Types = {"no_restriction"}
    Options = {"self_matching_allowed"}
    PayWithDeep = {TRUE}
    MaxOrders = 2
    MaxTime = 1
    MaxEpoch = 0
INVARIANT
    RecordedFeesHeld
