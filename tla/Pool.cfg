SPECIFICATION TradingSpec
CONSTANTS
    N = 2
    InitialFunds <- MCFunds
    PoolKinds = {"whitelisted", "other"}
    EwmaKinds = {"other"}
    TradeParams <- MCTradeParams
    OrderDeepPrices <- MCDeepPrices
    AdditionalTakerFee = 1
    ReferralMultiplier <- MCReferral
    Scale = 2
    PenaltyMultiplier = 3
    MinPrice = 1
    MaxPrice = 9
    TickSize = 1
    LotSize = 1
    MinSize = 1
    MaxFills = 2
    MaxOpenOrders = 2
    Prices = {2, 3}
    Quantities = {1, 2, 3}
    Expiries = {1, 9}
    Types = {"no_restriction", "fill_or_kill", "post_only"}
    Options = {"cancel_taker", "cancel_maker", "self_matching_allowed"}
    PayWithDeep = {TRUE, FALSE}
    MaxOrders = 3
    MaxTime = 2
    MaxEpoch = 1
INVARIANTS
    BookIsSound
    Solvent
    NothingTrapped
    CancelNeverAborts
PROPERTIES
    PriceTimePriority
    ImplementsEpochParams
