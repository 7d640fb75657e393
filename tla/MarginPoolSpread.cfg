SPECIFICATION PoolSpec
CHECK_DEADLOCK FALSE
CONSTANTS
    Scale = 10
    Suppliers = 2
    Managers = 1
    Year = 2
    MinLiquidationRepay = 1
    MaxRiskRatio = 1000
    Risk <- MCRisk
    InitialConfig <- MCInitialConfig
    InterestConfigs <- MCInterestConfigs
    PoolConfigs <- MCPoolConfigs
    SupplyAmounts = {40}
    WithdrawAmounts = {13}
    LoanAmounts = {31, 99}
    Coins = {17, 199}
    Wealths = {20, 90, 199}
    MaxReferrals = 2
    MaxTime = 2
    MaxOps = 5
PROPERTY
    NoLossWithoutDefault
