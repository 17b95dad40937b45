SPECIFICATION Spec
CONSTANTS
    BTC = BTC
    ETH = ETH
    w1 = w1
    Symbols = {BTC, ETH}
    Books <- TwoMarkets
    TimeFrames = {"15"}
    Workers = {w1}
    GateSets <- SomeGates
    Results <- SomeResults
    FewTrades = 1
    SmallSample = 1
    MarginalTrades = 2
    MinTradesReady = 1
    MinTradesProven = 2
    RequirePositive = TRUE
    RollingWindow = 1
    MaxConfidence = 2
    MinSymbols = 1
    MaxTrades <- Trades
    MaxFaults = 1
    MaxCrashes = 1
    MaxTrouble = 0
INVARIANTS
    IneligibleStaysPaper
    GatesHeldOutsideSwitch
    ModesAgree
    ConfidenceLag
PROPERTIES
    ModeFollowsBooks
CHECK_DEADLOCK FALSE
