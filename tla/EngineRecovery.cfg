SPECIFICATION FairSpec
CONSTANTS
    BTC = BTC
    ETH = ETH
    SOL = SOL
    w0 = w0
    w1 = w1
    NoWorker = NoWorker
    Symbols = {BTC}
    Sides <- BothSides
    Workers = {w0, w1}
    Keeper = w0
    Kinds <- EntryTPSL
    RealChoices <- Mixed
    MaxConcurrent = 2
    MaxSameDir = 2
    MaxPerSymbol = 2
    MaxOpenOrders = 2
    EntryQty = 300
    Lot = 100
    MaxSignals = 2
    MaxMoves = 1
    MaxInbox = 1
    MaxSilences = 1
    MaxRestarts = 1
CHECK_DEADLOCK FALSE
INVARIANTS
    LedgerInv
PROPERTIES
    SyncCoversExchange
    SyncRemovesGhosts
    SignalsFinish
    ExposureTracked
