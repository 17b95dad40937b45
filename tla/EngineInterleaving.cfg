SPECIFICATION Spec
CONSTANTS
    BTC = BTC
    ETH = ETH
    SOL = SOL
    w0 = w0
    w1 = w1
    NoWorker = NoWorker
    Symbols = {BTC, ETH}
    Sides <- BothSides
    Workers = {w0, w1}
    Keeper = w0
    Kinds <- AllKinds
    RealChoices <- Mixed
    MaxConcurrent = 2
    MaxSameDir = 2
    MaxPerSymbol = 2
    MaxOpenOrders = 2
    EntryQty = 300
    Lot = 100
    MaxSignals = 3
    MaxMoves = 0
    MaxInbox = 1
    MaxSilences = 0
    MaxRestarts = 0
SYMMETRY SymbolSymmetry
INVARIANTS
    OnePositionPerSymbol
    LedgerExact
    OrdersCounted
PROPERTIES
    StopLossLeavesFlat
    RemovedOnlyBooked
