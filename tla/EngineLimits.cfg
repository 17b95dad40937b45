SPECIFICATION Spec
CONSTANTS
    BTC = BTC
    ETH = ETH
    SOL = SOL
    w0 = w0
    w1 = w1
    NoWorker = NoWorker
    Symbols = {BTC, ETH, SOL}
    Sides <- LongOnly
    Workers = {w0, w1}
    Keeper = w0
    Kinds <- EntrySL
    RealChoices <- Mixed
    MaxConcurrent = 1
    MaxSameDir = 3
    MaxPerSymbol = 2
    MaxOpenOrders = 3
    EntryQty = 300
    Lot = 100
    MaxSignals = 3
    MaxMoves = 0
    MaxInbox = 1
    MaxSilences = 0
    MaxRestarts = 1
SYMMETRY SymbolSymmetry
INVARIANTS
    BoundedOvershoot
