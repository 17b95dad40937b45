SPECIFICATION FairSpec
CONSTANTS
    a1 = a1
    a2 = a2
    BTC = BTC
    ETH = ETH
    w0 = w0
    w1 = w1
    t0 = t0
    NoWorker = NoWorker
    Alerts = {a1, a2}
    Symbols = {BTC, ETH}
    SymbolOf <- AlertSymbol
    Allowed = {BTC}
    Threads = {t0}
    Workers = {w0, w1}
    Keeper = w0
    Capacity = 1
    MaxAge = 0
    TTL = 1
    EvictAbove = 0
    ClearAbove = 1
    MaxDelay = 1
INVARIANTS
    IntakeInv
PROPERTIES
    NoRepeat
    StopCompletes
    QueueMoves
