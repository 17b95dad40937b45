SPECIFICATION Spec
CONSTANTS
    AKT = AKT
    w0 = w0
    w1 = w1
    Symbols = {AKT}
    Exchanges = {"upbit"}
    QuoteOf <- Quotes
    TimeFrames = {"15", ""}
    Prices = {1, 2}
    Workers = {w0, w1}
    Stake = 100
    Start = 100
    GradeMin = 1
    SaveEvery = 2
    MaxKept = 2
    KeepSaved = 1
    MaxSignals = 4
    MaxFaults = 1
    MaxCrashes = 1
SYMMETRY WorkerSymmetry
INVARIANTS
    SpotLedger
    OneSpotPosition
    SharesConserved
    GradeCurrent
CHECK_DEADLOCK FALSE
