SPECIFICATION Spec
CONSTANTS
    BTC = BTC
    w0 = w0
    w1 = w1
    ASIA = ASIA
    US = US
    long = long
    short = short
    Sides = {long, short}
    Symbols = {BTC}
    TimeFrames = {"15", ""}
    Workers = {w0, w1}
    Sessions = {ASIA, US}
    RecentWindow = 2
    CooldownStreak = 1
    CooldownBase = 1
    BlacklistMin = 2
    QualityMin = 3
    SessionMin = 3
    SessionAt <- Hours
    SaveEvery = 2
    LearnSave = 2
    MaxKept = 2
    KeepSaved = 1
    MaxEngineTrades = 1
    MaxFaults = 1
    MaxInputs = 3
    MaxCrashes = 1
    MaxTime = 1
SYMMETRY SymmetricSets
INVARIANTS
    ShadowLedger
    NoOppositeSides
    LiveEquivalentSound
    LearnerMatchesHistory
    FiltersJustified
    CountedOncePerRun
CHECK_DEADLOCK FALSE
