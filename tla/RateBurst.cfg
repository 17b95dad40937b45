SPECIFICATION FairSpec
CONSTANTS
    c1 = c1
    c2 = c2
    c3 = c3
    Callers = {c1, c2, c3}
    Rate = 3
    Burst = 3
    Second = 4
INVARIANTS
    BurstBound
PROPERTIES
    TokensFlow
