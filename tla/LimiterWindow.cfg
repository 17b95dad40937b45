SPECIFICATION LimiterSpec
CONSTANTS
    ip1 = ip1
    ip2 = ip2
    Addresses = {ip1, ip2}
    Limit = 3
    Window = 2
    Every = 2
INVARIANTS
    LimiterInv
    RejectJustified
