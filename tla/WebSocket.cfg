SPECIFICATION ClientSpec
CONSTANTS
    BackoffInitial = 1
    BackoffMax = 4
    PingInterval = 3
    PongTimeout = 1
    MaxWaiting = 2
INVARIANTS
    BackoffFollowsFailures
    ConnectedMeansLoggedIn
PROPERTIES
    
    ComesBack
CHECK_DEADLOCK FALSE
