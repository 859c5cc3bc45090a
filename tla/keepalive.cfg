SPECIFICATION Spec
CONSTANTS
    PingInterval = 30
    Timeout = 90
    HandshakeTimeout = 10
    InitialDelay = 3
    MaxDelay = 60
    NetDelay = 5
    U64Max = 255
    PastAttempts = 9
    MaxAttempts = 16
    MaxFaults = 2
INVARIANTS
    BackInTime
PROPERTIES
    DelayDoubles
    NoFalseTimeout
CHECK_DEADLOCK FALSE
