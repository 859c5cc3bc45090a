SPECIFICATION Spec
CONSTANTS
    ProxyCount = 1
    BindPort <- Ports1
    MaxProxies = 1
    MaxConns = 2
    MaxInst = 3
    MaxChunks = 2
    LinkCap = 1
    ConnCap = 1
    MaxExternal = 1
    Echo = TRUE
    Faults = {"svcclose", "extclose", "dial"}
INVARIANTS
    ForwardOrder
    ForwardComplete
    ReplyComplete
CHECK_DEADLOCK FALSE
