SPECIFICATION FairSpec
CONSTANTS
    ProxyCount = 1
    BindPort <- Ports1
    MaxProxies = 1
    MaxConns = 1
    MaxInst = 1
    MaxChunks = 6
    LinkCap = 1
    ConnCap = 1
    MaxExternal = 1
    Echo = TRUE
    Faults = {"ping", "timeout"}
PROPERTY ServerLoopReturns
CHECK_DEADLOCK FALSE
