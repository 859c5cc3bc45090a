SPECIFICATION FairSpec
CONSTANTS
    ProxyCount = 1
    BindPort <- Ports1
    MaxProxies = 1
    MaxConns = 1
    MaxInst = 2
    MaxChunks = 2
    LinkCap = 1
    ConnCap = 1
    MaxExternal = 1
    Echo = FALSE
    Faults = {"cut", "timeout", "ping"}
PROPERTIES
    ForwardDelivers
    ReplyDelivers
    ClientEndEndsServer
    CutEndsSession
    PortsReleased
    DeadSessionClosed
CHECK_DEADLOCK FALSE
