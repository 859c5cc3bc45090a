SPECIFICATION Spec
CONSTANTS
    ProxyCount = 2
    BindPort <- Ports2
    MaxProxies = 2
    MaxConns = 1
    MaxInst = 2
    MaxChunks = 2
    LinkCap = 1
    ConnCap = 1
    MaxExternal = 1
    Echo = TRUE
    Faults = {"svcclose", "bind", "timeout", "dial"}
INVARIANTS
    TypeOK
    ReplyComplete
    ProxyAgreement
    NoCrossTalk
PROPERTIES
    LinkIsPipe
CHECK_DEADLOCK FALSE
