SPECIFICATION Spec
CONSTANTS
    ProxyCount = 2
    BindPort <- Ports
    MaxProxies = 2
    MaxConns = 1
    MaxInst = 3
    MaxChunks = 1
    LinkCap = 1
    ConnCap = 1
    Echo = FALSE
    MaxFrames = 5
    Faults = {"svcclose", "dial", "timeout"}
INVARIANTS
    TypeOK
    EntryHasReader
    ConnectIsVacant
    DialsRegisteredOnly
CHECK_DEADLOCK FALSE
