SPECIFICATION Spec
CONSTANTS
    ProxyCount = 1
    BindPort <- Ports1
    MaxProxies = 1
    MaxConns = 1
    MaxInst = 3
    MaxChunks = 4
    LinkCap = 1
    ConnCap = 1
    MaxExternal = 1
    Echo = FALSE
    Faults = {"svcclose"}
PROPERTY PersistentConns
CHECK_DEADLOCK FALSE
