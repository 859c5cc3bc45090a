SPECIFICATION Spec
CONSTANTS
    ProxyCount = 2
    BindPort <- Ports2
    MaxProxies = 2
    MaxConns = 1
    MaxInst = 2
    MaxChunks = 1
    LinkCap = 2
    ConnCap = 1
    MaxExternal = 1
    Echo = FALSE
    Faults = {}
INVARIANT RegistrationSurvives
CHECK_DEADLOCK FALSE
