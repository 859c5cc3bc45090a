SPECIFICATION Spec
CONSTANTS
    ProxyCount = 3
    BindPort <- Ports
    MaxProxies = 2
    MaxConns = 1
    MaxInst = 1
    MaxChunks = 1
    LinkCap = 1
    ConnCap = 1
    MaxExternal = 1
    MaxFrames = 4
    Faults = {"extclose"}
INVARIANTS
    TypeOK
    AnsweredOnce
    RoutedToOwner
    RouteWhileReading
CHECK_DEADLOCK FALSE
