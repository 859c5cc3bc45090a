SPECIFICATION Spec
CONSTANTS
    Files <- AllFiles
    MaxProxies = 2
INVARIANTS
    ServesAllOrNone
PROPERTIES
    RegistrableServes
CHECK_DEADLOCK FALSE
