SPECIFICATION Spec
CONSTANTS
    ChanCap = 1
    WireCap = 1
    Sizes = {1, 2, 3}
    MaxBytes = 5
    ConnCap = 1
    BufCap = 2
INVARIANTS
    TypeOK
    SealedApart
    PrefixArrives
    OrderlyEndIsComplete
    IdleIsFlushed
PROPERTIES
    PathIsPipe
    BytesArrive
    TaskDrains
CHECK_DEADLOCK FALSE
