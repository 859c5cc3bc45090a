SPECIFICATION FairSpec
CONSTANTS
    Clients = {"first", "idler", "stranger"}
    Mute = {"idler", "stranger"}
    Token <- Tokens
    ServerToken = "right"
    Port <- Ports
    Slots = {1, 2, 3}
    MaxPermits = 2
    MaxFaults = 1
INVARIANTS
    TypeOK
    PermitsConserved
    RunningIsServed
PROPERTIES
    ServedAgain
    StaleSkipped
CHECK_DEADLOCK FALSE
