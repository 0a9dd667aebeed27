SPECIFICATION FairSpec
CONSTANTS
    Client = {c1, c2}
    NoClient = NoClient
    SendCap = 1
    RegisterCap = 1
    UnregisterCap = 2
    BroadcastCap = 1
    MaxMessages = 4
INVARIANTS
    TypeOK
    NoPanic
    MissedOnlyIfLeaving
PROPERTIES
    LeaverRemoved
    LockReleased
CHECK_DEADLOCK FALSE
