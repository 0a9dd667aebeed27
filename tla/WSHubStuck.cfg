SPECIFICATION FairSpec
CONSTANTS
    Client = {c1, c2}
    NoClient = NoClient
    SendCap = 1
    RegisterCap = 1
    UnregisterCap = 1
    BroadcastCap = 1
    MaxMessages = 3
PROPERTY SlowViewerEvicted
CHECK_DEADLOCK FALSE
