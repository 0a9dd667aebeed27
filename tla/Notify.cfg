SPECIFICATION FairSpec
CONSTANTS
    Channel = {c1, c2}
    NoChannel = NoChannel
    EventType = {e1}
    Worker = {w1, w2}
    Admin = {a1, a2}
    QueueSize = 1
    DedupWindow = 2
    SendTimeout = 1
    MySQL = TRUE
    ForeignKeys = FALSE
    MaxEvents = 2
    MaxOps = 2
INVARIANTS
    TypeOK
    QuietAfterDelete
PROPERTIES
    OncePerWindow
    Handled
CHECK_DEADLOCK FALSE
