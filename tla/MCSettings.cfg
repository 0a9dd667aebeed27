\* One server on MySQL and two administrators.
SPECIFICATION FairSpec
CONSTANTS
    Instance = {"i1"}
    Client = {"c1", "c2"}
    Reaches <- OnEvery
    Value = {"default", "new", "zero"}
    Ignored = {"zero"}
    Enters <- EachItsOwn
    NoValue = "none"
    Default = "default"
    Configured = "default"
    TouchOnUpdate = TRUE
    Ops = {"put", "batch", "delete", "account", "config"}
    MaxOps = 2
    MaxRows = 4
INVARIANTS
    TypeOK
    RuntimeFollowsCache
PROPERTIES
    NoLostUpdate
    CacheConverges
CHECK_DEADLOCK FALSE
