CONSTANTS
    MaxNodes = 2
    MaxWeight = 1
    Thread = {t1}
    HealthLoop = loop
    WarmupModes = {TRUE}
    Attempts = 1
    RequiredSuccess = 1
    WarmupSlots = 1
    StoreMayFail = FALSE
    Ops = {"delete", "fail", "loop", "restart"}
    MaxOps = 1
    MaxAsync = 1
    MaxLate = 0
SPECIFICATION FairSpec
PROPERTIES
    SelectionTerminates
    FailedNodesProbed
CHECK_DEADLOCK FALSE
