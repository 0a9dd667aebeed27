\* Two goroutines that overlap, and the selections they start.
CONSTANTS
    MaxNodes = 2
    MaxWeight = 1
    Thread = {t1, t2}
    HealthLoop = loop
    WarmupModes = {TRUE, FALSE}
    Attempts = 1
    RequiredSuccess = 1
    WarmupSlots = 1
    StoreMayFail = TRUE
    Ops = {"add", "update", "delete", "activate", "disable", "enable", "request", "fail", "metrics", "check", "config", "restart"}
    MaxOps = 2
    MaxAsync = 1
    MaxLate = 1
SPECIFICATION Spec
INVARIANTS
    TypeOK
    FailedSetExact
    RestartLoadsMemory
SYMMETRY Symmetry
CHECK_DEADLOCK FALSE
