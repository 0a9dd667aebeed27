\* Two handlers, two nodes, each tried twice; a breaker and a total timeout.
SPECIFICATION Spec
CONSTANTS
    Node = {n1, n2}
    Request = {r1, r2}
    NoNode = NoNode
    MaxAttempts = 1
    RetryOnStatus = {"503", "504"}
    HasTotalTimeout = TRUE
    TransportAttempts = 2
    FailLimit = 2
    BreakerEnabled = TRUE
    MinLoops = 1
    MaxRequests = 3
INVARIANTS TypeOK FailedHasStreak
PROPERTIES EveryNodeTried KeepsPromise EachStepNearer
SYMMETRY Symmetry
CHECK_DEADLOCK FALSE
