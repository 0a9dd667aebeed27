SPECIFICATION Spec
CONSTANTS
    Admin = {a1}
    Starter = auto
    Main = main
    Host = {h1, h2}
    DefaultHost = h1
    NoHost = NoHost
    EnvHost = h2
    MaxStarts = 2
    MaxOps = 1
    MaxRestarts = 1
    MaxFaults = 1
INVARIANTS
    TypeOK
    OneOwner
    RunningReachable
    StopLeavesNothing
CHECK_DEADLOCK FALSE
