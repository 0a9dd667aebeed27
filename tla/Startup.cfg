SPECIFICATION Spec
CONSTANTS
    Prices = 2
    MaxStarts = 3
    MaxFaults = 2
INVARIANTS
    TypeOK
    NothingLost
    StartsAgain
    ServesComplete
CHECK_DEADLOCK FALSE
