CONSTANTS
    Caller = {c1, c2, c3}
    WindowSeconds = 2
    RateNum = 2
    RateDen = 3
    ConsecutiveFails = 3
    CooldownSeconds = 2
    HalfOpenMaxCalls = 2
    MaxAdmitted = 7
SPECIFICATION FairSpec
INVARIANTS
    BreakerTypeOK
    ClosedBelowThreshold
    TrialSlots
PROPERTY HalfOpenDecides
