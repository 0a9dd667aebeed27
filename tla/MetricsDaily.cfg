SPECIFICATION Spec
CONSTANTS
    HourLen = 2
    HoursPerDay = 2
    DaysPerMonth = 2
    CleanupHour = 1
    RawKeep = 6
    HourKeep = 9
    DayKeep = 17
    MaxLag = 1
    Windows = {1, 4}
    MaxTime = 15
    MaxRows = 2
    MaxTroubles = 1
PROPERTIES
    DailyIsSum
CHECK_DEADLOCK FALSE
