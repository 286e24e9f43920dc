CONSTANTS
    Length = {2}
    Limit = 3
    PeriodLen = 2
    SummerTime = {3}
    Hour = 1
    StartTime = 2
    MaxTime = 4
    MaxAdded = 3
    MaxRestarts = 2
SPECIFICATION Spec
INVARIANTS ReportsBalance NoStaleTraffic ResetNotRepeated FlagFileOnce
