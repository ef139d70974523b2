SPECIFICATION FairSpec
CONSTANTS
    WindowDays = 3
    CacheDays = 4
    FirstClock = 12
    MaxClock = 17
    MaxClockBack = 1
    MaxUpsets = 2
INVARIANTS
    DatesUnique
PROPERTIES
    NoWindowDayEvicted
    RoundConfirmsWindow
    WindowSettles
