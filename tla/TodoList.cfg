SPECIFICATION Spec
CONSTANTS
    Titles = {t1, t2}
    t1 = t1
    t2 = t2
    Capacity = 2
    QueueDepth = 1
    Delays = {1}
    Repeats = {1}
    MaxClock = 3
    MaxFaults = 2
SYMMETRY TitleSymmetry
INVARIANTS
    TypeOK
    OneRequest
    NumbersStandStill
PROPERTIES
    RemindersDurable
    SoundsOnce
    StoreImplemented
