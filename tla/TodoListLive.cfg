SPECIFICATION FairSpec
CONSTANTS
    Titles = {t1}
    t1 = t1
    Capacity = 1
    QueueDepth = 1
    Delays = {1}
    Repeats = {1}
    MaxClock = 4
    MaxFaults = 2
PROPERTY ReminderSounds
