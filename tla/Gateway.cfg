SPECIFICATION FairSpec
CONSTANTS
    Requests = {r1, r2}
    r1 = r1
    r2 = r2
    MaxEvents = 2
    MaxParts = 3
CHECK_DEADLOCK FALSE
INVARIANT NothingLeftBehind
PROPERTIES
    TranscriptComplete
    BecomesFree
