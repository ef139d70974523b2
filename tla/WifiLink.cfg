SPECIFICATION FairSpec
CONSTANTS
    MaxReconnect = 1
    MaxSaved = 2
    QueueDepth = 2
INVARIANTS
    OneMode
    PortalBounded
    OnlineAgrees
    ScreenTruthful
PROPERTIES
    RadioImplemented
    Connects
