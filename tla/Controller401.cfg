SPECIFICATION Spec
CONSTANTS
    RoundDays = 1
    QueueDepth = 1
    Intents = {"Refresh"}
PROPERTY HiddenAfter401
