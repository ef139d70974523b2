SPECIFICATION Spec
CONSTANTS
    RoundDays = 1
    QueueDepth = 1
    Intents = {"Refresh", "Reconcile", "Relink", "Unlink", "ToggleTimezone", "StartWifi", "FactoryReset"}
PROPERTIES
    ScheduleKept
    DataHiddenOnLoss
