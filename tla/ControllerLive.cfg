SPECIFICATION FairSpec
CONSTANTS
    RoundDays = 2
    QueueDepth = 1
    Intents = {"Reconcile", "Relink", "LlmConfig", "LlmConfigClose"}
PROPERTIES
    CalmRefreshes
    LinkConcludes
