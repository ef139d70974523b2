SPECIFICATION FairSpec
INVARIANTS
    TornIsJournalled
PROPERTIES
    JournalRemovedWhenEmpty
    BootRunsOnWholeData
    ResetImplemented
    ResetCompletes
