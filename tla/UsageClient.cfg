\* Two accounts, every flash write may fail, up to two failures.
CONSTANTS
    Keys = {k1, k2}
    NoKey = NoKey
    NoBlob = NoBlob
    NoNotes = NoNotes
    Notes = {NoNotes, progress}
    FaultKinds = {"authWrite", "cacheWrite", "cacheErase", "settingsWrite"}
    MaxFaults = 2
    MaxGeneration = 4
    MaxRevision = 2
    MaxSequence = 3
    MaxFetches = 3
SPECIFICATION Spec
INVARIANTS AccountIsolation RebootRestoresPersisted
PROPERTIES FirstFailedSaveKeepsSnapshot SessionRefined
