SPECIFICATION FairSpec
CONSTANT MaxPartials = 1
CHECK_DEADLOCK FALSE
INVARIANTS
    PreviousOnGlass
    PartialsBounded
PROPERTIES
    NoBlindReset
    AlertShown
    NewestShown
