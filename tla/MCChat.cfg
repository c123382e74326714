SPECIFICATION FairSpec
CONSTANTS
    MaxQuestions = 2
    Disturbances = {"save_error", "reload"}
INVARIANTS
    SavedInItsThread
    WorkingTurnsAreServed
PROPERTIES
    CancelledStays
    ComposerReturns
CHECK_DEADLOCK FALSE
