CONSTANTS
    Handlers = {h1, h2}
    Second = 3
    MaxTime = 3
    MaxChanges = 2
    MaxEvents = 2
SPECIFICATION FairSpec
INVARIANTS
    SyncedWhenOver
PROPERTIES
    OneEffectPerEvent
    ProcessedIsFinal
    EventuallySynced
