CONSTANTS
    Files = {f1}
    Callers = {c1}
    Workers = {w1, w2}
    MaxAttempts = 2
    Heard = FALSE
    Disturbances = {"storage_error", "worker_crash", "rollback", "crash"}
SPECIFICATION FairSpec
CHECK_DEADLOCK FALSE
INVARIANTS
    UsableIsStored
PROPERTIES
    DeletedForGood
    RetentionEnds
