CONSTANTS
    Files = {f1, f2}
    Callers = {s1, h1, h2}
    Slots = {s1}
    Workers = {}
    Tasks = {t1, t2}
    MaxAttempts = 1
    MaxPolls = 2
    Heard = TRUE
    Failures = {"network"}
    Disturbances = {}
SPECIFICATION QueueFairSpec
CHECK_DEADLOCK FALSE
INVARIANTS
    ReadyIsReady
    NothingForgotten
PROPERTIES
    UploadsEnd
