CONSTANTS
    a = a
    b = b
    c = c
    Models <- MCModels
    Threshold = 2
    Cooldown = 2
    r1 = r1
    r2 = r2
    Requests <- MCRequests
    Kinds <- MCKinds
    LastTier = 1
    TierOf <- MCTierOf
    MaxAttempts = 3
    Targets = {a, c}
    MaxCompares = 1
SPECIFICATION Spec
INVARIANTS
    EachModelOnce
PROPERTIES
    OpenedByCalls
    RequestsEnd
    CircuitRecovers
