CONSTANTS
    Requests = {q1}
    Targets = {1, 2, 3}
    Kinds = {"chat", "chat_stream", "compare", "compare_stream", "optimize", "analysis"}
    Estimates = {1, 2}
    MaxQuantity = 5
    ResearchCost = 1
    Periods = {p1, p2}
    Disturbances = {"cancel", "abandon", "provider_error", "db_error", "crash", "no_heartbeat"}
    Cost <- MCCost
    Limits <- MCLimits
SPECIFICATION FairSpec
CHECK_DEADLOCK FALSE
INVARIANTS
    LedgerIsTheCharge
    HeldOnlyWhileServed
    OnlyShownIsCharged
    EndedAsDeserved
PROPERTIES
    HoldsEnd
    ImplementsMetering
