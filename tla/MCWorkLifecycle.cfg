CONSTANTS
    Runs = {r1}
    Workers = {w1, w2}
    Deciders = {}
    Sessions = {"s1"}
    Tools = {}
    Class <- MCClass
    Name <- MCName
    Switch = {TRUE}
    Budget = 2
    MaxActiveRuns = 1
    MaxUsage = 3
    MaxOutput = 0
    MaxEvents = 2
    FinalizeAt = 1
    OutputLimit = 2
    Limits <- MCTightLimits
    Periods = {p1}
    Disturbances = {"cancel", "call_error", "crash", "start_crash", "stall", "slow_start", "reservation_expiry"}
SPECIFICATION Spec
SYMMETRY MCSymmetry
CHECK_DEADLOCK FALSE
INVARIANTS
    EndedRunsHoldNothing
    LedgerMatchesCharge
PROPERTIES
    ChargedWhenEnding
