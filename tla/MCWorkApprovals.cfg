CONSTANTS
    Runs = {r1}
    Workers = {w1}
    Deciders = {d1}
    Sessions = {"s1"}
    Tools = {"write", "again"}
    Class <- MCClass
    Name <- MCName
    Switch = {TRUE, FALSE}
    Budget = 1
    MaxActiveRuns = 1
    MaxUsage = 1
    MaxOutput = 0
    MaxEvents = 4
    FinalizeAt = 1
    OutputLimit = 2
    Limits <- MCLimits
    Periods = {p1}
    Disturbances = {"call_error", "crash", "approval_timeout"}
SPECIFICATION Spec
SYMMETRY MCSymmetry
CHECK_DEADLOCK FALSE
INVARIANTS
    ConsentBeforeAction
    OneAnswerPerApproval
