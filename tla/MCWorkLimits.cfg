CONSTANTS
    Runs = {r1}
    Workers = {w1}
    Deciders = {}
    Sessions = {"s1"}
    Tools = {"send"}
    Class <- MCClass
    Name <- MCName
    Switch = {TRUE}
    Budget = 2
    MaxActiveRuns = 1
    MaxUsage = 2
    MaxOutput = 1
    MaxEvents = 5
    FinalizeAt = 0
    OutputLimit = 1
    Limits <- MCLimits
    Periods = {p1}
    Disturbances = {"call_error", "crash", "approval_timeout"}
SPECIFICATION FairSpec
CHECK_DEADLOCK FALSE
PROPERTIES
    TimedOutCallsAreAnswered
    CeilingEndsRun
