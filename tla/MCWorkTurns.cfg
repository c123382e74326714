CONSTANTS
    Runs = {r1, r2}
    Workers = {w1}
    Deciders = {}
    Sessions = {"s1", "s2"}
    Tools = {}
    Class <- MCClass
    Name <- MCName
    Switch = {TRUE}
    Budget = 1
    MaxActiveRuns = 1
    MaxUsage = 2
    MaxOutput = 0
    MaxEvents = 3
    FinalizeAt = 1
    OutputLimit = 2
    Limits <- MCLimits
    Periods = {p1}
    Disturbances = {"call_error", "crash", "start_crash"}
SPECIFICATION FairAgentSpec
CHECK_DEADLOCK FALSE
INVARIANTS
    UsageBilledOnce
    CompletedAfterInstruction
PROPERTIES
    StartedRunsEnd
