SPECIFICATION Spec
CONSTANTS
    s1 = s1
    s2 = s2
    Subs = {s1, s2}
    Plans = {"plus", "pro"}
    Offered = {"plus"}
    Month = 2
    GrantTerm = 2
    Grace = 1
    MaxTime = 4
    MaxChanges = 3
    MaxPending = 3
    Disturbances = {"fail", "cancel", "change", "grant"}
SYMMETRY Symmetry
INVARIANT AccessFollowsStripe
PROPERTY OneAllowancePerPeriod
CHECK_DEADLOCK FALSE
