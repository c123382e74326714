CONSTANTS
    Requests = {r1, r2, r3}
    Periods = {p1, p2}
    Limits <- MCLimits
    MaxQuantity = 3
SPECIFICATION Spec
SYMMETRY MCSymmetry
INVARIANTS
    NeverOverGranted
    CountersMatchReservations
PROPERTIES
    GrowthWithinAllowance
    ImplementsLedger
