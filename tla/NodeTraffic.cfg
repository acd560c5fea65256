CONSTANTS
    Nodes = {n1, n2}
    None = None
    Months <- MCMonths
    ResetDays = {0, 3}
    MaxBytes = 1
    MaxRequests = 2
    MaxMishaps = 1
SYMMETRY Symmetry
SPECIFICATION Spec
INVARIANT TypeOK
INVARIANT TrafficAccounted
INVARIANT ResetOncePerMonth
CHECK_DEADLOCK FALSE
