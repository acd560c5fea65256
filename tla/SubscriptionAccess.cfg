CONSTANTS
    Devices = {d1, d2}
    Requests = {r1, r2}
    None = None
    Miss = Miss
    Kinds = {"subscribe", "create"}
    Settings <- MCSettings
    Limits = {0}
    MaxRequests = 2
    MaxEdits = 1
    MaxMishaps = 1
SYMMETRY Symmetry
SPECIFICATION Spec
INVARIANT TypeOK
INVARIANT OverrunIsBounded
INVARIANT ServedIsRegistered
INVARIANT StaleHasCause
CHECK_DEADLOCK FALSE
