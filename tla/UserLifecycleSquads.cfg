CONSTANTS
    Users = {u1}
    Slots = {s1, s2}
    None = None
    Squads = {"none", "bare", "elsewhere", "here"}
    Limits = {1}
    RestartCap = 2
    MaxUsed = 1
    MaxRequests = 2
    MaxBatches = 0
    MaxMishaps = 0
SYMMETRY Symmetry
SPECIFICATION Spec
INVARIANT TypeOK
INVARIANT NodeMatchesWhenQuiet
CHECK_DEADLOCK FALSE
