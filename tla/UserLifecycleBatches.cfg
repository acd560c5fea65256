CONSTANTS
    Users = {u1}
    Slots = {s1}
    None = None
    Squads = {"here"}
    Limits = {0, 1}
    RestartCap = 1
    MaxUsed = 1
    MaxRequests = 1
    MaxBatches = 1
    MaxMishaps = 1
SPECIFICATION FairSpec
INVARIANT LimitedHasCause
INVARIANT NodeMatchesWhenQuiet
PROPERTY DisabledIsKept
PROPERTY ExceededIsCutOff
CHECK_DEADLOCK FALSE
