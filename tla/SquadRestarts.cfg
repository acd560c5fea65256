CONSTANTS
    Users = {"u"}
    Squads = {"s"}
    Inbounds = {"i", "j", "k"}
    Profiles = {"p", "q"}
    ProfileOf <- MCProfileOf
    Requests = {"r1", "r2"}
    None = None
    MaxRequests = 2
    MaxMishaps = 1
SPECIFICATION FairSpec
INVARIANT TypeOK
INVARIANT NodesFollowSquads
PROPERTY NodesCatchUp
CHECK_DEADLOCK FALSE
