CONSTANTS
    Profiles = {p1, p2}
    Hosts = {h1}
    Tags = {t1, t2}
    Types = {vless, trojan}
    Raws = {r1, r2}
    Uuids = {0, 1, 2, 3}
    Items = {i1}
    Slots = {s1, s2}
    None = None
    MaxRequests = 3
    MaxMishaps = 2
SYMMETRY Symmetry
SPECIFICATION Spec
INVARIANT TypeOK
INVARIANT RowsFollowConfig
INVARIANT ListsAsAsked
PROPERTY HostsKeepInbound
CHECK_DEADLOCK FALSE
