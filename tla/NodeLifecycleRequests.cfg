CONSTANTS
    Nodes = {n1}
    Unknown = {"lost"}
    Asked = {"create", "restart", "delete", "update", "enable", "disable",
             "modify", "edit", "drop", "restartAll"}
    MaxVersion = 2
    MaxCalls = 1
    MaxFaults = 1
SPECIFICATION FairSpec
INVARIANT TypeOK
INVARIANT ConnectingHasOwner
INVARIANT DisabledIsStopped
PROPERTY NodeComesUp
