CONSTANTS
    Nodes = {n1, n2}
    Unknown = {"lost"}
    Asked = {"edit"}
    MaxVersion = 2
    MaxCalls = 1
    MaxFaults = 0
SPECIFICATION Spec
INVARIANT StartedHasInbounds
