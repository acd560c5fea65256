CONSTANTS
    Nodes = {n1, n2}
    Unknown = {"noinfo", "lost"}
    Asked = {"edit", "modify", "delete", "disable"}
    MaxVersion = 2
    MaxCalls = 2
    MaxFaults = 0
SPECIFICATION Spec
SYMMETRY NodeSymmetry
INVARIANT ConnectedIsCurrent
INVARIANT RestartNotLost
