SPECIFICATION Spec
CONSTANTS
    Nodes = {n1, n2}
    First = n1
    MaxBuilds = 3
    MaxDropped = 1
    MaxFaults = 1
    Faults = {}
    None = None
INVARIANTS HeadersComplete
CHECK_DEADLOCK FALSE
