SPECIFICATION FairSpec
CONSTANTS
    Nodes = {n1, n2}
    First = n1
    MaxBuilds = 3
    MaxDropped = 1
    MaxFaults = 1
    Faults = {"attempt", "fail", "redis", "crash"}
    None = None
INVARIANTS OpenedAncestorsFirst Readable
PROPERTIES LandsAfterAncestors
CHECK_DEADLOCK FALSE
