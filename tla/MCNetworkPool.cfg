SPECIFICATION FairSpec
CONSTANTS
    Slots = {s1, s2}
    Sandboxes = {b1, b2}
    NewSize = 1
    ReusedSize = 1
    Faults = {"create", "configure", "reset", "cancel", "context"}
    None = None
INVARIANTS PoolInv SingleOwner RoutesToHolder ClosedPoolIsEmpty
PROPERTY CloseReturns
CHECK_DEADLOCK FALSE
