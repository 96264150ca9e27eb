SPECIFICATION Spec
CONSTANTS
    Ids = {i1, i2, i3}
    Creators = {c1, c2, c3}
    Removers = {m1}
    Limit = 2
    Faults = {"start", "redis", "lost", "node", "crash"}
    None = None
SYMMETRY Symmetry
INVARIANTS ReservationInv OneCreator WithinLimit NoStaleResult NoLostVM
CHECK_DEADLOCK FALSE
