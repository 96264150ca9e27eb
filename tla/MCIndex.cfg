SPECIFICATION FairSpec
CONSTANTS
    Adders = {a1, a2}
    Updaters = {u1}
    Removers = {m1, m2}
    Durations = {0, 1, 2}
    StaleCutoff = 1
    MaxTime = 4
    Faults = {"redis", "crash"}
    None = None
INVARIANTS IndexInv LeaksOnlyInAdd IndexAgrees
PROPERTIES ExpiredIsFound OrphanEntryIsRemoved
CHECK_DEADLOCK FALSE
