SPECIFICATION Spec
CONSTANTS
    Requests = {r1, r2, v1}
    Evictors = {v1}
    Executions = {e1}
    Ops = {"kill", "keepAlive", "snapshot"}
    Faults = {"lostCheck", "cancel", "slowTransition", "slowWaiter"}
    Durations = {0, 1, 2}
    AutoPause = {FALSE, TRUE}
    MaxInstanceLength = 2
    StaleCutoff = 1
    MaxTime = 3
    None = None
SYMMETRY Symmetry
INVARIANTS NoLostUpdate EvictsOnlyExpired WithinMaxLength
CHECK_DEADLOCK FALSE
