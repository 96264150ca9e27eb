SPECIFICATION Spec
CONSTANTS
    Requests = {r1, r2, r3}
    Evictors = {}
    Executions = {e1, e2}
    Ops = {"kill", "pause", "snapshot"}
    Faults = {"node"}
    Durations = {1}
    AutoPause = {FALSE}
    MaxInstanceLength = 2
    StaleCutoff = 1
    MaxTime = 0
    None = None
SYMMETRY Symmetry
INVARIANTS OneTransition OwnerKeepsRecord RunningHasVM RestoredBeforeRelease AlreadyDoneIsDone
CHECK_DEADLOCK FALSE
