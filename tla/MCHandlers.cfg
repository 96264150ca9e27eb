SPECIFICATION FairSpec
CONSTANTS
    Requests = {r1, r2}
    Evictors = {}
    Executions = {e1}
    Ops = {"kill", "snapshot", "await", "keepAlive"}
    Faults = {"node", "redis", "crash", "cancel", "pubsub"}
    Durations = {1}
    AutoPause = {FALSE}
    MaxInstanceLength = 1
    StaleCutoff = 1
    MaxTime = 0
    None = None
INVARIANTS TypeOK TransitionInv
PROPERTIES ImplementsLifecycle HandlersReturn
CHECK_DEADLOCK FALSE
