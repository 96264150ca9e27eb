SPECIFICATION EvictorSpec
CONSTANTS
    Requests = {r1, v1}
    Evictors = {v1}
    Executions = {e1}
    Ops = {"kill"}
    Faults = {"cancel"}
    Durations = {1}
    AutoPause = {FALSE}
    MaxInstanceLength = 1
    StaleCutoff = 1
    MaxTime = 3
    None = None
PROPERTIES StaleRecordIsRemoved
CHECK_DEADLOCK FALSE
