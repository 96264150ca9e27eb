SPECIFICATION FairSpec
CONSTANTS
    Ids = {i1}
    Lifecycles = {l1, l2}
    Calls = {c1, c2}
    Limits = {1, 2}
    MaxRunning = 1
    Faults = {"resume", "snapshot", "upload", "exit"}
    None = None
INVARIANTS NoStrayVM TracksOutstanding PermitsBalance KeepsSnapshots
PROPERTIES KeepsSuccessor DrainSeesCheckpoint ShutdownEnds
CHECK_DEADLOCK FALSE
