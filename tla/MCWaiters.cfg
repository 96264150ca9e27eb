SPECIFICATION FairSpec
CONSTANTS
    Ids = {i1}
    Creators = {c1, c2, c3}
    Removers = {m1}
    Limit = 1
    Faults = {"start", "redis", "node", "slow"}
    None = None
PROPERTIES WaitersReturn
CHECK_DEADLOCK FALSE
