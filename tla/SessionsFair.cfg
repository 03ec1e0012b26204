SPECIFICATION FairSpec
CONSTANTS
    Clients = {c1, c2}
    Workers = {w1}
    PENDING_ACCEPTS = 1
    NoClient = NoClient
PROPERTIES ConnectionIsServed ClosedLeavesRegistry
CHECK_DEADLOCK FALSE
