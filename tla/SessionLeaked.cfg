SPECIFICATION Spec
CONSTANTS
    Clients = {c1}
    Workers = {w1, w2}
    PENDING_ACCEPTS = 1
    NoClient = NoClient
INVARIANTS RemovedIsDestroyed
CHECK_DEADLOCK FALSE
