SPECIFICATION Spec
CONSTANTS
    Clients = {c1, c2, c3}
    Workers = {w1, w2}
    PENDING_ACCEPTS = 2
    NoClient = NoClient
SYMMETRY Interchangeable
INVARIANTS TypeOK NoOrphanCompletion SoleReceiver RegisteredIsServed SlotsKept
CHECK_DEADLOCK FALSE
