SPECIFICATION FairSpec
CONSTANTS
    Characters = {c1, c2}
    Rows = {c1}
    Workers = {w1, w2}
    NodeReaders = {n1}
    Faults = {"db", "redis", "crash", "expire"}
    MaxWrites = 2
    MaxCrashes = 1
    NoOne = NoOne
INVARIANTS TypeOK NoLostUpdate
PROPERTIES KeepsPromise StatReachesMySQL StopReturns
CHECK_DEADLOCK FALSE
