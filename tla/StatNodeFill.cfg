SPECIFICATION Spec
CONSTANTS
    Characters = {c1}
    Rows = {c1}
    Workers = {w1, w2}
    NodeReaders = {n1}
    Faults = {}
    MaxWrites = 2
    MaxCrashes = 0
    NoOne = NoOne
INVARIANTS OnlyFaultsLose
CHECK_DEADLOCK FALSE
