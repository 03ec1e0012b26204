SPECIFICATION LoadSpec
CONSTANTS
    Sessions = {0, 1}
    WORKER_THREADS = 2
    SCENARIO_LOOPS = 0
    MAPS = 1
    IdSpace = 2
    MapIds = {1}
    Refs = {r1, r2, r3, r4, r5}
    MAX_PLAYERS = 3
    NoRef = NoRef
    NoMap = NoMap
SYMMETRY Interchangeable
INVARIANTS EnteredIsInRoom
CHECK_DEADLOCK FALSE
