SPECIFICATION Spec
CONSTANTS
    Sessions = {s1, s2, s3}
    IdSpace = 2
    MapIds = {0}
    Refs = {r1, r2, r3, r4, r5}
    MAX_PLAYERS = 2
    NoRef = NoRef
    NoMap = NoMap
SYMMETRY Interchangeable
INVARIANTS TypeOK Capacity KeyMatchesRoom NoEmptyRoomLeak
PROPERTIES GetOrCreateKeepsRoom
