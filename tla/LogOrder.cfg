SPECIFICATION FairSpec
CONSTANTS
    Threads = {t1, t2}
    COOLDOWN = 1
    TICKS = 2
    Started = 2
    MaxLines = 3
    MaxTime = 6
INVARIANTS
    TypeOK
    NothingMislaid
    NoSleepOverWork
    Cooldown
    DrainedAtEnd
PROPERTIES
    EveryLineWritten
    JoinReturns
CHECK_DEADLOCK FALSE
