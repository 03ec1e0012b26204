SPECIFICATION FairSpec
CONSTANTS
    Senders = {t1, t2, t3}
    MaxSent = 6
INVARIANTS OneSendOutstanding SoleOwner NoneStranded
PROPERTIES KeepsPromise
CHECK_DEADLOCK FALSE
