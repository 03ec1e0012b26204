SPECIFICATION FairStatements
CONSTANTS
    Threads = {t1, t2, t3}
    SyncThread = t1
    Connections = {c1, c2}
    NoConn = NoConn
    Packets <- FourPackets
    MaxPackets = 2
    Seeded <- OneOfEach
    Update = Update
    NoPacket = NoPacket
INVARIANTS StatementsTypeOK Conserved NoLostWakeUp StoredOrReported
PROPERTIES HandlerReturns
