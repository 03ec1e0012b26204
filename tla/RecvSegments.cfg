SPECIFICATION FairSpec
CONSTANTS
    BUFFER_SIZE = 7
    MAX_PACKET_SIZE = 4
    HEADER_SIZE = 2
    RECV_SIZE = 4
    Packets <- FourPackets
    MaxSent = 5
CHECK_DEADLOCK FALSE
INVARIANTS TypeOK ResidueBounded BytesConserved
PROPERTIES KeepsPromise EveryPacketHandled
