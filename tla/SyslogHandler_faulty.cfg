SPECIFICATION FairSpec
CONSTANTS
    MTU_ATTEMPTS <- MTUs
    WORST_CASE_MTU_IP = 70
    DATAGRAM_HEADER_LENGTH = 28
    StreamLimit = 45
    InterfaceMtus = {60, 76, 80, 85, 120}
    Records <- Logs
    MaxParts = 40
    Faults = {"probe", "send"}
INVARIANTS
    PacketsFit
    NothingIsLost
PROPERTY EmissionEnds
CHECK_DEADLOCK FALSE
