SPECIFICATION Spec
CONSTANTS
    SeqModulus = 6
    StorageSize = 3
    NackBits = 1
    MaxRetransmissionDelay = 2
    AgeModulus = 5
    HasRtx = TRUE
    MaxIndex = 8
    NoPacket = NoPacket
    Free = Free
INVARIANTS
    TypeOK
    StorageInUse
    SlotsHoldTheirPackets
PROPERTIES
    InOrderKeepsOldest
    ImplementsCache
