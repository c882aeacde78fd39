SPECIFICATION Spec
CONSTANTS
    MaxSctpStreams = 3
    OsIncrement = 2
    InitialOs = 2
    IsDataChannel = TRUE
    MaxSctpMessageSize = 2
    ConsumerStreams = {2}
    PeerStreams = {0, 1}
    PeerUnordered = TRUE
    PeerMessageSize = 3
    MaxMessages = 3
    NoMessage = NoMessage
INVARIANTS
    TypeOK
    BufferFits
PROPERTIES
    SeriesDelivered
    AskedOnce
