SPECIFICATION Spec
CONSTANTS
    MaxSctpStreams = 8
    OsIncrement = 2
    InitialOs = 2
    IsDataChannel = TRUE
    MaxSctpMessageSize = 3
    ConsumerStreams = {2}
    PeerStreams = {0}
    PeerUnordered = FALSE
    PeerMessageSize = 3
    MaxMessages = 1
    NoMessage = NoMessage
INVARIANTS
    WantedStreamsRequested
