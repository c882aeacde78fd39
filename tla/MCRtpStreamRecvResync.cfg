SPECIFICATION RecvSpec
CONSTANTS
    SeqModulus = 14
    MaxPacketAge = 4
    MaxNackPackets = 2
    MaxNackRetries = 2
    DefaultRtt = 1
    TimerInterval = 2
    KeyFramesRequestable = TRUE
    MaxDropout = 4
    MaxMisorder = 3
    Watched = {0}
    NoSeq = NoSeq
PROPERTIES
    ResyncedAsFirst
