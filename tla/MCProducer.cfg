SPECIFICATION ProducerSpec
CONSTANTS
    Ssrcs = {s1, s2, s3}
INVARIANTS
    NeedsWillRetry
    InactivityWatched
PROPERTIES
    NeedsAreMet
