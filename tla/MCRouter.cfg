SPECIFICATION Spec
CONSTANTS
    Transports = {t1, t2}
    Producers = {a1, v1, d1}
    AudioProducers = {a1}
    DataProducers = {d1}
    Consumers = {c1, e1}
    DataConsumers = {e1}
    RtpObservers = {o1}
    Ssrcs = {s1, s2}
    Mids = {m1}
    StreamIds = {i1}
    NoProducer = NoProducer
INVARIANTS
    MapsAgree
    ListenerRoutes
    PausedAgrees
    ObserversReady
    NeverFails
SYMMETRY Symmetry
