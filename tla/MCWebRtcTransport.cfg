SPECIFICATION Spec
CONSTANTS
    Tuples = {udp1, tcp1, tcp2}
    TcpTuples = {tcp1, tcp2}
    NoTuple = NoTuple
    MaxCredential = 3
    Consumers = {d1}
    DataConsumers = {d1}
    EnableSctp = TRUE
INVARIANTS
    TypeOK
    SelectedTupleAgrees
    IceTuplesConsistent
    ConnectedOnlyVerified
    RunsInWantedRole
    DtlsTimerOfRunning
    SctpAwareness
PROPERTIES
    IceRetiredForGood
SYMMETRY Symmetry
