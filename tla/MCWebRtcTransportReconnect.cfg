SPECIFICATION Spec
CONSTANTS
    Tuples = {udp1, tcp1}
    TcpTuples = {tcp1}
    NoTuple = NoTuple
    MaxCredential = 1
    Consumers = {c1}
    DataConsumers = {}
    EnableSctp = FALSE
INVARIANTS
    ConsumersKnowConnected
