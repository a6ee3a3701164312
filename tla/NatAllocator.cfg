SPECIFICATION FairSpec
CONSTANTS
    w1 = w1
    w2 = w2
    w3 = w3
    e1 = e1
    e2 = e2
    tcp = tcp
    udp = udp
    None = None
    Worker <- MCWorker
    Endpoint <- MCEndpoint
    Proto <- MCProto
    PORT_POOL_START = 10
    PORT_POOL_END = 11
INVARIANTS
    TypeOK
PROPERTIES
    CallsAreAtomic
    ReturnsTheFlowsPort
    CallsReturn
