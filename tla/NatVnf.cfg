SPECIFICATION MCSpec
CONSTANTS
    w1 = w1
    w2 = w2
    target = target
    e1 = e1
    e2 = e2
    e3 = e3
    tcp = tcp
    None = None
    Other = Other
    Malformed = Malformed
    NoPacket = NoPacket
    Nobody = Nobody
    Flusher = Flusher
    MainThread = w1
    Thread <- MCWorker
    Targets <- MCTargets
    Payload <- MCPayload
    Endpoint <- MCEndpoint
    Proto <- MCProto
    VnfName <- MCVnfName
    Raw <- MCRaw
    Route <- MCRoute
    PORT_POOL_START = 10
    PORT_POOL_END = 11
    QUEUE_SIZE = 2
    BATCH_SIZE = 2
    MaxAccepted <- MCMaxAccepted
    MaxRaises = 2
    MaxWindows = 1
SYMMETRY Symmetry
INVARIANTS
    TypeOK
    EachProcessedOnce
    FlowsStayApart
    ReverseOwnsPort
    OneToOneUntilWrap
PROPERTIES
    PortIsKept
