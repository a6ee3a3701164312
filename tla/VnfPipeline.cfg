SPECIFICATION MCFairSpec
CONSTANTS
    w1 = w1
    w2 = w2
    fromSFC1 = fromSFC1
    fromSFC2 = fromSFC2
    d1 = d1
    d2 = d2
    Malformed = Malformed
    NoPacket = NoPacket
    Nobody = Nobody
    Flusher = Flusher
    MainThread = w1
    Thread <- MCThread
    Targets <- MCTargets
    VnfName <- MCVnfName
    Raw <- MCRaw
    Payload <- MCPayload
    Route <- MCRoute
    QUEUE_SIZE = 1
    BATCH_SIZE = 2
    MaxAccepted <- MCMaxAccepted
    MaxRaises = 1
    MaxWindows = 1
INVARIANTS
    PipelineTypeOK
    EachProcessedOnce
    HeldPacketsBounded
    KpisAddUp
    SentInOrder
    NoneVanishes
    BacklogBounded
PROPERTIES
    QueueIsServed
    QueueDrains
