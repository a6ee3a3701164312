SPECIFICATION MCFairSpec
CONSTANTS
    t1 = t1
    t2 = t2
    t3 = t3
    f1 = f1
    Thread <- MCThread
    Flow <- MCFlow
    Absent = Absent
    WINDOW_SECONDS = 1
    FLOW_EXPIRY_SECONDS = 1
    MaxStamp = 2
    MaxLog = 4
INVARIANTS
    TypeOK
PROPERTIES
    SweepLeavesFew
    MemoryIsReturned
