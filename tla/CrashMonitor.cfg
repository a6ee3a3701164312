SPECIFICATION Spec
CONSTANTS
    fw = fw
    nat = nat
    None = None
    App <- MCApp
    VnfNames <- MCVnfNames
    HistoryLength = 2
    MaxPods = 2
    MaxEvents = 4
    MaxPolls = 3
INVARIANTS
    TypeOK
    CaughtUp
PROPERTIES
    QuietVnfFlaggedForCause
