SPECIFICATION Spec
CONSTANTS
    fw = fw
    nat = nat
    None = None
    App <- MCOneApp
    VnfNames <- MCOneVnfName
    HistoryLength = 5
    MaxPods = 1
    MaxEvents = 2
    MaxPolls = 2
PROPERTIES
    OOMKilledIsFlagged
