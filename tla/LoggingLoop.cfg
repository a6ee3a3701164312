SPECIFICATION FairLoopSpec
CONSTANTS
    fw = fw
    nat = nat
    None = None
    App <- MCApp
    VnfNames <- MCVnfNames
    HistoryLength = 2
    MaxPolls = 3
    MaxCrashes = 1
INVARIANTS
    LoopTypeOK
    ColumnTellsWindow
PROPERTIES
    CycleEnds
