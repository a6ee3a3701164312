SPECIFICATION MCFairSpec
CONSTANTS
    s1 = s1
    s2 = s2
    Script <- MCScript
    Rounds <- MCRounds
    MaxPipe = 2
    MaxOwed = 2
INVARIANTS
    OrchTypeOK
    RatesAddUp
PROPERTIES
    AllRoundsRun
