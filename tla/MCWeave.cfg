SPECIFICATION LiveSpec
CONSTANTS
    NumCores = 2
    NumDomains = 2
    Configs <- MCConfigs
    PhaseLength = 10
    MaxPhases = 2
    Gaps = {1}
    AccLat = 1
    Dispatch = {1}
    Pre = 1
    Post = 2
    Contention = {8}
INVARIANTS AssertsHold NoEventStranded CrossingOnTime
PROPERTIES ImplementsHandOff PhaseEnds
