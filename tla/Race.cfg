SPECIFICATION Spec
CONSTANTS
    MaxAddrs = 5
    MaxParallel = 2
    Configs <- RaceConfigs
INVARIANT RaceInv
PROPERTY RaceProgress
