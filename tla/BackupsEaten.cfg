SPECIFICATION Spec
CONSTANTS
    MaxSize = 3
    BackupLimits = {2}
    Intervals <- FourRules
    Times <- AllTimes
    Sizes = {2}
    Worlds <- OneWorld
    MaxFaults = 1
    MaxRecords = 8
    MaxCrashes = 0
INVARIANTS
    FullBeforeLoss
