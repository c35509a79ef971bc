SPECIFICATION Spec
CONSTANTS
    MaxSize = 3
    BackupLimits = {0, 2}
    Intervals <- FourRules
    Times <- AllTimes
    Sizes = {1, 4}
    Worlds <- ThreeWorlds
    MaxFaults = 1
    MaxRecords = 5
    MaxCrashes = 1
INVARIANTS
    OrderAcrossFiles
    NoHoles
    SizeTracksFile
    SizeBound
    OneIntervalPerFile
    OnlyTheLastStraddles
PROPERTIES
    OnlyOldestLeaves
    NoNeedlessRotation
