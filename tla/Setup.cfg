SPECIFICATION SetupSpec
CONSTANTS
    Paths <- FourPaths
    Levels <- ThreeLevels
    MaxParts = 3
    SetupSpecs <- TwoSpecs
    Environments <- ThreeEnvironments
    MaxBuilderCalls = 3
    RaceCalls = 1
    MaxRecords = 2
INVARIANTS
    MostSpecificLastWord
    ConfiguredFilter
    ConfiguredSinks
    OneLoggerForMacros
PROPERTIES
    OnlyItsOwnTargets
