SPECIFICATION SetupSpec
CONSTANTS
    Paths <- FourPaths
    Levels <- ThreeLevels
    MaxParts = 1
    SetupSpecs <- TwoSpecs
    Environments <- ThreeEnvironments
    MaxBuilderCalls = 1
    RaceCalls = 1
    MaxRecords = 1
INVARIANT StrayEqualsSkipped
