SPECIFICATION FairSpec
CONSTANTS
    c1 = c1
    c2 = c2
    None = None
    Callers <- TwoCallers
    Capacity = 1
    Policy = "Block"
    Threshold = 0
    RecordLevels = {2}
    MaxCalls = 2
    NumSlots = 2
    MinLevel <- TwoFloors
    MaxErrors = 2
    FaultySinks = {}
    PanickySinks = {2}
CHECK_DEADLOCK FALSE
INVARIANTS
    TypeOK
    IInv
    ShutdownStopsWriter
    FlushDrains
    LossOnlyAfterShutdown
PROPERTIES
    ImplementsQueue
    CallsReturn
    WriterStops
