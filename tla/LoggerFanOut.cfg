SPECIFICATION FairSpec
CONSTANTS
    c1 = c1
    c2 = c2
    None = None
    Callers <- OneCaller
    Capacity = 0
    Policy = "DropNewest"
    Threshold = 2
    RecordLevels = {1, 2, 3, 5}
    MaxCalls = 5
    NumSlots = 4
    MinLevel <- FourFloors
    MaxErrors = 2
    FaultySinks = {1, 2}
    PanickySinks = {}
INVARIANTS
    FanOut
    LevelsRespected
    FailureCount
    SinkOrder
    Accounting
PROPERTIES
    CallsReturn
    DegradedIsFinal
