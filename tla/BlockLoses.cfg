SPECIFICATION Spec
CONSTANTS
    c1 = c1
    c2 = c2
    None = None
    Callers <- TwoCallers
    Capacity = 2
    Policy = "Block"
    Threshold = 0
    RecordLevels = {2}
    MaxCalls = 1
    NumSlots = 1
    MinLevel <- OneFloor
    MaxErrors = 2
    FaultySinks = {}
    PanickySinks = {}
INVARIANTS
    BlockLosesNothing
