SPECIFICATION Spec
CONSTANTS
    Transports = {"unix"}
    NumPaths = 2
    Facility = 3
    HeaderLens <- NoRoomRemotely
    MaxPacket = 6
    MaxErrors = 2
    Records <- ThreeRecords
    QueueLen = 1
    MaxRecords = 3
    MaxRuns = 3
INVARIANTS
    DatagramsFit
