SPECIFICATION Spec
CONSTANTS
    t1 = t1
    t2 = t2
    request = request
    user = user
    Threads <- TwoThreads
    FieldLists <- ThreeLists
    MaxFrames = 3
    MaxSnapshots = 1
SYMMETRY ThreadSymmetry
INVARIANTS
    StackIsLiveGuards
    InnermostWins
    SnapshotTransfers
    RecordFields
