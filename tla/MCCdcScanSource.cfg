SPECIFICATION Spec
CHECK_DEADLOCK FALSE
CONSTANTS
    Group = {1, 2}
    Record <- MCRecord
    MaxTs = 2
    MaxFloor = 1
    Start <- MCStart
    NoHistory = {}
    MaxBytesPerScan = 1
    BufferBytes = 1
INVARIANTS
    TypeOK
    NothingOlderFollows
    GroupPrefix
    EmitBoundCovers
    FetchedOnce
    OnePagePerGroup
PROPERTIES
    ImplementsOrderedSource
    ScannedTsMonotonic
