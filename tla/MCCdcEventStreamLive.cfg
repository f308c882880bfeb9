SPECIFICATION LiveSpec
CONSTANTS
    Group = {1, 2}
    Record <- LiveRecord
    MaxTs = 4
    MaxFloor = 0
    Start <- MCStart
    Scope <- CollectionScope
    Blob <- DropBlob
    SchemaOp <- DropSchemaOp
    Filters = {{}, {"drop", "invalidate"}}
    MayStash = TRUE
    MaxDedup = 0
    SavedKinds = {"event", "invalidate"}
    MaxResumes = 1
INVARIANTS
    InvalidateFollowsDrop
    EndIsPassed
PROPERTIES
    EveryChangeApplied
    DropEndsStream
