SPECIFICATION Spec
CONSTANTS
    Group = {1, 2}
    Record <- DropRecord
    MaxTs = 4
    MaxFloor = 0
    Start <- MCStart
    Scope <- CollectionScope
    Blob <- DropBlob
    SchemaOp <- DropSchemaOp
    Filters = {{}}
    MayStash = TRUE
    MaxDedup = 4
    SavedKinds = {"event", "watermark", "invalidate"}
    MaxResumes = 2
INVARIANTS
    InvalidateFollowsDrop
