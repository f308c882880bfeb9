SPECIFICATION Spec
CONSTANTS
    Group = {1, 2}
    Record <- MixedRecord
    MaxTs = 3
    MaxFloor = 0
    Start <- MCStart
    Scope <- DeploymentScope
    Blob <- MixedBlob
    SchemaOp <- MixedSchemaOp
    Filters = {{}}
    MayStash = TRUE
    MaxDedup = 4
    SavedKinds = {"event", "watermark", "invalidate"}
    MaxResumes = 2
INVARIANTS
    TypeOK
    NothingSkipped
    WatermarkCovers
    NoRepeat
    InTimestampOrder
