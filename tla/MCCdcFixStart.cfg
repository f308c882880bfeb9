SPECIFICATION LiveSpec
CHECK_DEADLOCK FALSE
CONSTANTS
    Group = {1, 2}
    Record <- MCRecord
    MaxTs = 2
    MaxFloor = 0
INVARIANTS
    TypeOK
    NoProbeLeft
PROPERTIES
    MissesNothing
    OpenEnds
