SPECIFICATION LiveSpec
CHECK_DEADLOCK FALSE
CONSTANTS
    Group = {g1, g2, g3}
    MaxThreads = 4
INVARIANTS
    TypeOK
    ResumedOnce
    NoLostWakeup
PROPERTIES
    CompletionWakes
