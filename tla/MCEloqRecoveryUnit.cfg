CONSTANTS
    Table = {t1}
    Own = {a, b}
    Other = {o}
    None = None
    MaxChanges = 6
SPECIFICATION Spec
INVARIANTS
    TypeOK
    RollbackRestores
    CacheIsCurrent
PROPERTY
    NoLostUpdate
