SPECIFICATION LiveSpec
CONSTANTS
    Node = {n1, n2, n3}
    NoNode = NoNode
    Stranger = Stranger
    RetryBackoffInitial = 2
    RetryBackoffMax = 5
    IdlePause = 1
    MaxChanges = 2
INVARIANTS
    TypeOK
PROPERTIES
    Paced
    EventuallyServed
