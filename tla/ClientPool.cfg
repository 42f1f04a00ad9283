\* One idle client kept, two lent at most, three cursors: refusals happen.
CONSTANTS
    Cursor = {q1, q2, q3}
    Client = {c1, c2, c3}
    NoClient = NoClient
    ConnectionsMin = 1
    ConnectionsMax = 2
    MaxKeys = 4
SPECIFICATION Spec
CHECK_DEADLOCK FALSE
INVARIANTS ExclusiveLending NoSlotLeaked WithinCapacity IdleIsQuiet
PROPERTIES ForgottenReleased ClosedPoolFrozen ImplementsLending
