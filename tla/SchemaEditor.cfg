\* Names of columns and of tables are interchangeable.
\* One operation or two, in one session or two, with one failure.
CONSTANTS
    Node = {n1, n2}
    Here = n1
    Column = {a, b}
    Table = {t, u}
    Shape <- MCShape
    MaxOps = 2
    MaxBreaks = 1
SYMMETRY Names
SPECIFICATION Spec
INVARIANTS AsDeclared  DeferredCurrent RelatedFollows  Backfilled
CHECK_DEADLOCK FALSE
