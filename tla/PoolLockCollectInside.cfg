\* A collection may start at an allocation inside pull() or push().
\* Every thread may stop for good: the run shows what that does to a cursor.
CONSTANTS
    Thread = {t1, t2}
    Cursor = {q1, q2}
    Nobody = Nobody
    CollectInside = TRUE
SPECIFICATION Spec
CHECK_DEADLOCK FALSE
PROPERTY ReleasedWhenCollected
