\* Collections start only between calls of the pool.
CONSTANTS
    Thread = {t1, t2}
    Cursor = {q1, q2}
    Nobody = Nobody
    CollectInside = FALSE
SPECIFICATION Spec
PROPERTY ReleasedWhenCollected
