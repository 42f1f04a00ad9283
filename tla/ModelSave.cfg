\* Two processes, a key that can be counted and one that cannot.
CONSTANTS
    Process = {p1, p2}
    Key = {k1, k2}
    Wordy = {k2}
    Value = {v1, v2}
    MaxEvents = 3
SPECIFICATION Spec
INVARIANTS OneRow HoldsLastSaved RaisesOnlyIfMissing
CHECK_DEADLOCK FALSE
