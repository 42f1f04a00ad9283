\* The same, for what the documentation says of distributed tables.
CONSTANTS
    Process = {p1}
    Key = {k1}
    Wordy = {}
    Value = {v1, v2}
    MaxEvents = 2
SPECIFICATION Spec
INVARIANT OneRowDistributed
CHECK_DEADLOCK FALSE
