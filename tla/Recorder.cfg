\* Three processes on two nodes; one process dies, or waits too long.
CONSTANTS
    p1 = p1
    p2 = p2
    p3 = p3
    n1 = n1
    n2 = n2
    Process = {p1, p2, p3}
    Node = {n1, n2}
    NodeOf <- MCNodeOf
    MaxFaults = 1
SPECIFICATION Spec
CHECK_DEADLOCK FALSE
INVARIANTS EnsuredUsable LocalFirst InTurnNeverFails
PROPERTY EventuallyEnsured
