\* Three nodes, a local and a cluster operation, one process may die.
CONSTANTS
    Node = {n1, n2, n3}
    Operations = 2
    OnCluster = {1}
    Rounds = TRUE
    MaxCrashes = 1
SPECIFICATION Spec
INVARIANTS AppliedHasTables UnappliedHasNone OnClusterOnce
