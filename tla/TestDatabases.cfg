\* The main thread and one other; two aliases on the two servers of a cluster;
\* any number of runs, which may be killed anywhere.
CONSTANTS
    default = default
    other = other
    s1 = s1
    s2 = s2
    Thread = {main, t1}
    Main = main
    Alias = {default, other}
    NoDb = NoDb
    Server = {s1, s2}
    ServerOf <- MCServerOf
    Order <- MCOrder
    Default = "default"
    Real = "real"
    Test = "test"
    Used = {default}
    Database = {"default", "real", "test"}
SPECIFICATION Spec
CHECK_DEADLOCK FALSE
INVARIANTS ConnectedAsAsked RealUnharmed FreshForTests LeftoversOvercome NothingLeft
PROPERTY ReplacedOnlyIfChanged
