\* Two cursors share two clients; blocks nest twice and may raise.
CONSTANTS
    Cursor = {q1, q2}
    Client = {c1, c2}
    NoClient = NoClient
    ConnectionsMin = 1
    ConnectionsMax = 1
    MaxKeys = 2
    MaxDepth = 2
SPECIFICATION ArgsSpec
SYMMETRY Symmetry
CHECK_DEADLOCK FALSE
INVARIANT OptionsScoped
