SPECIFICATION Spec
CONSTANTS
    NConn = 2
    NFd = 5
    MaxConns = 5
    MaxVcs = 2
INVARIANT FreshKept
CHECK_DEADLOCK FALSE
