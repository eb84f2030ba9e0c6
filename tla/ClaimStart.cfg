SPECIFICATION Spec
CONSTANTS
    NConn = 2
    MaxRetries = 1
    MaxVcs = 3
    MaxSockets = 6
INVARIANT NoDoubleStart
