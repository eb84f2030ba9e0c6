SPECIFICATION FairSpec
CONSTANTS
    NConn = 2
    MaxRetries = 1
    MaxVcs = 1
    MaxSockets = 3
PROPERTY JoinReturns
