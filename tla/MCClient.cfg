SPECIFICATION Spec
CONSTANTS
    NConn = 2
    MaxRetries = 1
    MaxVcs = 2
    MaxSockets = 5
VIEW View
INVARIANTS TypeOK NoCrash ChannelWhole ClosedOnce NoLeak SpliceSameVc
PROPERTY WindsDown
