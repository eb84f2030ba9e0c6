CONSTANTS
    MaxId = 0
    MsgIds <- MCMsgIds
    NConn = 1
    Capacity = 3
    ReorderTimeout = 2
    NotifyInterval = 1
    MaxMissing = 2
    NotifiedCap = 1
    MaxPackets = 1
SPECIFICATION FairSpec
PROPERTY CloseReturns
