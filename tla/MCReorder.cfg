CONSTANTS
    MaxId = 3
    MsgIds <- MCMsgIds
    NConn = 2
    Capacity = 2
    ReorderTimeout = 2
    NotifyInterval = 1
    MaxMissing = 2
    NotifiedCap = 0
    MaxPackets = 2
SPECIFICATION FairSpec
INVARIANTS TypeOK InOrder BufferedAhead NotifiedInGap NotifiedBounded
PROPERTIES BufferedNeverLost StreamSpec GapEnds CloseEndsUnderTimer
