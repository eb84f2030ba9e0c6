SPECIFICATION FairSpec
CONSTANTS
    Threshold = 0
    SizeMod = 16
    MaxBatch = 2
    MaxCalls = 1
INVARIANTS TypeOK NoLostWakeup
PROPERTIES SendServed StopEnds
