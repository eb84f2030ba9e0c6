CONSTANTS
    NSlots = 2
    NConns = 3
    Budget <- MCBudget
SPECIFICATION FairSpec
INVARIANTS TypeOK WholeInOrder AllDeadNoticed EndsOnce
PROPERTIES CloseEnds
