SPECIFICATION Spec
CONSTANTS
    NConn = 2
    NFd = 5
    MaxConns = 5
    MaxVcs = 2
INVARIANTS TypeOK ClosesOwn SlotsAgree NothingLeft
CHECK_DEADLOCK FALSE
