SPECIFICATION FairSpec
CONSTANTS
    Requests = {r1, r2, r3}
    MaxConns = 2
CHECK_DEADLOCK FALSE
INVARIANTS
    TypeOK
    NoStoreCallCut
PROPERTIES
    SignalStops
