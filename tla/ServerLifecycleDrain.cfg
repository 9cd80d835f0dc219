SPECIFICATION Spec
CONSTANTS
    Requests = {r1, r2, r3}
    MaxConns = 2
CHECK_DEADLOCK FALSE
INVARIANTS
    GracefulShutdown
