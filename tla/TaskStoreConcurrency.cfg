SPECIFICATION Spec
CONSTANTS
    c2 = c2
    Clients = {c1, c2}
    Conns = {k1, k2}
    Tasks = {t1}
    Identities <- OneIdentity
    Contents = {c1, c2}
    MaxVersion = 2
    Requests <- OwnersRequests
    NoTask = NoTask
    NoIdentity = NoIdentity
    NoContent = NoContent
    NoRequest = NoRequest
    NoConn = NoConn
    NoRow = NoRow
SYMMETRY Symmetry
INVARIANTS
    TypeOK
    NoLostUpdate
    AcknowledgedIsDurable
    LockedRowIsPinned
