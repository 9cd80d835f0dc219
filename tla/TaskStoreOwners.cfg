SPECIFICATION FairSpec
CONSTANTS
    c2 = c2
    Clients = {c1, c2}
    Conns = {k1, k2}
    Tasks = {t1}
    Identities <- TwoIdentities
    Contents = {c1, c2}
    MaxVersion = 2
    Requests <- RivalRequests
    NoTask = NoTask
    NoIdentity = NoIdentity
    NoContent = NoContent
    NoRequest = NoRequest
    NoConn = NoConn
    NoRow = NoRow
INVARIANTS
    OwnerOnly
PROPERTIES
    ImplementsTaskLog
    CallsReturn
