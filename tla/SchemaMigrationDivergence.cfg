SPECIFICATION FairSpec
CONSTANTS
    m1 = m1
    m2 = m2
    s1 = s1
    s2 = s2
    Servers = {s1, s2}
    Migrators = {m1, m2}
    File <- AllFiles
    Embedded <- Divergence
    Sessions = {b1, b2}
    NoSession = NoSession
    NoFile = NoFile
    MaxRuns = 1
CHECK_DEADLOCK FALSE
INVARIANTS
    ServesOnItsSchema
PROPERTIES
    ForwardOnly
    NobodyHangs
