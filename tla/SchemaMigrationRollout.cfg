SPECIFICATION Spec
CONSTANTS
    m1 = m1
    m2 = m2
    s1 = s1
    s2 = s2
    Servers = {s1}
    Migrators = {m1, m2}
    File <- ThreeFiles
    Embedded <- Rollout
    Sessions = {b1, b2, b3}
    NoSession = NoSession
    NoFile = NoFile
    MaxRuns = 2
SYMMETRY Symmetry
CHECK_DEADLOCK FALSE
INVARIANTS
    TypeOK
    ApplyNeverConflicts
    NoLockLeak
    ApprovedIsExact
PROPERTIES
    ImplementsLedger
