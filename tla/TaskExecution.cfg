SPECIFICATION Spec
CONSTANTS
    Executions = {e1, e2}
    Cancels = {c1}
    Names = {a}
    Outputs <- SomeOutputs
    MaxOutputs = 2
    Buffer = 1
    Slots = {s1}
    NoName = NoName
    NoId = NoId
    NoTask = NoTask
    NoIdentity = NoIdentity
    NoContent = NoContent
    NoRequest = NoRequest
SYMMETRY Symmetry
CHECK_DEADLOCK FALSE
INVARIANTS
    TypeOK
    StreamWellFormed
    TaskShowsWholeOutput
PROPERTIES
    TaskFollowsProtocol
