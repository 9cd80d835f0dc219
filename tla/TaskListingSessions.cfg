SPECIFICATION FairSpec
CONSTANTS
    Tasks = {1, 2}
    Document <- VariedDocuments
    Filters <- VariedFilters
    RequestedSizes = {1}
    DefaultPageSize = 2
    MaximumPageSize = 2
    DefaultHistory = 2
    NoLength = NoLength
    AnyContext = AnyContext
    AnyState = AnyState
    NoTime = NoTime
    NoRow = NoRow
    NoCursor = NoCursor
    MaxWriters = 1
    ClockMoves <- EitherWay
    MaxClock = 1
INVARIANTS
    UntouchedAreListed
PROPERTIES
    SessionEnds
