SPECIFICATION Spec
CONSTANTS
    Tasks = {1, 2, 3}
    Document <- PlainDocuments
    Filters <- PlainFilters
    RequestedSizes = {0, 1}
    DefaultPageSize = 2
    MaximumPageSize = 2
    DefaultHistory = 2
    NoLength = NoLength
    AnyContext = AnyContext
    AnyState = AnyState
    NoTime = NoTime
    NoRow = NoRow
    NoCursor = NoCursor
    MaxWriters = 2
    ClockMoves = {1}
    MaxClock = 2
INVARIANTS
    TypeOK
    PageMatchesCount
    PagesDescend
