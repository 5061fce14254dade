SPECIFICATION ServicesSpec
CONSTANTS
    Posts = {p1, p2}
    Workers = {w1, w2}
    Keep = 3
    MaxTroubles = 2
    Uploads = {u1}
    Names = {a, b}
    MaxColumns = 3
    MaxSize = 1
    MaxChunks = 2
INVARIANTS AnswersMatch NothingLost WholeOrNothing ColumnsKept
PROPERTIES BusyEnds
CHECK_DEADLOCK FALSE
