SPECIFICATION Spec
CONSTANTS
    Ids = {i1, i2}
    Filters = {f}
    Required = {q}
    NoRow = NoRow
    MaxRate = 50
    MaxInput = 1
    MaxChanges = 1
    MaxLooks = 3
    MaxFaults = 1
INVARIANTS PublishedRowsPass NothingVanishes PublishedWasJudged
PROPERTIES PassedWithinRate
CHECK_DEADLOCK FALSE
