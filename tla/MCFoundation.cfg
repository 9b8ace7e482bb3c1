CONSTANTS
    MaxIndex = 4
    h1 = h1
    h2 = h2
    Handler = {h1, h2}
    e1 = e1
    e2 = e2
    End = {e1, e2}
    MaxPersisters = 4
    History <- Histories
    Nothing = Nothing
SPECIFICATION MCSpec
CHECK_DEADLOCK FALSE
INVARIANTS TypeOK ServiceIsPrefix AppliedInBounds RepliedIsPersisted VerdictIsRight LongestIsLongest
PROPERTIES CallsReturn Terminates
