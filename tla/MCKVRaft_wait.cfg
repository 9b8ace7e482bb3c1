CONSTANTS
    s1 = s1
    s2 = s2
    c1 = c1
    c2 = c2
    Server = {s1, s2}
    Client = {c1, c2}
    Nothing = Nothing
    Script <- TwoWrites
    MaxTerm = 3
    MaxIndex = 2
    SnapshotIndexes = {}
    MaxRestarts = 0
SPECIFICATION Spec
CHECK_DEADLOCK FALSE
SYMMETRY WritersSymmetry
INVARIANT NoLostNotification
