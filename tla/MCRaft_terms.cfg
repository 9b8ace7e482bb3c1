CONSTANTS
    s1 = s1
    s2 = s2
    s3 = s3
    c1 = c1
    Server = {s1, s2, s3}
    Command = {c1}
    Nil = Nil
    MaxTerm = 4
    MaxIndex = 1
    MaxRpcs = 2
    MaxAsked = 1
    Campaigning = {s1, s2}
    Crashing = {s1, s2, s3}
    SnapshotIndexes = {}
    Instances <- TermInstances
SPECIFICATION MCHistorySpec
CHECK_DEADLOCK FALSE
PROPERTY OneLog
