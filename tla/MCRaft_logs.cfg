CONSTANTS
    s1 = s1
    s2 = s2
    s3 = s3
    c1 = c1
    Server = {s1, s2, s3}
    Command = {c1}
    Nil = Nil
    MaxTerm = 2
    MaxIndex = 2
    MaxRpcs = 2
    MaxAsked = 1
    Campaigning = {s1, s2}
    Crashing = {s3}
    SnapshotIndexes = {1}
    Instances <- LogInstances
SPECIFICATION MCSpec
SYMMETRY FollowerSymmetry
CHECK_DEADLOCK FALSE
INVARIANTS AckedIsStored SnapshotAligned LogMatching
