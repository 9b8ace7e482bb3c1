CONSTANTS
    NShards = 4
    Gid = {1, 2, 3, 4, 5}
    s1 = s1
    s2 = s2
    c1 = c1
    c2 = c2
    Server = {s1, s2}
    Client = {c1, c2}
    Nothing = Nothing
    Script <- JoinAndQuery
    MaxTerm = 2
    MaxIndex = 2
    MaxRestarts = 1
    mM = 2
    nR = 2
    w1 = w1
    w2 = w2
    w3 = w3
    Worker = {w1, w2, w3}
    Crashing = {w2, w3}
    MaxTimeouts = 1
SPECIFICATION MCSpec
CHECK_DEADLOCK FALSE
INVARIANTS OwnersExist JobTypeOK CountedOnce InputsReady DoneMeansOutputs
PROPERTIES OneHistory NeverMoreUneven LeaveIsMinimal JobEnds
