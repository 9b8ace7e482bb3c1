CONSTANTS
    s1 = s1
    s2 = s2
    c1 = c1
    c2 = c2
    Server = {s1, s2}
    Client = {c1, c2}
    Nothing = Nothing
    Script <- ReadAndWrite
    MaxTerm = 2
    MaxIndex = 2
    SnapshotIndexes = {1}
    MaxRestarts = 1
SPECIFICATION Spec
SYMMETRY Symmetry
CHECK_DEADLOCK FALSE
INVARIANTS ReplicasAgree
PROPERTY Linearizable
