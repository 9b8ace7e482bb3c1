CONSTANTS
    g1 = g1
    g2 = g2
    c1 = c1
    c2 = c2
    Group = {g1, g2}
    NoGroup = NoGroup
    Shard = {"a"}
    Client = {c1, c2}
    Nothing = Nothing
    Config <- ThereAndBack
    Script <- NoCalls
    MaxLost = 1
SPECIFICATION LossySpec
CHECK_DEADLOCK FALSE
PROPERTY Reconfigures
