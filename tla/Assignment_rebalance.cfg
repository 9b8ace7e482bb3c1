CONSTANTS
    NShards = 4
    Gid = {1, 2, 3}
SPECIFICATION AssignmentSpec
PROPERTY Rebalances
