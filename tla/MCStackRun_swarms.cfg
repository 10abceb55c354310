SPECIFICATION FairSpec
CONSTANTS
    home = home  peer = peer
    Node = {home, peer}
    Home = home
    Plan <- TwoSwarms
    SwarmOf <- TwoSwarmsSwarm
    Kind <- TwoSwarmsKind
    Where <- TwoSwarmsWhere
    MaxSilences = 1
    MaxFailures = 1
    MaxForgotten = 1
    MaxLost = 1
INVARIANTS
    SequenceHolds
PROPERTIES
    RunEnds
CHECK_DEADLOCK FALSE
