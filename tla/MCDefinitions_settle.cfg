SPECIFICATION Spec
CONSTANTS
    Node = {a, b, c}
    MaxTime = 3
    MaxEdits = 2
    MaxDeletes = 1
    MaxPasses = 1
    MaxFaults = 1
SYMMETRY Interchangeable
INVARIANTS
    PassLevels
    SettleInv
PROPERTIES
    ConflictsAreLeft
    GoneIsGone
CHECK_DEADLOCK FALSE
