SPECIFICATION Spec
CONSTANTS
    Node = {a, b, c}
    MaxTime = 2
    MaxEdits = 1
    MaxDeletes = 1
    MaxPasses = 1
    MaxFaults = 0
PROPERTIES
    LocalOnlyIsLocal
CHECK_DEADLOCK FALSE
