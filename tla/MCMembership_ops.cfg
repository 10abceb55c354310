SPECIFICATION Spec
CONSTANTS
    Nodes = {a, b, c}
    a = a
    b = b
    c = c
    k = k
    Codes = {k}
    MaxOps = 2
    MaxTrouble = 1
SYMMETRY Anyone
INVARIANTS
    AdmittedAndHeard
    ReportsAreTrue
CHECK_DEADLOCK FALSE
