SPECIFICATION Spec
CONSTANTS
    Members = {m, n}
    Asks = {a, b}
    Before = Before
    None = None
    Names = {1}
    MaxTrouble = 0
INVARIANTS
    KeptIsUsed
CHECK_DEADLOCK FALSE
