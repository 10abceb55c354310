SPECIFICATION Spec
CONSTANTS
    a = a  b = b  c = c
    Node = {a, b, c}
    Rank <- AlphabeticalRank
    MaxSpread = 1
    None = None
    Founders = {a, b}
    Eligible = {a, c}
    MaxTries = 1
    MaxRestarts = 0
    MaxStray = 0
    Slow = {}
    Jumpy = {a}
INVARIANTS
    WinnerKeepsItsGrants
    AtMostOnce
    LosersHoldNothing
CHECK_DEADLOCK FALSE
