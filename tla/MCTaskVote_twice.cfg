SPECIFICATION Spec
CONSTANTS
    a = a  b = b  c = c
    Node = {a, b, c}
    Rank <- AlphabeticalRank
    MaxSpread = 1
    None = None
    Founders = {a, b, c}
    Eligible = {a}
    MaxTries = 2
    MaxRestarts = 0
    MaxStray = 0
    Slow = {}
    Jumpy = {a}
VIEW Ahead
INVARIANTS
    NeverTwice
CHECK_DEADLOCK FALSE
