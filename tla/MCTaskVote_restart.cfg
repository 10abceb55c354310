SPECIFICATION Spec
CONSTANTS
    a = a  b = b  c = c
    Node = {a, b, c}
    Rank <- AlphabeticalRank
    MaxSpread = 1
    None = None
    Founders = {a, b, c}
    Eligible = {a, b}
    MaxTries = 1
    MaxRestarts = 1
    MaxStray = 1
    Slow = {b}
    Jumpy = {}
VIEW Ahead
INVARIANTS
    VoteInv
PROPERTIES
    AtMostOneCandidacyRuns
CHECK_DEADLOCK FALSE
