CONSTANTS
    IdSpace = 32
    ID_BITS = 5
    Nodes = {0, 3, 6, 12}
    Nil = Nil
    Wanted = {6}
    MaxCalls = 1
    MaxDeaths = 0
    MaxLapses = 0
SPECIFICATION MCFairSpec
INVARIANTS AsksPredecessor
CHECK_DEADLOCK FALSE
