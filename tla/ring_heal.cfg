CONSTANTS
    IdSpace = 8
    Nodes = {0, 3, 7}
    Nil = Nil
    NUM_OF_SUCCS = 3
    MaxCalls = 1
    MaxCrashes = 1
    MaxTimeouts = 0
SPECIFICATION SettledFairSpec
INVARIANTS LookupProgress
PROPERTIES Heals Forgets
