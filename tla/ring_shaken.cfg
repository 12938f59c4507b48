CONSTANTS
    IdSpace = 8
    Nodes = {0, 3, 5, 7}
    Nil = Nil
    NUM_OF_SUCCS = 2
    MaxCalls = 1
    MaxCrashes = 1
    MaxTimeouts = 1
SPECIFICATION LastingFairSpec
PROPERTIES Heals
