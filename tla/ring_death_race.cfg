CONSTANTS
    IdSpace = 8
    Nodes = {0, 3, 7}
    Nil = Nil
    NUM_OF_SUCCS = 2
    MaxCalls = 2
    MaxCrashes = 1
    MaxTimeouts = 0
SPECIFICATION LastingFairSpec
PROPERTIES HealsUnlessDisplaced OverrunsFromLastOnly
