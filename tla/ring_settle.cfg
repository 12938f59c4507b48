CONSTANTS
    IdSpace = 8
    Nodes = {0, 3, 7}
    Nil = Nil
    NUM_OF_SUCCS = 2
    MaxCalls = 2
    MaxCrashes = 0
    MaxTimeouts = 0
SPECIFICATION SettleSpec
PROPERTIES SettlesUnlessDisplaced JoinEnds
