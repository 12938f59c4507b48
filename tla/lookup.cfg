CONSTANTS
    IdSpace = 16
    ID_BITS = 4
    Nodes = {0, 3, 6, 12}
    Nil = Nil
    Wanted = {6, 9}
    MaxCalls = 1
    MaxDeaths = 2
    MaxLapses = 1
SPECIFICATION MCFairSpec
INVARIANTS TypeOK LookupProgress AnswersSkipNone
PROPERTIES FingersSettle
CHECK_DEADLOCK FALSE
