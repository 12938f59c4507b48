CONSTANTS
    LEN_STR_BYTES = 8
    ID_BYTES = 4
    Lengths = {0, 1, 5}
SPECIFICATION FairSpec
INVARIANTS TypeOK MessageWhole MisusedOnlyWhenSplit
PROPERTIES MessageArrives WholeIfThere
CHECK_DEADLOCK FALSE
