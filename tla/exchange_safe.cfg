CONSTANTS
    MAX_OPEN_CONNECTIONS = 3
    Peers = {p1, p2, p3, p4}
    None = None
    MaxDeaths = 2
    MaxTimeouts = 1
SPECIFICATION Spec
SYMMETRY PeerSymmetry
CHECK_DEADLOCK FALSE
INVARIANTS TypeOK OwedAnswersKept AnswerToAsker CrashOnlyWhenFull
PROPERTIES LookupsFollowed ImplementsPool
