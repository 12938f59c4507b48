CONSTANTS
    MAX_OPEN_CONNECTIONS = 3
    Peers = {p1, p2, p3}
    None = None
    MaxDeaths = 1
    MaxTimeouts = 0
SPECIFICATION Spec
SYMMETRY PeerSymmetry
CHECK_DEADLOCK FALSE
INVARIANT ClosedOnError
