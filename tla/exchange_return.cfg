CONSTANTS
    MAX_OPEN_CONNECTIONS = 3
    Peers = {p1, p2, p3}
    None = None
    MaxDeaths = 0
    MaxTimeouts = 0
SPECIFICATION FairSpec
PROPERTIES SlotsReturn RequestsEnd
