CONSTANTS
    MAX_OPEN_CONNECTIONS = 2
    MaxConns = 4
    None = None
SPECIFICATION FairSpec
INVARIANTS TypeOK OwnSlot ConnectsHome BodyHome LocksOrdered
PROPERTIES LocksEnd ImplementsPool
CHECK_DEADLOCK FALSE
