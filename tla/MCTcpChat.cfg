SPECIFICATION FairSpec
CONSTANTS
    Conns = {c1, c2}
    None = None
    MAX_CLIENTS = 1
    MaxSent = 1
INVARIANTS
    TypeOK
    FdsAccounted
    EntriesServed
PROPERTIES
    LeaversAreRemoved
CHECK_DEADLOCK FALSE
