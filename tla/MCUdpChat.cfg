SPECIFICATION FairSpec
CONSTANTS
    Addrs = {a, b}
    Nobody = Nobody
    MAX_CLIENTS = 2
    MaxSent = 3
INVARIANTS
    TypeOK
    EntriesKept
PROPERTIES
    GoneAreRemoved
    DuplicatesAreRemoved
CHECK_DEADLOCK FALSE
