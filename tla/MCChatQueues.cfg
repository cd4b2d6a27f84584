SPECIFICATION EndlessSpec
CONSTANTS
    Clients = {c1, c2}
    Keys = {k1, k2}
    None = None
    ServerRoom = 2
    ClientRoom = 2
    MaxSaid = 2
INVARIANTS
    TypeOK
    IdsMatch
    OneOrder
PROPERTIES
    EveryMessageIsBroadcast
    ClientsGetIds
